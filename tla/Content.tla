------------------------------- MODULE Content -------------------------------
(***************************************************************************)
(* What people and operators publish on the map: community events (an       *)
(* account's own), official announcements and important places (an          *)
(* operator's), with the pass of the image cleanup that takes the photos of *)
(* ended announcements.                                                    *)
(*                                                                         *)
(* The three are edited alike and without a transaction: a call reads the   *)
(* row, changes the fields that were sent and writes every column back, so  *)
(* two calls on one row may overtake each other between any two statements. *)
(* A row of one kind never meets one of another: a behaviour has one kind.  *)
(* An operator used nowhere that stands before another with the same        *)
(* parameters is a mistake the properties would catch.                      *)
(***************************************************************************)
EXTENDS Integers, FiniteSets

CONSTANTS
  Kinds,        \* "event", "announcement", "place"
  Rows,         \* ids
  Users,        \* accounts that organise events
  Calls,        \* requests in flight
  Keys,         \* image objects
  Requests,     \* the fields a request may send, per kind
  MaxImages, MaxDuration, MaxLeadTime, MaxUpcoming,
  Retention,    \* the cleanup's ResolvedRetention
  Limit,        \* rows a list shows
  BatchSize,    \* announcements of a cleanup pass
  Unsent, None,
  MaxTime       \* bound of the clock

ASSUME ContentAssumption ==
  /\ MaxImages \in Nat /\ Limit \in Nat
  /\ IsFiniteSet(Rows)

\* The decoded bodies: times are instants, images a list; an event's end
\* cannot be null.
ASSUME RequestsAssumption ==
  \A k \in Kinds : \A f \in Requests[k] :
    /\ f.start # Unsent => f.start \in Int
    /\ f.end \notin {Unsent, None} => f.end \in Int
    /\ f.images # Unsent => IsFiniteSet(f.images)
    /\ k = "event" => f.end # None

VARIABLES
  now,
  kind,         \* what the rows are
  row,          \* the table
  made,         \* ids used so far
  bucket,       \* objects in storage
  call,         \* requests
  cleaner       \* the announcement part of a cleanup pass

vars == <<now, kind, row, made, bucket, call, cleaner>>

\* live: active (event), published (announcement).
Blank(owner, live) ==
  [owner |-> owner, title |-> Unsent, start |-> Unsent, end |-> None, live |-> live,
   images |-> {}, point |-> None, radius |-> None]
NoRow == Blank(None, FALSE)

Exists(r) == row[r] # NoRow

NoCall == [pc |-> "idle", id |-> None, row |-> NoRow]
Call(pc, id, new) == [pc |-> pc, id |-> id, row |-> new]

Merged(old, new) == IF new = Unsent THEN old ELSE new

\* --- Community events ------------------------------------------------------

\* Event.Status: cancelled, then ended, then active.
Status(e) == CASE ~e.live -> "cancelled" [] e.live /\ now >= e.end -> "ended" [] OTHER -> "active"

ValidWindow(start, end) ==
  /\ end > start
  /\ end - start <= MaxDuration
  /\ end > now
  /\ start - now <= MaxLeadTime

\* ValidateCreate: everything is required but description, place name, photo.
ValidCreate(f) ==
  /\ f.title # Unsent /\ f.start # Unsent /\ f.end # Unsent /\ f.point \notin {Unsent, None}
  /\ ValidWindow(f.start, f.end)

\* The fields of an event; "" clears its photo.
Apply(f, e) ==
  [owner |-> e.owner, title |-> Merged(e.title, f.title), start |-> Merged(e.start, f.start),
   end |-> Merged(e.end, f.end), live |-> e.live, images |-> Merged(e.images, f.images),
   point |-> Merged(e.point, f.point), radius |-> e.radius]

\* The window is checked only when both of its ends were sent.
ApplicableAsSent(f, e) == f.start # Unsent /\ f.end # Unsent => ValidWindow(f.start, f.end)

\* The window that results is checked when either end was sent.
Applicable(f, e) ==
  f.start # Unsent \/ f.end # Unsent => ValidWindow(Apply(f, e).start, Apply(f, e).end)

\* One call between two statements: it goes on, or is refused.
Go(c, next) == call' = [call EXCEPT ![c] = next]
Refuse(c) == Go(c, NoCall)

CountUpcomingByOwner(u) ==
  Cardinality({r \in Rows : row[r].owner = u /\ row[r].live /\ row[r].end > now})

\* Create: validate, count, then insert in a step of its own.
CreateEvent(c, u, f) ==
  /\ kind = "event" /\ call[c].pc = "idle"
  /\ IF ValidCreate(f) /\ CountUpcomingByOwner(u) < MaxUpcoming
     THEN Go(c, Call("insert", None, Apply(f, Blank(u, TRUE))))
     ELSE Refuse(c)
  /\ UNCHANGED <<now, kind, row, made, bucket, cleaner>>

\* owned: unknown is not found, somebody else's is forbidden.
Owned(u, r) == Exists(r) /\ row[r].owner = u

UpdateEvent(c, u, r, f) ==
  /\ kind = "event" /\ call[c].pc = "idle"
  /\ IF Owned(u, r) /\ Status(row[r]) = "active" /\ Applicable(f, row[r])
     THEN Go(c, Call("write", r, Apply(f, row[r])))
     ELSE Refuse(c)
  /\ UNCHANGED <<now, kind, row, made, bucket, cleaner>>

\* Cancelling twice is a no-op; an ended event may still be cancelled.
CancelEvent(c, u, r) ==
  /\ kind = "event" /\ call[c].pc = "idle"
  /\ IF Owned(u, r) /\ row[r].live
     THEN Go(c, Call("write", r, [row[r] EXCEPT !.live = FALSE]))
     ELSE Refuse(c)
  /\ UNCHANGED <<now, kind, row, made, bucket, cleaner>>

DeleteEvent(c, u, r) ==
  /\ kind = "event" /\ call[c].pc = "idle"
  /\ IF Owned(u, r) THEN Go(c, Call("delete", r, NoRow)) ELSE Refuse(c)
  /\ UNCHANGED <<now, kind, row, made, bucket, cleaner>>

\* --- Announcements -----------------------------------------------------------

ValidImages(images) == images = Unsent \/ Cardinality(images) <= MaxImages

\* Validate: what must be sent, and what is wrong whatever the row holds.
ValidAnnouncement(f, requireAll) ==
  /\ requireAll => f.title # Unsent /\ f.start # Unsent
  /\ ValidImages(f.images)

\* Apply: the fields sent are written; end None makes it open-ended, and point
\* None clears the location with the radius it had.
ApplyAnnouncement(f, a) ==
  [owner |-> a.owner, title |-> Merged(a.title, f.title), start |-> Merged(a.start, f.start),
   end |-> Merged(a.end, f.end), live |-> a.live, images |-> Merged(a.images, f.images),
   point |-> Merged(a.point, f.point),
   radius |-> Merged(IF f.point = None THEN None ELSE a.radius, f.radius)]

\* The combined result: a radius needs a point, the window ends after it starts.
Coherent(a) ==
  /\ a.radius # None => a.point # None
  /\ a.end # None => a.end > a.start

CreateAnnouncement(c, f, publish) ==
  /\ kind = "announcement" /\ call[c].pc = "idle"
  /\ LET a == ApplyAnnouncement(f, Blank(None, publish)) IN
     IF ValidAnnouncement(f, TRUE) /\ Coherent(a) THEN Go(c, Call("insert", None, a)) ELSE Refuse(c)
  /\ UNCHANGED <<now, kind, row, made, bucket, cleaner>>

UpdateAnnouncement(c, r, f) ==
  /\ kind = "announcement" /\ call[c].pc = "idle"
  /\ LET a == ApplyAnnouncement(f, row[r]) IN
     IF ValidAnnouncement(f, FALSE) /\ Exists(r) /\ Coherent(a)
     THEN Go(c, Call("write", r, a)) ELSE Refuse(c)
  /\ UNCHANGED <<now, kind, row, made, bucket, cleaner>>

SetPublished(c, r, publish) ==
  /\ kind = "announcement" /\ call[c].pc = "idle"
  /\ IF Exists(r) THEN Go(c, Call("write", r, [row[r] EXCEPT !.live = publish])) ELSE Refuse(c)
  /\ UNCHANGED <<now, kind, row, made, bucket, cleaner>>

DeleteAnnouncement(c, r) ==
  /\ kind = "announcement" /\ call[c].pc = "idle"
  /\ Go(c, Call("delete", r, NoRow))
  /\ UNCHANGED <<now, kind, row, made, bucket, cleaner>>

\* --- Important places ----------------------------------------------------------

ValidPlace(f, requireAll) == requireAll => f.title # Unsent /\ f.point \notin {Unsent, None}

ApplyPlace(f, p) ==
  [owner |-> p.owner, title |-> Merged(p.title, f.title), start |-> p.start, end |-> p.end,
   live |-> p.live, images |-> p.images,
   point |-> IF f.point \in {Unsent, None} THEN p.point ELSE f.point, radius |-> p.radius]

CreatePlace(c, f) ==
  /\ kind = "place" /\ call[c].pc = "idle"
  /\ IF ValidPlace(f, TRUE) THEN Go(c, Call("insert", None, ApplyPlace(f, Blank(None, TRUE)))) ELSE Refuse(c)
  /\ UNCHANGED <<now, kind, row, made, bucket, cleaner>>

UpdatePlace(c, r, f) ==
  /\ kind = "place" /\ call[c].pc = "idle"
  /\ IF ValidPlace(f, FALSE) /\ Exists(r) THEN Go(c, Call("write", r, ApplyPlace(f, row[r])))
     ELSE Refuse(c)
  /\ UNCHANGED <<now, kind, row, made, bucket, cleaner>>

DeletePlace(c, r) ==
  /\ kind = "place" /\ call[c].pc = "idle"
  /\ Go(c, Call("delete", r, NoRow))
  /\ UNCHANGED <<now, kind, row, made, bucket, cleaner>>

\* --- The statements --------------------------------------------------------------

Insert(c) ==
  /\ call[c].pc = "insert"
  /\ \E r \in Rows \ made :
       /\ row' = [row EXCEPT ![r] = call[c].row]
       /\ made' = made \cup {r}
  /\ Refuse(c)
  /\ UNCHANGED <<now, kind, bucket, cleaner>>

\* A row that is gone is inserted again.
Upsert(c) ==
  /\ call[c].pc = "write"
  /\ row' = [row EXCEPT ![call[c].id] = call[c].row]
  /\ Refuse(c)
  /\ UNCHANGED <<now, kind, made, bucket, cleaner>>

\* UPDATE ... WHERE id: every column of the row, if there still is one.
Write(c) ==
  /\ call[c].pc = "write"
  /\ row' = IF Exists(call[c].id) THEN [row EXCEPT ![call[c].id] = call[c].row] ELSE row
  /\ Refuse(c)
  /\ UNCHANGED <<now, kind, made, bucket, cleaner>>

Delete(c) ==
  /\ call[c].pc = "delete"
  /\ row' = [row EXCEPT ![call[c].id] = NoRow]
  /\ Refuse(c)
  /\ UNCHANGED <<now, kind, made, bucket, cleaner>>

\* The client leaves or the process dies between two statements.
Drop(c) ==
  /\ call[c].pc # "idle"
  /\ Refuse(c)
  /\ UNCHANGED <<now, kind, row, made, bucket, cleaner>>

\* --- What is shown ------------------------------------------------------------------

\* LIMIT: any choice of so many; the database's order is added where it is used.
Cut(there, limit) ==
  {s \in SUBSET there : Cardinality(s) = IF Cardinality(there) < limit THEN Cardinality(there)
                                         ELSE limit}

\* Events that have not ended, soonest first: cancelled ones stay listed,
\* labelled.
ListedEvents ==
  LET there == {r \in Rows : Exists(r) /\ row[r].end > now} IN
  {s \in Cut(there, Limit) : \A in \in s, out \in there \ s : row[in].start <= row[out].start}

\* Published announcements that have started and, unless asked for those of
\* the last week too, not ended; the gravest first.
ListedAnnouncements(expiredSince) ==
  Cut({r \in Rows : Exists(r) /\ row[r].live /\ row[r].start <= now
                    /\ (row[r].end = None \/ row[r].end > expiredSince)}, Limit)

\* Get, and the status an announcement is shown with.
PublicAnnouncement(r) == Exists(r) /\ row[r].live
AnnouncementStatus(a) ==
  CASE ~a.live -> "draft"
    [] a.live /\ a.end # None /\ now >= a.end -> "expired"
    [] a.live /\ (a.end = None \/ now < a.end) /\ now < a.start -> "scheduled"
    [] OTHER -> "active"

\* The limit is asked of the database, and a full list said to have more.
LimitIsMore(there, limit) ==
  {[shown |-> s, more |-> Cardinality(s) >= limit] : s \in Cut(there, limit)}

\* One row past the limit tells whether there is more; which ones are shown is
\* the order of their last changes.
Page(there, limit) ==
  {[shown |-> s, more |-> Cardinality(there) > limit] : s \in Cut(there, limit)}

ListedPlaces(there) == Page(there, Limit)

\* --- The image cleanup -----------------------------------------------------------------

Resting == [pc |-> "idle", todo |-> {}, at |-> <<>>, cutoff |-> 0]

\* On to the next pair.
Working(pc, todo, at) == cleaner' = [pc |-> pc, todo |-> todo, at |-> at, cutoff |-> cleaner.cutoff]
Turn == Working("next", cleaner.todo, <<>>)

\* The published announcements that ended by the cutoff and have images, a
\* batch of them: one pair for each image.
ExpiredImageCandidates(cutoff) ==
  LET ended == {r \in Rows : /\ Exists(r) /\ row[r].live /\ row[r].images # {}
                             /\ row[r].end # None /\ row[r].end <= cutoff} IN
  {{x \in p.shown \X Keys : x[2] \in row[x[1]].images} : p \in Page(ended, BatchSize)}

StartPass ==
  /\ kind = "announcement" /\ cleaner.pc = "idle"
  /\ LET cutoff == now - Retention IN
     \E todo \in ExpiredImageCandidates(cutoff) :
       /\ todo # {}
       /\ cleaner' = [pc |-> "next", todo |-> todo, at |-> <<>>, cutoff |-> cutoff]
  /\ UNCHANGED <<now, kind, row, made, bucket, call>>

\* revalidateAnnouncement: still there, still over and still with this image.
\* A pair whose announcement cannot be read is left for a later pass.
RevalidateAnnouncement(x) ==
  /\ cleaner.pc = "next" /\ x \in cleaner.todo
  /\ LET a == row[x[1]]
         eligible == /\ Exists(x[1]) /\ a.end # None /\ a.end <= cleaner.cutoff
                     /\ x[2] \in a.images IN
     \/ eligible /\ Working("object", cleaner.todo \ {x}, x)
     \/ Working("next", cleaner.todo \ {x}, <<>>)
  /\ UNCHANGED <<now, kind, row, made, bucket, call>>

\* A refusal of the storage is taken for a deletion.
DeleteAnyhow ==
  /\ cleaner.pc = "object"
  /\ bucket' \in {bucket, bucket \ {cleaner.at[2]}}
  /\ Working("row", cleaner.todo, cleaner.at)
  /\ UNCHANGED <<now, kind, row, made, call>>

\* The storage deletes the object, or fails or refuses and the pass goes on
\* to the next image.
DeleteObject ==
  /\ cleaner.pc = "object"
  /\ \/ bucket' = bucket \ {cleaner.at[2]} /\ Working("row", cleaner.todo, cleaner.at)
     \/ UNCHANGED bucket /\ Turn
  /\ UNCHANGED <<now, kind, row, made, call>>

\* The key leaves the images, if the announcement is still there and has it;
\* or the database fails and a rerun finds the object gone and the key listed.
RemoveImageIfPresent ==
  /\ cleaner.pc = "row"
  /\ LET r == cleaner.at[1]  k == cleaner.at[2] IN
     \/ Exists(r) /\ k \in row[r].images /\ row' = [row EXCEPT ![r].images = @ \ {k}]
     \/ UNCHANGED row
  /\ Turn
  /\ UNCHANGED <<now, kind, made, bucket, call>>

\* Nothing is left of the batch, or the process dies with the rest of it.
EndPass ==
  /\ cleaner.pc # "idle"
  /\ cleaner' = Resting
  /\ UNCHANGED <<now, kind, row, made, bucket, call>>

Tick ==
  /\ now < MaxTime
  /\ now' = now + 1
  /\ UNCHANGED <<kind, row, made, bucket, call, cleaner>>

Init ==
  /\ now = 0
  /\ kind \in Kinds
  /\ row = [r \in Rows |-> NoRow]
  /\ made = {}
  /\ bucket = Keys
  /\ call = [c \in Calls |-> NoCall]
  /\ cleaner = Resting

Next ==
  \/ \E c \in Calls :
       \/ \E f \in Requests[kind] :
            \/ \E u \in Users : \/ CreateEvent(c, u, f)
                                \/ \E r \in Rows : UpdateEvent(c, u, r, f)
            \/ \E publish \in BOOLEAN : CreateAnnouncement(c, f, publish)
            \/ CreatePlace(c, f)
            \/ \E r \in Rows : UpdateAnnouncement(c, r, f) \/ UpdatePlace(c, r, f)
       \/ \E r \in Rows :
            \/ \E u \in Users : CancelEvent(c, u, r) \/ DeleteEvent(c, u, r)
            \/ \E publish \in BOOLEAN : SetPublished(c, r, publish)
            \/ DeleteAnnouncement(c, r) \/ DeletePlace(c, r)
       \/ Insert(c) \/ Write(c) \/ Delete(c) \/ Drop(c)
  \/ StartPass \/ (\E x \in Rows \X Keys : RevalidateAnnouncement(x))
  \/ DeleteObject \/ RemoveImageIfPresent \/ EndPass
  \/ Tick

Spec == Init /\ [][Next]_vars

\* --- Properties ----------------------------------------------------------------------

\* However partial edits of one row interleave, what is stored passes the
\* checks of a whole one: the window is in order and of a legal length, a
\* radius has a point, the images are at most MaxImages (event.go:223-234,
\* announcement.go:275-284).
RowsStayValid ==
  \A r \in Rows : Exists(r) =>
    LET x == row[r] IN
    /\ kind = "event" => x.end > x.start /\ x.end - x.start <= MaxDuration
    /\ kind = "announcement" => Coherent(x) /\ Cardinality(x.images) <= MaxImages
    /\ kind = "place" => x.point # None

\* What was deleted stays deleted, whatever edits and cleanups had read it.
DeletedStaysDeleted ==
  [][\A r \in made : ~Exists(r) => row'[r] = NoRow]_vars

\* An image leaves an announcement other than by an operator's edit only when
\* its object is gone from storage, and no other column changes with it
\* (imagecleanup/service.go:137-139).
ObjectsGoFirst ==
  [][cleaner' # cleaner => \A r \in Rows :
       /\ row[r].images \ row'[r].images \subseteq Keys \ bucket
       /\ row'[r] = [row[r] EXCEPT !.images = row'[r].images]]_vars

\* The public lists: a place list that does not say has_more lacks nothing, no
\* draft and nothing still to come is in the list of announcements, and one in
\* force, or an event that goes on or will, is missing only from a full list,
\* an event only behind others that start no later (event/service.go:31-32).
ListsAreTrue ==
  /\ kind = "place" =>
       LET there == {r \in Rows : Exists(r)} IN
       \A p \in ListedPlaces(there) : p.more <=> p.shown # there
  /\ kind = "announcement" => \A list \in ListedAnnouncements(now) : \A r \in Rows :
       /\ r \in list => AnnouncementStatus(row[r]) = "active"
       /\ AnnouncementStatus(row[r]) = "active" /\ r \notin list => Cardinality(list) = Limit
  /\ kind = "event" => \A list \in ListedEvents : \A r \in Rows \ list :
       Exists(r) /\ Status(row[r]) = "active" =>
         Cardinality(list) = Limit /\ \A q \in list : row[q].start <= row[r].start
=============================================================================
