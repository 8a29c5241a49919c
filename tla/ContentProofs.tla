----------------------------- MODULE ContentProofs -----------------------------
(***************************************************************************)
(* Proofs about Content, for any number of rows, requests and images.      *)
(***************************************************************************)
EXTENDS Content, FiniteSetTheorems, TLAPS

IsRow(x) ==
  x = [owner |-> x.owner, title |-> x.title, start |-> x.start, end |-> x.end, live |-> x.live,
       images |-> x.images, point |-> x.point, radius |-> x.radius]

IsContent(x) == IsRow(x) /\ x.live \in BOOLEAN /\ IsFiniteSet(x.images)

\* The checks of a whole row, and that its times are times.
Valid(x) ==
  /\ kind = "event" => x.end \in Int /\ x.end > x.start /\ x.end - x.start <= MaxDuration
  /\ kind = "announcement" =>
       /\ Coherent(x) /\ Cardinality(x.images) <= MaxImages
       /\ x.start \in Int /\ (x.end # None => x.end \in Int)
  /\ kind = "place" => x.point # None

TableFine ==
  /\ row = [r \in Rows |-> row[r]]
  /\ \A r \in Rows : IsContent(row[r]) /\ (Exists(r) => Valid(row[r]))

\* What a request is about to write is a whole, valid row too.
CallsFine ==
  /\ call = [c \in Calls |-> call[c]]
  /\ \A c \in Calls : call[c].pc \in {"insert", "write"} => IsContent(call[c].row) /\ Valid(call[c].row)

\* The object goes before the row lets go of it.
CleanerFine ==
  /\ cleaner.pc \in {"object", "row"} => cleaner.at \in Rows \X Keys
  /\ cleaner.pc = "row" => cleaner.at[2] \notin bucket

Sound == kind \in Kinds /\ now \in Int /\ TableFine /\ CallsFine /\ CleanerFine

-----------------------------------------------------------------------------
(* What a handler makes of a row and the fields it was sent is a valid row. *)

LEMMA BlankRow ==
  ASSUME NEW u, NEW live \in BOOLEAN
  PROVE  LET x == Blank(u, live) IN
         IsContent(x) /\ x.images = {} /\ x.end = None /\ x.live = live /\ x.title = Unsent
<1>1. IsFiniteSet({})
  BY FS_EmptySet
<1> QED
  BY <1>1 DEF Blank, IsContent, IsRow

\* An event: validated whole when it is created, its resulting window when it
\* is edited.
LEMMA EventStaysValid ==
  ASSUME kind = "event", kind \in Kinds, NEW f \in Requests[kind], NEW x, IsContent(x),
         ValidCreate(f) \/ (Valid(x) /\ Applicable(f, x))
  PROVE  IsContent(Apply(f, x)) /\ Valid(Apply(f, x))
<1>1. IsContent(Apply(f, x))
  BY RequestsAssumption DEF IsContent, IsRow, Apply, Merged
<1>2. Apply(f, x).start = Merged(x.start, f.start) /\ Apply(f, x).end = Merged(x.end, f.end)
  BY DEF Apply
<1>3. Apply(f, x).end \in Int
  BY <1>2, RequestsAssumption DEF ValidCreate, Valid, Merged
<1>4. ValidWindow(Apply(f, x).start, Apply(f, x).end) \/ (Apply(f, x).start = x.start /\ Apply(f, x).end = x.end /\ Valid(x))
  BY <1>2 DEF ValidCreate, Applicable, Merged
<1> QED
  BY <1>1, <1>3, <1>4 DEF Valid, ValidWindow

LEMMA AnnouncementStaysValid ==
  ASSUME kind = "announcement", kind \in Kinds, NEW f \in Requests[kind], NEW x, IsContent(x),
         Coherent(ApplyAnnouncement(f, x)),
         \/ ValidAnnouncement(f, TRUE) /\ x.images = {} /\ x.end = None
         \/ ValidAnnouncement(f, FALSE) /\ Valid(x)
  PROVE  IsContent(ApplyAnnouncement(f, x)) /\ Valid(ApplyAnnouncement(f, x))
<1> DEFINE y == ApplyAnnouncement(f, x)
<1>1. IsContent(y)
  BY RequestsAssumption DEF IsContent, IsRow, ApplyAnnouncement, Merged
<1>2. /\ y.start = Merged(x.start, f.start) /\ y.end = Merged(x.end, f.end)
      /\ y.images = Merged(x.images, f.images)
  BY DEF ApplyAnnouncement
<1> HIDE DEF y
<1>3. y.start \in Int
  BY <1>2, RequestsAssumption DEF ValidAnnouncement, Valid, Merged
<1>4. y.end # None => y.end \in Int
  BY <1>2, RequestsAssumption DEF Valid, Merged
<1>5. Cardinality(y.images) <= MaxImages
  <2>1. Cardinality({}) = 0
    BY FS_EmptySet
  <2> QED
    BY <1>2, <2>1, ContentAssumption DEF ValidAnnouncement, ValidImages, Valid, Merged
<1> QED
  BY <1>1, <1>3, <1>4, <1>5 DEF Valid, y

LEMMA PlaceStaysValid ==
  ASSUME kind = "place", NEW f, NEW x, IsContent(x), ValidPlace(f, TRUE) \/ Valid(x)
  PROVE  IsContent(ApplyPlace(f, x)) /\ Valid(ApplyPlace(f, x))
BY DEF IsContent, IsRow, ApplyPlace, ValidPlace, Valid

\* Cancelling and publishing change no checked column.
LEMMA LiveChanges ==
  ASSUME NEW x, IsContent(x), Valid(x), NEW live \in BOOLEAN
  PROVE  IsContent([x EXCEPT !.live = live]) /\ Valid([x EXCEPT !.live = live])
<1> DEFINE y == [x EXCEPT !.live = live]
<1>1. /\ IsRow(y) /\ y.live = live /\ y.images = x.images /\ y.start = x.start /\ y.end = x.end
      /\ y.point = x.point /\ y.radius = x.radius
  BY DEF IsContent, IsRow
<1> HIDE DEF y
<1> QED
  BY <1>1 DEF IsContent, Valid, Coherent, y

\* Nor does taking an image away, which leaves no more of them.
LEMMA ImageGoes ==
  ASSUME NEW x, IsContent(x), NEW k
  PROVE  LET y == [x EXCEPT !.images = @ \ {k}] IN
         IsContent(y) /\ y.images = x.images \ {k} /\ (Valid(x) => Valid(y))
<1> DEFINE y == [x EXCEPT !.images = @ \ {k}]
<1>1. /\ IsRow(y) /\ y.live = x.live /\ y.images = x.images \ {k} /\ y.start = x.start /\ y.end = x.end
      /\ y.point = x.point /\ y.radius = x.radius
  BY DEF IsContent, IsRow
<1> HIDE DEF y
<1>2. IsFiniteSet(x.images \ {k}) /\ Cardinality(x.images \ {k}) <= Cardinality(x.images)
      /\ Cardinality(x.images \ {k}) \in Nat /\ Cardinality(x.images) \in Nat
  BY FS_Subset, FS_CardinalityType, FS_RemoveElement DEF IsContent
<1>3. Valid(x) => Valid(y)
  BY <1>1, <1>2, ContentAssumption DEF Valid, Coherent
<1> QED
  BY <1>1, <1>2, <1>3 DEF IsContent, y

-----------------------------------------------------------------------------
(* The steps.                                                              *)

\* What a call goes on with is a valid row if it is going to write it.
Ready(x) == x.pc \in {"insert", "write"} => IsContent(x.row) /\ Valid(x.row)

LEMMA GoStep ==
  ASSUME Sound, NEW c, NEW x, Ready(x), Go(c, x), UNCHANGED <<now, kind, row, bucket, cleaner>>
  PROVE  Sound'
<1>1. TableFine' /\ CleanerFine'
  BY DEF Sound, TableFine, CleanerFine, Exists, Valid, Coherent, IsContent, IsRow
<1>2. CallsFine'
  BY DEF Sound, CallsFine, Ready, Go, Valid
<1> QED
  BY <1>1, <1>2 DEF Sound

LEMMA ReadyCalls ==
  /\ Ready(NoCall)
  /\ \A id, x : Ready(Call("delete", id, x))
  /\ \A id, x, pc : IsContent(x) /\ Valid(x) => Ready(Call(pc, id, x))
BY DEF Ready, NoCall, Call

\* The handlers up to their write: read, check, and carry the new row.
LEMMA CreateEventStep ==
  ASSUME Sound, NEW c \in Calls, NEW u, NEW f \in Requests[kind], CreateEvent(c, u, f)
  PROVE  Sound'
<1>1. CASE Refuse(c)
  BY <1>1, GoStep, ReadyCalls DEF CreateEvent, Refuse
<1>2. CASE ValidCreate(f) /\ Go(c, Call("insert", None, Apply(f, Blank(u, TRUE))))
  <2>1. Ready(Call("insert", None, Apply(f, Blank(u, TRUE))))
    BY <1>2, BlankRow, EventStaysValid, ReadyCalls DEF CreateEvent, Sound
  <2> QED
    BY <1>2, <2>1, GoStep DEF CreateEvent
<1> QED
  BY <1>1, <1>2 DEF CreateEvent

LEMMA UpdateEventStep ==
  ASSUME Sound, NEW c \in Calls, NEW u, NEW r \in Rows, NEW f \in Requests[kind], UpdateEvent(c, u, r, f)
  PROVE  Sound'
<1>1. CASE Refuse(c)
  BY <1>1, GoStep, ReadyCalls DEF UpdateEvent, Refuse
<1>2. CASE Owned(u, r) /\ Applicable(f, row[r]) /\ Go(c, Call("write", r, Apply(f, row[r])))
  <2>1. Ready(Call("write", r, Apply(f, row[r])))
    BY <1>2, EventStaysValid, ReadyCalls DEF UpdateEvent, Sound, TableFine, Owned
  <2> QED
    BY <1>2, <2>1, GoStep DEF UpdateEvent
<1> QED
  BY <1>1, <1>2 DEF UpdateEvent

LEMMA CancelEventStep ==
  ASSUME Sound, NEW c \in Calls, NEW u, NEW r \in Rows, CancelEvent(c, u, r)
  PROVE  Sound'
<1>1. CASE Refuse(c)
  BY <1>1, GoStep, ReadyCalls DEF CancelEvent, Refuse
<1>2. CASE Owned(u, r) /\ Go(c, Call("write", r, [row[r] EXCEPT !.live = FALSE]))
  <2>1. Ready(Call("write", r, [row[r] EXCEPT !.live = FALSE]))
    BY <1>2, LiveChanges, ReadyCalls DEF Sound, TableFine, Owned
  <2> QED
    BY <1>2, <2>1, GoStep DEF CancelEvent
<1> QED
  BY <1>1, <1>2 DEF CancelEvent

LEMMA DeleteEventStep ==
  ASSUME Sound, NEW c \in Calls, NEW u, NEW r \in Rows, DeleteEvent(c, u, r)
  PROVE  Sound'
BY GoStep, ReadyCalls DEF DeleteEvent, Refuse

LEMMA CreateAnnouncementStep ==
  ASSUME Sound, NEW c \in Calls, NEW f \in Requests[kind], NEW publish \in BOOLEAN, CreateAnnouncement(c, f, publish)
  PROVE  Sound'
<1> DEFINE x == Blank(None, publish)
           a == ApplyAnnouncement(f, x)
<1>1. CASE Refuse(c)
  BY <1>1, GoStep, ReadyCalls DEF CreateAnnouncement, Refuse
<1>2. CASE ValidAnnouncement(f, TRUE) /\ Coherent(a) /\ Go(c, Call("insert", None, a))
  <2>1. IsContent(x) /\ x.images = {} /\ x.end = None
    BY BlankRow
  <2>2. IsContent(a) /\ Valid(a)
    <3> HIDE DEF x
    <3> QED
      BY <1>2, <2>1, AnnouncementStaysValid DEF CreateAnnouncement, Sound
  <2> QED
    BY <1>2, <2>2, GoStep, ReadyCalls DEF CreateAnnouncement
<1> QED
  BY <1>1, <1>2 DEF CreateAnnouncement

LEMMA UpdateAnnouncementStep ==
  ASSUME Sound, NEW c \in Calls, NEW r \in Rows, NEW f \in Requests[kind], UpdateAnnouncement(c, r, f)
  PROVE  Sound'
<1> DEFINE a == ApplyAnnouncement(f, row[r])
<1>1. CASE Refuse(c)
  BY <1>1, GoStep, ReadyCalls DEF UpdateAnnouncement, Refuse
<1>2. CASE ValidAnnouncement(f, FALSE) /\ Exists(r) /\ Coherent(a) /\ Go(c, Call("write", r, a))
  <2>1. IsContent(a) /\ Valid(a)
    BY <1>2, AnnouncementStaysValid DEF UpdateAnnouncement, Sound, TableFine
  <2> QED
    BY <1>2, <2>1, GoStep, ReadyCalls DEF UpdateAnnouncement
<1> QED
  BY <1>1, <1>2 DEF UpdateAnnouncement

LEMMA SetPublishedStep ==
  ASSUME Sound, NEW c \in Calls, NEW r \in Rows, NEW publish \in BOOLEAN, SetPublished(c, r, publish)
  PROVE  Sound'
<1>1. CASE Refuse(c)
  BY <1>1, GoStep, ReadyCalls DEF SetPublished, Refuse
<1>2. CASE Exists(r) /\ Go(c, Call("write", r, [row[r] EXCEPT !.live = publish]))
  <2>1. Ready(Call("write", r, [row[r] EXCEPT !.live = publish]))
    BY <1>2, LiveChanges, ReadyCalls DEF Sound, TableFine
  <2> QED
    BY <1>2, <2>1, GoStep DEF SetPublished
<1> QED
  BY <1>1, <1>2 DEF SetPublished

LEMMA DeleteAnnouncementStep ==
  ASSUME Sound, NEW c \in Calls, NEW r \in Rows, DeleteAnnouncement(c, r)
  PROVE  Sound'
BY GoStep, ReadyCalls DEF DeleteAnnouncement

LEMMA CreatePlaceStep ==
  ASSUME Sound, NEW c \in Calls, NEW f, CreatePlace(c, f)
  PROVE  Sound'
<1> DEFINE x == Blank(None, TRUE)
<1>1. CASE Refuse(c)
  BY <1>1, GoStep, ReadyCalls DEF CreatePlace, Refuse
<1>2. CASE ValidPlace(f, TRUE) /\ Go(c, Call("insert", None, ApplyPlace(f, x)))
  <2>1. IsContent(x)
    BY BlankRow
  <2>2. IsContent(ApplyPlace(f, x)) /\ Valid(ApplyPlace(f, x))
    BY <1>2, <2>1, PlaceStaysValid DEF CreatePlace
  <2> QED
    BY <1>2, <2>2, GoStep, ReadyCalls DEF CreatePlace
<1> QED
  BY <1>1, <1>2 DEF CreatePlace

LEMMA UpdatePlaceStep ==
  ASSUME Sound, NEW c \in Calls, NEW r \in Rows, NEW f, UpdatePlace(c, r, f)
  PROVE  Sound'
<1>1. CASE Refuse(c)
  BY <1>1, GoStep, ReadyCalls DEF UpdatePlace, Refuse
<1>2. CASE Exists(r) /\ Go(c, Call("write", r, ApplyPlace(f, row[r])))
  <2>1. IsContent(ApplyPlace(f, row[r])) /\ Valid(ApplyPlace(f, row[r]))
    BY <1>2, PlaceStaysValid DEF UpdatePlace, Sound, TableFine
  <2> QED
    BY <1>2, <2>1, GoStep, ReadyCalls DEF UpdatePlace
<1> QED
  BY <1>1, <1>2 DEF UpdatePlace

LEMMA DeletePlaceStep ==
  ASSUME Sound, NEW c \in Calls, NEW r \in Rows, DeletePlace(c, r)
  PROVE  Sound'
BY GoStep, ReadyCalls DEF DeletePlace

\* A statement that writes some rows leaves the calls and the cleaner right.
LEMMA RowStep ==
  ASSUME Sound, UNCHANGED <<now, kind, bucket, cleaner>>, NEW c, Refuse(c),
         row' = [r \in Rows |-> row'[r]],
         \A r \in Rows : \/ row'[r] = row[r]
                         \/ IsContent(row'[r]) /\ (row'[r] # NoRow => Valid(row'[r]))
  PROVE  Sound'
<1>1. TableFine'
  BY DEF Sound, TableFine, Exists, Valid, Coherent, IsContent, IsRow
<1>2. CallsFine'
  BY DEF Sound, CallsFine, Refuse, Go, Valid, NoCall
<1>3. CleanerFine'
  BY DEF Sound, CleanerFine
<1> QED
  BY <1>1, <1>2, <1>3 DEF Sound

LEMMA Statements ==
  ASSUME Sound, NEW c \in Calls, Insert(c) \/ Write(c) \/ Delete(c) \/ Drop(c)
  PROVE  Sound'
<1>1. CASE Insert(c)
  <2>1. \A r \in Rows : row'[r] \in {row[r], call[c].row}
    BY <1>1 DEF Insert, Sound, TableFine
  <2>2. row' = [r \in Rows |-> row'[r]]
    BY <1>1 DEF Insert, Sound, TableFine
  <2>3. IsContent(call[c].row) /\ Valid(call[c].row)
    BY <1>1 DEF Insert, Sound, CallsFine
  <2> QED
    BY <1>1, <2>1, <2>2, <2>3, RowStep DEF Insert
<1>2. CASE Write(c)
  <2>1. \A r \in Rows : row'[r] \in {row[r], call[c].row}
    BY <1>2 DEF Write, Sound, TableFine
  <2>2. row' = [r \in Rows |-> row'[r]]
    BY <1>2 DEF Write, Sound, TableFine
  <2>3. IsContent(call[c].row) /\ Valid(call[c].row)
    BY <1>2 DEF Write, Sound, CallsFine
  <2> QED
    BY <1>2, <2>1, <2>2, <2>3, RowStep DEF Write
<1>3. CASE Delete(c)
  <2>1. \A r \in Rows : row'[r] \in {row[r], NoRow}
    BY <1>3 DEF Delete, Sound, TableFine
  <2>2. row' = [r \in Rows |-> row'[r]]
    BY <1>3 DEF Delete, Sound, TableFine
  <2>3. IsContent(NoRow)
    BY BlankRow DEF NoRow
  <2> QED
    BY <1>3, <2>1, <2>2, <2>3, RowStep DEF Delete
<1>4. CASE Drop(c)
  BY <1>4, GoStep, ReadyCalls DEF Drop, Refuse
<1> QED
  BY <1>1, <1>2, <1>3, <1>4

\* The cleanup's statements.
LEMMA Cleanup ==
  ASSUME Sound, StartPass \/ (\E x \in Rows \X Keys : RevalidateAnnouncement(x)) \/ DeleteObject
                \/ RemoveImageIfPresent \/ EndPass
  PROVE  Sound'
<1>1. UNCHANGED <<now, kind, call>>
  BY DEF StartPass, RevalidateAnnouncement, DeleteObject, RemoveImageIfPresent, EndPass
<1>2. CallsFine'
  BY <1>1 DEF Sound, CallsFine, IsContent, IsRow, Valid, Coherent
<1>3. CASE UNCHANGED row
  <2>1. TableFine'
    BY <1>1, <1>3 DEF Sound, TableFine, Exists, Valid, Coherent, IsContent, IsRow
  <2>2. CleanerFine'
    <3>1. CASE StartPass
      BY <3>1 DEF Sound, CleanerFine, StartPass
    <3>2. CASE \E x \in Rows \X Keys : RevalidateAnnouncement(x)
      BY <3>2 DEF Sound, CleanerFine, RevalidateAnnouncement, Working
    <3>3. CASE DeleteObject
      BY <3>3 DEF Sound, CleanerFine, DeleteObject, Working, Turn
    <3>4. CASE RemoveImageIfPresent
      BY <3>4 DEF Sound, CleanerFine, RemoveImageIfPresent, Working, Turn
    <3>5. CASE EndPass
      BY <3>5 DEF Sound, CleanerFine, EndPass, Resting
    <3> QED
      BY <3>1, <3>2, <3>3, <3>4, <3>5
  <2> QED
    BY <1>1, <1>2, <2>1, <2>2 DEF Sound
<1>4. CASE row' # row
  <2>1. RemoveImageIfPresent /\ cleaner'.pc = "next"
    BY <1>4 DEF StartPass, RevalidateAnnouncement, DeleteObject, RemoveImageIfPresent, EndPass, Working, Turn
  <2> DEFINE q == cleaner.at[1]
             k == cleaner.at[2]
             y == [row[q] EXCEPT !.images = @ \ {k}]
  <2>2. q \in Rows /\ Exists(q) /\ row' = [row EXCEPT ![q] = y]
    BY <1>4, <2>1 DEF RemoveImageIfPresent, Sound, CleanerFine, TableFine
  <2>3. IsContent(y) /\ Valid(y)
    BY <2>2, ImageGoes DEF Sound, TableFine
  <2> HIDE DEF q, y
  <2>4. row' = [r \in Rows |-> row'[r]] /\ \A r \in Rows : row'[r] = IF r = q THEN y ELSE row[r]
    BY <2>2 DEF Sound, TableFine
  <2>5. TableFine'
    BY <1>1, <2>3, <2>4 DEF Sound, TableFine, Exists, Valid, Coherent, IsContent, IsRow
  <2> QED
    BY <1>1, <1>2, <2>1, <2>5 DEF Sound, CleanerFine
<1> QED
  BY <1>3, <1>4

-----------------------------------------------------------------------------
(* The invariant and what follows from it.                                  *)

LEMMA SoundInit == Init => Sound
<1> SUFFICES ASSUME Init PROVE Sound
  OBVIOUS
<1>1. IsContent(NoRow)
  BY BlankRow DEF NoRow
<1> QED
  BY <1>1 DEF Init, Sound, TableFine, CallsFine, CleanerFine, Exists, NoCall, Resting

LEMMA SoundStep ==
  ASSUME Sound, [Next]_vars
  PROVE  Sound'
<1>1. CASE UNCHANGED vars \/ Tick
  <2>1. UNCHANGED <<kind, row, bucket, call, cleaner>> /\ now' \in Int
    BY <1>1 DEF vars, Tick, Sound
  <2> QED
    BY <2>1 DEF Sound, TableFine, CallsFine, CleanerFine, Exists, Valid, Coherent, IsContent, IsRow
<1>2. ASSUME NEW c \in Calls, NEW f \in Requests[kind], NEW u \in Users,
             CreateEvent(c, u, f) \/ \E r \in Rows : UpdateEvent(c, u, r, f)
      PROVE  Sound'
  BY <1>2, CreateEventStep, UpdateEventStep
<1>3. ASSUME NEW c \in Calls, NEW f \in Requests[kind],
             \/ \E publish \in BOOLEAN : CreateAnnouncement(c, f, publish)
             \/ CreatePlace(c, f)
             \/ \E r \in Rows : UpdateAnnouncement(c, r, f) \/ UpdatePlace(c, r, f)
      PROVE  Sound'
  BY <1>3, CreateAnnouncementStep, CreatePlaceStep, UpdateAnnouncementStep, UpdatePlaceStep
<1>4. ASSUME NEW c \in Calls, NEW r \in Rows,
             \/ \E u \in Users : CancelEvent(c, u, r) \/ DeleteEvent(c, u, r)
             \/ \E publish \in BOOLEAN : SetPublished(c, r, publish)
             \/ DeleteAnnouncement(c, r) \/ DeletePlace(c, r)
      PROVE  Sound'
  BY <1>4, CancelEventStep, DeleteEventStep, SetPublishedStep, DeleteAnnouncementStep, DeletePlaceStep
<1>5. ASSUME NEW c \in Calls, Insert(c) \/ Write(c) \/ Delete(c) \/ Drop(c)
      PROVE  Sound'
  BY <1>5, Statements
<1>6. CASE \/ StartPass \/ (\E x \in Rows \X Keys : RevalidateAnnouncement(x))
           \/ DeleteObject \/ RemoveImageIfPresent \/ EndPass
  BY <1>6, Cleanup
<1> QED
  BY <1>1, <1>2, <1>3, <1>4, <1>5, <1>6 DEF Next

\* Sound is an invariant.
LEMMA SoundAlways == Spec => []Sound
BY SoundInit, SoundStep, PTL DEF Spec

\* Whatever edits overlap, what is stored passes the checks of a whole row.
THEOREM EditsKeepRowsValid == Spec => []RowsStayValid
<1>1. Sound => RowsStayValid
  BY DEF Sound, TableFine, Valid, RowsStayValid
<1> QED
  BY SoundAlways, <1>1, PTL

\* Rows change when a call's statement runs or the cleanup takes an image out.
LEMMA RowsChange ==
    ASSUME Next, row' # row
    PROVE  \/ (\E c \in Calls : Insert(c) \/ Write(c) \/ Delete(c)) /\ UNCHANGED cleaner
           \/ RemoveImageIfPresent
<1>1. ASSUME NEW c, NEW f, NEW u, NEW r, NEW publish,
             \/ CreateEvent(c, u, f) \/ UpdateEvent(c, u, r, f) \/ CancelEvent(c, u, r) \/ DeleteEvent(c, u, r)
             \/ CreateAnnouncement(c, f, publish) \/ UpdateAnnouncement(c, r, f) \/ SetPublished(c, r, publish)
             \/ DeleteAnnouncement(c, r) \/ CreatePlace(c, f) \/ UpdatePlace(c, r, f) \/ DeletePlace(c, r)
      PROVE  FALSE
  BY <1>1 DEF CreateEvent, UpdateEvent, CancelEvent, DeleteEvent, CreateAnnouncement, UpdateAnnouncement,
              SetPublished, DeleteAnnouncement, CreatePlace, UpdatePlace, DeletePlace
<1>2. ASSUME NEW c, Drop(c)
      PROVE  FALSE
  BY <1>2 DEF Drop
<1>3. ASSUME StartPass \/ (\E x \in Rows \X Keys : RevalidateAnnouncement(x)) \/ DeleteObject \/ EndPass \/ Tick
      PROVE  FALSE
  BY <1>3 DEF StartPass, RevalidateAnnouncement, DeleteObject, EndPass, Tick
<1>4. (\E c \in Calls : Insert(c) \/ Write(c) \/ Delete(c)) \/ RemoveImageIfPresent
  BY <1>1, <1>2, <1>3 DEF Next
<1> QED
  BY <1>4 DEF Insert, Write, Delete

\* A deleted row does not come back by an edit or a cleanup that had read it.
THEOREM NothingComesBack == Spec => DeletedStaysDeleted
<1> DEFINE Stays == \A r \in made : ~Exists(r) => row'[r] = NoRow
<1>1. Sound /\ [Next]_vars => Stays
  <2> SUFFICES ASSUME Sound, [Next]_vars, NEW r \in made, row[r] = NoRow, row'[r] # NoRow
               PROVE  FALSE
    BY DEF Exists
  <2>1. row' # row
    OBVIOUS
  <2>2. (\E c \in Calls : Insert(c) \/ Write(c) \/ Delete(c)) \/ RemoveImageIfPresent
    BY <2>1, RowsChange DEF vars
  <2>3. ASSUME NEW c \in Calls, Insert(c)  PROVE FALSE
    BY <2>3 DEF Insert, Sound, TableFine
  <2>4. ASSUME NEW c \in Calls, Write(c)  PROVE FALSE
    BY <2>4 DEF Write, Exists, Sound, TableFine
  <2>5. ASSUME NEW c \in Calls, Delete(c)  PROVE FALSE
    BY <2>5 DEF Delete, Sound, TableFine
  <2>6. CASE RemoveImageIfPresent
    <3> DEFINE q == cleaner.at[1]
               left == row[q].images \ {cleaner.at[2]}
    <3>1. row[q] # NoRow /\ row' = [row EXCEPT ![q].images = left]
      BY <2>1, <2>6 DEF RemoveImageIfPresent, Exists
    <3> HIDE DEF q, left
    <3> QED
      BY <3>1 DEF Sound, TableFine
  <2> QED
    BY <2>2, <2>3, <2>4, <2>5, <2>6
<1>2. [][Stays]_vars => DeletedStaysDeleted
  BY PTL DEF DeletedStaysDeleted
<1> HIDE DEF Stays
<1> QED
  BY SoundAlways, <1>1, <1>2, PTL DEF Spec

\* The cleanup takes an image out of an announcement only after its object is
\* gone from storage, and touches no other column.
THEOREM ImagesGoAfterObjects == Spec => ObjectsGoFirst
<1> DEFINE Row(r) == /\ row[r].images \ row'[r].images \subseteq Keys \ bucket
                     /\ row'[r] = [row[r] EXCEPT !.images = row'[r].images]
           Objects == cleaner' # cleaner => \A r \in Rows : Row(r)
<1>1. Sound /\ [Next]_vars => Objects
  <2> SUFFICES ASSUME Sound, [Next]_vars, cleaner' # cleaner, NEW r \in Rows
               PROVE  Row(r)
    OBVIOUS
  <2>1. CASE row'[r] = row[r]
    BY <2>1 DEF Sound, TableFine, IsContent, IsRow
  <2>2. CASE row'[r] # row[r]
    <3>1. RemoveImageIfPresent
      <4>1. row' # row
        BY <2>2
      <4> QED
        BY <4>1, RowsChange DEF vars
    <3> DEFINE k == cleaner.at[2]
    <3>2. k \in Keys \ bucket
      BY <3>1 DEF RemoveImageIfPresent, Sound, CleanerFine
    <3>3. row'[r] = [row[r] EXCEPT !.images = @ \ {k}]
      BY <2>2, <3>1 DEF RemoveImageIfPresent, Sound, TableFine
    <3>4. row'[r].images = row[r].images \ {k}
      BY <3>3, ImageGoes DEF Sound, TableFine
    <3> QED
      BY <3>2, <3>3, <3>4
  <2> QED
    BY <2>1, <2>2
<1>2. [][Objects]_vars => ObjectsGoFirst
  BY PTL DEF ObjectsGoFirst
<1> HIDE DEF Objects
<1> QED
  BY SoundAlways, <1>1, <1>2, PTL DEF Spec

-----------------------------------------------------------------------------
(* The public lists.                                                        *)

\* A list that lacks a row has as many as it may show.
LEMMA CutLacks ==
  ASSUME NEW there \in SUBSET Rows, NEW list \in Cut(there, Limit)
  PROVE  /\ list \subseteq there
         /\ list # there => Cardinality(list) = Limit
         /\ Cardinality(there) > Limit <=> list # there
<1>1. IsFiniteSet(there) /\ list \subseteq there
  BY ContentAssumption, FS_Subset DEF Cut
<1>2. /\ Cardinality(there) = Cardinality(list) => list = there
      /\ Cardinality(there) \in Nat /\ Limit \in Nat
  BY <1>1, FS_Subset, FS_CardinalityType, ContentAssumption
<1>3. Cardinality(list) = IF Cardinality(there) < Limit THEN Cardinality(there) ELSE Limit
  BY DEF Cut
<1> QED
  BY <1>1, <1>2, <1>3

\* The lists leave out nothing they should show, and show nothing they should
\* leave out.
THEOREM PublicListsAreTrue == Spec => []ListsAreTrue
<1>1. Sound => ListsAreTrue
  <2> SUFFICES ASSUME Sound PROVE ListsAreTrue
    OBVIOUS
  <2>1. ASSUME kind = "place",
               NEW p \in ListedPlaces({r \in Rows : Exists(r)})
        PROVE  p.more <=> p.shown # {r \in Rows : Exists(r)}
    <3> DEFINE there == {r \in Rows : Exists(r)}
    <3>1. PICK s \in Cut(there, Limit) : p = [shown |-> s, more |-> Cardinality(there) > Limit]
      BY <2>1 DEF ListedPlaces, Page
    <3>2. p.shown = s /\ (p.more <=> Cardinality(there) > Limit)
      BY <3>1
    <3> QED
      BY <3>2, CutLacks
  <2>2. ASSUME kind = "announcement", NEW list \in ListedAnnouncements(now), NEW r \in Rows
        PROVE  /\ r \in list => AnnouncementStatus(row[r]) = "active"
               /\ AnnouncementStatus(row[r]) = "active" /\ r \notin list => Cardinality(list) = Limit
    <3> DEFINE there == {q \in Rows : Exists(q) /\ row[q].live /\ row[q].start <= now
                                       /\ (row[q].end = None \/ row[q].end > now)}
               x == row[r]
    <3>1. list \in Cut(there, Limit)
      BY <2>2 DEF ListedAnnouncements
    <3>2. x.live => x.start \in Int /\ (x.end # None => x.end \in Int) /\ now \in Int /\ Exists(r)
      BY <2>2 DEF Sound, TableFine, Valid, Exists, NoRow, Blank
    <3>3. AnnouncementStatus(x) = "active" <=> x.live /\ x.start <= now /\ (x.end = None \/ x.end > now)
      <4>1. x.live \in BOOLEAN
        BY DEF Sound, TableFine, IsContent
      <4> HIDE DEF x
      <4> QED
        BY <3>2, <4>1 DEF AnnouncementStatus
    <3>4. r \in there <=> AnnouncementStatus(x) = "active"
      BY <3>2, <3>3
    <3> HIDE DEF there
    <3>5. there \subseteq Rows
      BY DEF there
    <3> QED
      BY <3>1, <3>4, <3>5, CutLacks
  <2>3. ASSUME kind = "event", NEW list \in ListedEvents, NEW r \in Rows \ list,
               Exists(r), Status(row[r]) = "active"
        PROVE  Cardinality(list) = Limit /\ \A q \in list : row[q].start <= row[r].start
    <3> DEFINE there == {q \in Rows : Exists(q) /\ row[q].end > now}
    <3>1. list \in Cut(there, Limit) /\ \A in \in list, out \in there \ list : row[in].start <= row[out].start
      BY <2>3 DEF ListedEvents
    <3>2. row[r].end \in Int /\ now \in Int
      BY <2>3 DEF Sound, TableFine, Valid
    <3>3. row[r].end > now
      BY <2>3, <3>2 DEF Status
    <3>4. r \in there \ list
      BY <2>3, <3>3
    <3> HIDE DEF there
    <3>5. there \subseteq Rows
      BY DEF there
    <3> QED
      BY <3>1, <3>4, <3>5, CutLacks
  <2> QED
    BY <2>1, <2>2, <2>3 DEF ListsAreTrue
<1> QED
  BY SoundAlways, <1>1, PTL

=============================================================================
