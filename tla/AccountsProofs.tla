---------------------------- MODULE AccountsProofs ----------------------------
(***************************************************************************)
(* Proofs about Accounts, for any number of accounts, browsers, tabs and   *)
(* places: an old session signs nobody in, a session ends by its holder,   *)
(* and a place is written by its owner or taken by a sign-in on its device.*)
(***************************************************************************)
EXTENDS Accounts, TLAPS

\* The shape of the rows; what a field holds is said only where it matters.
IsSession(x) == x = [user |-> x.user, expires |-> x.expires]

IsPlace(x) == x = [owner |-> x.owner, device |-> x.device, version |-> x.version]

IsCall(x) ==
  x = [pc |-> x.pc, op |-> x.op, user |-> x.user, cookie |-> x.cookie,
       token |-> x.token, place |-> x.place, ids |-> x.ids, setCookie |-> x.setCookie]

\* Every token that a browser or a request holds was issued.
Held(t) == t # None => t \in issued

SessionsFine ==
  /\ now \in Int
  /\ issued \subseteq Tokens
  /\ session = [t \in Tokens |-> session[t]]
  /\ \A t \in Tokens : IsSession(session[t])
  /\ \A t \in Tokens : session[t] # NoSession => t \in issued /\ session[t].expires \in Int

PlacesFine ==
  /\ place = [p \in Places |-> place[p]]
  /\ \A p \in Places : IsPlace(place[p])

JarsFine ==
  /\ jar = [b \in Browsers |-> jar[b]]
  /\ \A b \in Browsers : Held(jar[b])

\* A request past the statement that ends the old session.
EndedOld(x) == x.op \in {"sign in", "sign out"} /\ x.pc \in {"claim", "take", "answered"}

\* Writing a field changes that field only.
LEMMA SetFields ==
  ASSUME NEW x, IsCall(x), NEW v
  PROVE  /\ LET y == [x EXCEPT !.place = v] IN
            /\ IsCall(y) /\ y.token = x.token /\ y.cookie = x.cookie /\ y.op = x.op /\ y.pc = x.pc
         /\ LET y == [x EXCEPT !.setCookie = v] IN
            /\ IsCall(y) /\ y.token = x.token /\ y.cookie = x.cookie /\ y.op = x.op /\ y.pc = x.pc
<1>1. LET y == [x EXCEPT !.place = v] IN
      IsCall(y) /\ y.token = x.token /\ y.cookie = x.cookie /\ y.op = x.op /\ y.pc = x.pc
  BY DEF IsCall
<1>2. LET y == [x EXCEPT !.setCookie = v] IN
      IsCall(y) /\ y.token = x.token /\ y.cookie = x.cookie /\ y.op = x.op /\ y.pc = x.pc
  BY DEF IsCall
<1> QED
  BY <1>1, <1>2

\* What holds of a request at every statement of its handler.
RequestFine(x) ==
  /\ IsCall(x) /\ Held(x.token) /\ Held(x.cookie)
  /\ x.pc \in {"revoke", "delete"} => x.cookie # None
  /\ EndedOld(x) /\ x.cookie # None => UserBySession(x.cookie) = None

CallsFine ==
  /\ call = [c \in Calls |-> call[c]]
  /\ \A c \in Calls : RequestFine(call[c])

Sound == SessionsFine /\ PlacesFine /\ JarsFine /\ CallsFine

-----------------------------------------------------------------------------
(* What a step may do to the sessions.                                     *)

\* Time passes, tokens are issued once, and a session that exists only ends.
SessionsOnlyEnd ==
  /\ now' \in Int /\ now' >= now
  /\ issued \subseteq issued'
  /\ \A t \in issued : session'[t] \in {session[t], NoSession}

\* A token that signs nobody in never does again.
LEMMA DeadStaysDead ==
  ASSUME SessionsFine, SessionsOnlyEnd, NEW t \in issued, UserBySession(t) = None
  PROVE  UserBySession(t)' = None
BY DEF SessionsFine, SessionsOnlyEnd, UserBySession, NoSession

\* So whatever else happens, a request that does not move stays fine.
LEMMA RequestStaysFine ==
  ASSUME SessionsFine, SessionsOnlyEnd, NEW c \in Calls, RequestFine(call[c]), call'[c] = call[c]
  PROVE  RequestFine(call[c])'
<1>1. Held(call[c].token)' /\ Held(call[c].cookie)'
  BY DEF RequestFine, Held, SessionsOnlyEnd
<1>2. EndedOld(call[c]) /\ call[c].cookie # None => UserBySession(call[c].cookie)' = None
  BY DeadStaysDead DEF RequestFine, Held, UserBySession
<1> QED
  BY <1>1, <1>2 DEF RequestFine, EndedOld, IsCall, Held

\* A tab's step moves its own request only.
MovesOnly(c) == call' = [call EXCEPT ![c] = call'[c]]

LEMMA CallsStayFine ==
  ASSUME Sound, SessionsOnlyEnd, NEW c \in Calls, MovesOnly(c), RequestFine(call[c])'
  PROVE  CallsFine'
<1>1. \A d \in Calls : d # c => call'[d] = call[d]
  BY DEF MovesOnly, Sound, CallsFine
<1>2. \A d \in Calls : RequestFine(call[d])'
  BY <1>1, RequestStaysFine DEF Sound, CallsFine
<1>3. call' = [d \in Calls |-> call'[d]]
  BY DEF MovesOnly, Sound, CallsFine
<1> QED
  BY <1>2, <1>3 DEF CallsFine

\* A step that leaves the sessions alone leaves them fine.
LEMMA QuietSessions ==
  ASSUME SessionsFine, UNCHANGED <<now, session, issued>>
  PROVE  SessionsFine' /\ SessionsOnlyEnd
BY DEF SessionsFine, SessionsOnlyEnd, NoSession

\* The jars hold tokens issued long ago.
LEMMA QuietJars ==
  ASSUME JarsFine, SessionsOnlyEnd, UNCHANGED jar
  PROVE  JarsFine'
BY DEF JarsFine, SessionsOnlyEnd, Held

\* A step that only moves a request to a fine one.
LEMMA QuietStep ==
  ASSUME Sound, NEW c \in Calls, UNCHANGED <<now, session, issued, place, jar>>,
         NEW x, RequestFine(x), call' = [call EXCEPT ![c] = x]
  PROVE  Sound' /\ SessionsOnlyEnd
<1>1. SessionsFine' /\ SessionsOnlyEnd
  BY QuietSessions DEF Sound
<1>2. PlacesFine'
  BY DEF Sound, PlacesFine, IsPlace
<1>3. JarsFine'
  BY <1>1, QuietJars DEF Sound
<1>4. call'[c] = x /\ MovesOnly(c)
  BY DEF Sound, CallsFine, MovesOnly
<1>a. Held(x.token)' /\ Held(x.cookie)'
  BY DEF RequestFine, Held
<1>b. x.cookie # None /\ EndedOld(x) => UserBySession(x.cookie)' = None
  BY DEF RequestFine, UserBySession
<1>5. RequestFine(call[c])'
  BY <1>4, <1>a, <1>b DEF RequestFine, Held, EndedOld, IsCall, UserBySession
<1> QED
  BY <1>1, <1>2, <1>3, <1>4, <1>5, CallsStayFine DEF Sound

\* The same for the two ways a handler goes on: to its next statement, or not.
LEMMA NoCallFine == RequestFine(NoCall)
BY DEF RequestFine, NoCall, Request, Held, EndedOld, IsCall

LEMMA RefuseStep ==
  ASSUME Sound, NEW c \in Calls, UNCHANGED <<now, session, issued, place, jar>>, Refuse(c)
  PROVE  Sound' /\ SessionsOnlyEnd
BY QuietStep, NoCallFine DEF Refuse

LEMMA GotoStep ==
  ASSUME Sound, NEW c \in Calls, UNCHANGED <<now, session, issued, place, jar>>, NEW pc, Goto(c, pc),
         pc \notin {"revoke", "delete", "claim", "take", "answered"}
  PROVE  Sound' /\ SessionsOnlyEnd
<1> DEFINE x == [call[c] EXCEPT !.pc = pc]
<1>0. /\ IsCall(x) /\ x.token = call[c].token /\ x.cookie = call[c].cookie /\ x.pc = pc
  BY DEF Sound, CallsFine, RequestFine, IsCall
<1>1. RequestFine(x)
  <2> HIDE DEF x
  <2> QED
    BY <1>0 DEF Sound, CallsFine, RequestFine, EndedOld
<1>2. call' = [call EXCEPT ![c] = x]
  BY DEF Goto
<1> HIDE DEF x
<1> QED
  BY <1>1, <1>2, QuietStep

-----------------------------------------------------------------------------
(* The steps, one lemma for each kind.                                      *)

\* The cookie a request comes with was issued.
LEMMA CookieHeld ==
  ASSUME Sound, NEW c \in Calls
  PROVE  Held(jar[BrowserOf[c]])
BY AccountsAssumption DEF Sound, JarsFine

LEMMA RegisterStep ==
  ASSUME Sound, NEW c \in Calls, NEW u, Register(c, u)
  PROVE  Sound' /\ SessionsOnlyEnd
<1> DEFINE x == Request("sign in", "create", u, jar[BrowserOf[c]])
<1>1. RequestFine(x)
  <2>1. /\ IsCall(x) /\ x.token = None /\ x.cookie = jar[BrowserOf[c]] /\ x.pc = "create"
    BY DEF Request, IsCall
  <2> HIDE DEF x
  <2> QED
    BY <2>1, CookieHeld DEF RequestFine, Held, EndedOld
<1>2. call' = [call EXCEPT ![c] = x]
  BY DEF Register
<1> HIDE DEF x
<1> QED
  BY <1>1, <1>2, QuietStep DEF Register, store

LEMMA LoginStep ==
  ASSUME Sound, NEW c \in Calls, NEW u, NEW right, Login(c, u, right)
  PROVE  Sound' /\ SessionsOnlyEnd
<1> DEFINE x == Request("sign in", "prune", u, jar[BrowserOf[c]])
<1>1. RequestFine(x)
  <2>1. /\ IsCall(x) /\ x.token = None /\ x.cookie = jar[BrowserOf[c]] /\ x.pc = "prune"
    BY DEF Request, IsCall
  <2> HIDE DEF x
  <2> QED
    BY <2>1, CookieHeld DEF RequestFine, Held, EndedOld
<1>2. UNCHANGED <<now, session, issued, place, jar>>
  BY DEF Login, store
<1>3. call' = [call EXCEPT ![c] = x] \/ Refuse(c)
  BY DEF Login
<1> HIDE DEF x
<1> QED
  BY <1>1, <1>2, <1>3, QuietStep, RefuseStep

LEMMA CreateUserStep ==
  ASSUME Sound, NEW c \in Calls, CreateUser(c)
  PROVE  Sound' /\ SessionsOnlyEnd
<1>1. UNCHANGED <<now, session, issued, place, jar>>
  BY DEF CreateUser
<1>2. Refuse(c) \/ Goto(c, "prune")
  BY DEF CreateUser
<1> QED
  BY <1>1, <1>2, RefuseStep, GotoStep

LEMMA ReadClaimStep ==
  ASSUME Sound, NEW c \in Calls, ReadClaim(c)
  PROVE  Sound' /\ SessionsOnlyEnd
<1> DEFINE y == [call[c] EXCEPT !.pc = "take"]
           x == [y EXCEPT !.ids = Claimable(BrowserOf[c], call[c].user)]
<1>0. /\ IsCall(y) /\ y.token = call[c].token /\ y.cookie = call[c].cookie
      /\ y.pc = "take" /\ y.op = call[c].op
  BY DEF Sound, CallsFine, RequestFine, IsCall
<1> HIDE DEF y
<1>1. /\ IsCall(x) /\ x.token = call[c].token /\ x.cookie = call[c].cookie
      /\ x.pc = "take" /\ x.op = call[c].op
  BY <1>0 DEF IsCall
<1>2. call' = [call EXCEPT ![c] = x]
  BY DEF ReadClaim, Sound, CallsFine, y
<1> HIDE DEF x
<1>3. RequestFine(x)
  BY <1>1 DEF Sound, CallsFine, RequestFine, EndedOld, ReadClaim, At
<1> QED
  BY <1>2, <1>3, QuietStep DEF ReadClaim, store

LEMMA LogoutStep ==
  ASSUME Sound, NEW c \in Calls, Logout(c)
  PROVE  Sound' /\ SessionsOnlyEnd
<1> DEFINE dead == UserBySession(jar[BrowserOf[c]]) = None
           pc == IF dead THEN "answered" ELSE "delete"
           r == Request("sign out", pc, None, jar[BrowserOf[c]])
           yes == TRUE
           x == [r EXCEPT !.setCookie = yes]
<1>0. /\ IsCall(r) /\ r.token = None /\ r.cookie = jar[BrowserOf[c]]
      /\ r.op = "sign out" /\ r.pc = pc
  BY DEF Request, IsCall
<1> HIDE DEF r, yes
<1>1. /\ IsCall(x) /\ x.token = None /\ x.cookie = jar[BrowserOf[c]]
      /\ x.op = "sign out" /\ x.pc = pc
  BY <1>0, SetFields
<1>2. call' = [call EXCEPT ![c] = x] \/ Refuse(c)
  BY DEF Logout, r, yes
<1>3. ~dead => jar[BrowserOf[c]] # None
  BY DEF UserBySession
<1> HIDE DEF x
<1>4. RequestFine(x)
  BY <1>1, <1>3, CookieHeld DEF RequestFine, Held, EndedOld
<1> HIDE DEF dead
<1> QED
  BY <1>2, <1>4, QuietStep, RefuseStep DEF Logout, store

LEMMA SessionStep ==
  ASSUME Sound, NEW c \in Calls, Session(c)
  PROVE  Sound' /\ SessionsOnlyEnd
<1> DEFINE b == BrowserOf[c]
           live == UserBySession(jar[b]) # None
           r == Request("session", "answered", None, None)
           y == [r EXCEPT !.token = IF live THEN jar[b] ELSE None]
           x == [y EXCEPT !.setCookie = ~live /\ jar[b] # None]
<1>a. IsCall(r) /\ r.cookie = None /\ r.op = "session" /\ r.pc = "answered"
  BY DEF Request, IsCall
<1> HIDE DEF r
<1>0. /\ IsCall(y) /\ y.token \in {jar[b], None} /\ y.cookie = None
      /\ y.op = "session" /\ y.pc = "answered"
  BY <1>a DEF IsCall
<1> HIDE DEF y
<1>1. /\ IsCall(x) /\ x.token \in {jar[b], None} /\ x.cookie = None
      /\ x.op = "session" /\ x.pc = "answered"
  BY <1>0 DEF IsCall
<1>2. call' = [call EXCEPT ![c] = x]
  BY DEF Session, y, r
<1> HIDE DEF x
<1>3. RequestFine(x)
  BY <1>1, CookieHeld DEF RequestFine, Held, EndedOld
<1> QED
  BY <1>2, <1>3, QuietStep DEF Session, store

LEMMA WritePlacesStep ==
  ASSUME Sound, NEW c \in Calls, NEW p,
         NEW op \in {"edit", "remove", "save"}, NEW pc \in {"get", "remove", "count"},
         WritePlaces(c, op, pc, p)
  PROVE  Sound' /\ SessionsOnlyEnd
<1> DEFINE r == Request(op, pc, UserBySession(jar[BrowserOf[c]]), None)
           x == [r EXCEPT !.place = p]
<1>0. IsCall(r) /\ r.token = None /\ r.cookie = None /\ r.op = op /\ r.pc = pc
  BY DEF Request, IsCall
<1> HIDE DEF r
<1>1. IsCall(x) /\ x.token = None /\ x.cookie = None /\ x.op = op /\ x.pc = pc
  BY <1>0, SetFields
<1>2. call' = [call EXCEPT ![c] = x] \/ Refuse(c)
  BY DEF WritePlaces, r
<1> HIDE DEF x
<1>3. RequestFine(x)
  BY <1>1 DEF RequestFine, Held, EndedOld
<1> QED
  BY <1>2, <1>3, QuietStep, RefuseStep DEF WritePlaces, store

\* The steps that only go on or give up.
LEMMA PlainStep ==
  ASSUME Sound, NEW c \in Calls, Drop(c) \/ CountPlaces(c) \/ GetPlace(c)
  PROVE  Sound' /\ SessionsOnlyEnd
<1>1. UNCHANGED <<now, session, issued, place, jar>>
  BY DEF Drop, CountPlaces, GetPlace, store
<1>2. Refuse(c) \/ Goto(c, "save") \/ Goto(c, "update")
  BY DEF Drop, CountPlaces, GetPlace
<1> QED
  BY <1>1, <1>2, RefuseStep, GotoStep

\* The steps on the sessions and the jar: what they leave alone is fine, and
\* so is the request if it is.
LEMMA SessionWrite ==
  ASSUME Sound, NEW c \in Calls, MovesOnly(c), SessionsFine', SessionsOnlyEnd,
         UNCHANGED <<place, jar>>, RequestFine(call[c])'
  PROVE  Sound'
<1>1. PlacesFine'
  BY DEF Sound, PlacesFine, IsPlace
<1>2. JarsFine'
  BY QuietJars DEF Sound
<1> QED
  BY <1>1, <1>2, CallsStayFine DEF Sound

\* A request that goes on to another statement, its other fields as they were.
LEMMA GoesOn ==
  ASSUME Sound, NEW c \in Calls, NEW pc, Goto(c, pc)
  PROVE  /\ MovesOnly(c) /\ IsCall(call'[c]) /\ call'[c].pc = pc /\ call'[c].op = call[c].op
         /\ call'[c].token = call[c].token /\ call'[c].cookie = call[c].cookie
BY DEF Sound, CallsFine, RequestFine, MovesOnly, Goto, IsCall

\* Prune's statement: every session it ends has expired.
LEMMA PruneStep ==
  ASSUME Sound, NEW c \in Calls, Prune(c)
  PROVE  Sound' /\ SessionsOnlyEnd
<1>1. SessionsFine' /\ SessionsOnlyEnd
  BY DEF Sound, SessionsFine, SessionsOnlyEnd, Prune, NoSession, IsSession
<1>2. /\ MovesOnly(c) /\ IsCall(call'[c]) /\ call'[c].pc = "insert"
      /\ call'[c].token = call[c].token /\ call'[c].cookie = call[c].cookie
  BY GoesOn DEF Prune
<1>3. RequestFine(call[c])'
  BY <1>2 DEF Prune, RequestFine, EndedOld, Held, Sound, CallsFine, IsCall
<1> QED
  BY <1>1, <1>2, <1>3, SessionWrite DEF Prune

\* Revoke's and DeleteSession's: the session of the request's cookie is gone.
LEMMA EndStep ==
  ASSUME Sound, NEW c \in Calls, NEW pc \in {"claim", "answered"}, Goto(c, pc), call[c].cookie # None,
         session' = [session EXCEPT ![call[c].cookie] = NoSession],
         UNCHANGED <<now, issued, place, jar>>
  PROVE  Sound' /\ SessionsOnlyEnd
<1>0. call[c].cookie \in Tokens
  BY DEF Sound, CallsFine, RequestFine, Held, SessionsFine
<1>1. SessionsFine' /\ SessionsOnlyEnd
  BY <1>0 DEF Sound, SessionsFine, SessionsOnlyEnd, NoSession, IsSession
<1>2. session'[call[c].cookie] = NoSession
  BY <1>0 DEF Sound, SessionsFine
<1>3. /\ MovesOnly(c) /\ IsCall(call'[c]) /\ call'[c].pc = pc
      /\ call'[c].token = call[c].token /\ call'[c].cookie = call[c].cookie
  BY GoesOn
<1>4. UserBySession(call[c].cookie)' = None
  BY <1>2, <1>3 DEF UserBySession
<1>5. Held(call[c].token)' /\ Held(call[c].cookie)'
  BY <1>3 DEF RequestFine, Held, Sound, CallsFine
<1>6. RequestFine(call[c])'
  BY <1>3, <1>4, <1>5 DEF RequestFine, EndedOld, IsCall, UserBySession, Held
<1> QED
  BY <1>1, <1>3, <1>6, SessionWrite

LEMMA RevokeStep ==
  ASSUME Sound, NEW c \in Calls, Revoke(c) \/ DeleteSession(c)
  PROVE  Sound' /\ SessionsOnlyEnd
<1>1. call[c].cookie # None
  BY DEF Sound, CallsFine, RequestFine, Revoke, DeleteSession, At
<1> QED
  BY <1>1, EndStep DEF Revoke, DeleteSession

LEMMA InsertSessionStep ==
  ASSUME Sound, NEW c \in Calls, InsertSession(c)
  PROVE  Sound' /\ SessionsOnlyEnd
<1> PICK t \in Tokens \ issued :
       /\ issued' = issued \cup {t}
       /\ session' = [session EXCEPT ![t] = [user |-> call[c].user, expires |-> now + SessionTTL]]
       /\ call' = [call EXCEPT ![c].token = t,
                               ![c].pc = IF call[c].cookie = None THEN "claim" ELSE "revoke"]
  BY DEF InsertSession
<1>1. SessionsFine' /\ SessionsOnlyEnd
  BY AccountsAssumption DEF Sound, SessionsFine, SessionsOnlyEnd, InsertSession, NoSession, IsSession
<1> DEFINE y == [call[c] EXCEPT !.token = t]
           pc == IF call[c].cookie = None THEN "claim" ELSE "revoke"
           x == [y EXCEPT !.pc = pc]
<1>2. IsCall(y) /\ y.token = t /\ y.cookie = call[c].cookie /\ y.op = call[c].op
  BY DEF Sound, CallsFine, RequestFine, IsCall
<1>3. call' = [call EXCEPT ![c] = x]
  BY DEF Sound, CallsFine
<1> HIDE DEF y
<1>4. IsCall(x) /\ x.token = t /\ x.cookie = call[c].cookie /\ x.op = call[c].op /\ x.pc = pc
  BY <1>2 DEF IsCall
<1> HIDE DEF x
<1>5. MovesOnly(c) /\ call'[c] = x
  BY <1>3 DEF MovesOnly, Sound, CallsFine
<1>6. RequestFine(call[c])'
  <2>1. x.token \in issued' /\ (x.cookie # None => x.cookie \in issued')
    BY <1>4 DEF RequestFine, Sound, CallsFine, Held
  <2>2. x.pc \notin {"take", "answered", "delete"} /\ (x.pc \in {"claim", "revoke"} => (x.pc = "claim" <=> x.cookie = None))
    BY <1>4
  <2> QED
    BY <1>4, <1>5, <2>1, <2>2 DEF RequestFine, EndedOld, Held, IsCall
<1> QED
  BY <1>1, <1>5, <1>6, SessionWrite DEF InsertSession

\* TakeClaim writes owners, the handlers of a place the place.
LEMMA TakeClaimStep ==
  ASSUME Sound, NEW c \in Calls, TakeClaim(c)
  PROVE  Sound' /\ SessionsOnlyEnd
<1> DEFINE y == [call[c] EXCEPT !.pc = "answered"]
           yes == TRUE
           z == [y EXCEPT !.setCookie = yes]
           x == [z EXCEPT !.ids = {}]
<1>1. /\ IsCall(y) /\ y.token = call[c].token /\ y.cookie = call[c].cookie
      /\ y.op = call[c].op /\ y.pc = "answered"
  BY DEF Sound, CallsFine, RequestFine, IsCall
<1>2. call' = [call EXCEPT ![c] = x]
  BY DEF TakeClaim, Sound, CallsFine
<1> HIDE DEF y, yes
<1>3. /\ IsCall(z) /\ z.token = call[c].token /\ z.cookie = call[c].cookie
      /\ z.op = call[c].op /\ z.pc = "answered"
  BY <1>1, SetFields
<1> HIDE DEF z
<1>4. /\ IsCall(x) /\ x.token = call[c].token /\ x.cookie = call[c].cookie
      /\ x.op = call[c].op /\ x.pc = "answered"
  BY <1>3, SMTT(30) DEF IsCall
<1> HIDE DEF x
<1>5. MovesOnly(c) /\ call'[c] = x
  BY <1>2 DEF MovesOnly, Sound, CallsFine
<1>6. SessionsFine' /\ SessionsOnlyEnd
  BY QuietSessions DEF Sound, TakeClaim
<1>7. RequestFine(x)
  BY <1>4 DEF Sound, CallsFine, RequestFine, EndedOld, TakeClaim, At
<1>8. RequestFine(call[c])'
  BY <1>5, <1>7 DEF RequestFine, Held, EndedOld, IsCall, UserBySession, TakeClaim
<1>9. CallsFine'
  BY <1>5, <1>6, <1>8, CallsStayFine
<1>10. JarsFine'
  BY <1>6, QuietJars DEF Sound, TakeClaim
<1>11. PlacesFine'
  BY DEF Sound, PlacesFine, IsPlace, TakeClaim
<1> QED
  BY <1>6, <1>9, <1>10, <1>11 DEF Sound

LEMMA PlaceStep ==
  ASSUME Sound, NEW c \in Calls, CreatePlace(c) \/ UpdatePlace(c) \/ DeletePlace(c)
  PROVE  Sound' /\ SessionsOnlyEnd
<1>1. UNCHANGED <<now, session, issued, jar>> /\ call' = [call EXCEPT ![c] = NoCall]
  BY DEF CreatePlace, UpdatePlace, DeletePlace, Refuse
<1>2. SessionsFine' /\ SessionsOnlyEnd
  BY <1>1, QuietSessions DEF Sound
<1>3. MovesOnly(c) /\ call'[c] = NoCall
  BY <1>1 DEF MovesOnly, Sound, CallsFine
<1>4. RequestFine(call[c])'
  BY <1>3 DEF RequestFine, NoCall, Request, Held, EndedOld, IsCall
<1>5. CallsFine' /\ JarsFine'
  BY <1>1, <1>2, <1>3, <1>4, CallsStayFine, QuietJars DEF Sound
<1>6. PlacesFine'
  <2>1. CASE CreatePlace(c)
    BY <2>1 DEF Sound, PlacesFine, IsPlace, CreatePlace
  <2>2. CASE UpdatePlace(c)
    BY <2>2 DEF Sound, PlacesFine, IsPlace, UpdatePlace
  <2>3. CASE DeletePlace(c)
    BY <2>3 DEF Sound, PlacesFine, IsPlace, DeletePlace, NoPlace
  <2> QED
    BY <2>1, <2>2, <2>3
<1> QED
  BY <1>2, <1>5, <1>6 DEF Sound

\* The answer arrives: the jar gets the request's token, or none.
LEMMA ArriveStep ==
  ASSUME Sound, NEW c \in Calls, Arrive(c)
  PROVE  Sound' /\ SessionsOnlyEnd
<1>1. UNCHANGED <<now, session, issued, place>> /\ call' = [call EXCEPT ![c] = NoCall]
  BY DEF Arrive, store
<1>2. SessionsFine' /\ SessionsOnlyEnd
  BY <1>1, QuietSessions DEF Sound
<1>3. MovesOnly(c) /\ call'[c] = NoCall
  BY <1>1 DEF MovesOnly, Sound, CallsFine
<1>4. RequestFine(call[c])'
  BY <1>3 DEF RequestFine, NoCall, Request, Held, EndedOld, IsCall
<1>5. CallsFine' /\ PlacesFine'
  BY <1>1, <1>2, <1>3, <1>4, CallsStayFine DEF Sound, PlacesFine, IsPlace
<1>6. JarsFine'
  BY <1>1 DEF Sound, JarsFine, CallsFine, RequestFine, Held, Arrive
<1> QED
  BY <1>2, <1>5, <1>6 DEF Sound

LEMMA TickStep ==
  ASSUME Sound, Tick
  PROVE  Sound' /\ SessionsOnlyEnd
<1>1. SessionsFine' /\ SessionsOnlyEnd
  BY DEF Sound, SessionsFine, SessionsOnlyEnd, Tick, store, IsSession
<1>2. PlacesFine' /\ JarsFine'
  BY <1>1, QuietJars DEF Sound, PlacesFine, IsPlace, Tick, store
<1>3. CallsFine'
  BY <1>1, RequestStaysFine DEF Sound, CallsFine, Tick
<1> QED
  BY <1>1, <1>2, <1>3 DEF Sound

-----------------------------------------------------------------------------
(* The invariant.                                                          *)

LEMMA SoundInit == Init => Sound
<1> SUFFICES ASSUME Init PROVE Sound
  OBVIOUS
<1>1. SessionsFine /\ JarsFine
  BY DEF Init, SessionsFine, JarsFine, IsSession, NoSession, Held
<1>3. PlacesFine
  BY DEF Init, PlacesFine, IsPlace, NoPlace
<1>2. CallsFine
  BY NoCallFine DEF Init, CallsFine, RequestFine, NoCall, Request, IsCall, EndedOld, Held
<1> QED
  BY <1>1, <1>2, <1>3 DEF Sound

LEMMA SoundStep ==
  ASSUME Sound, [Next]_vars
  PROVE  Sound' /\ SessionsOnlyEnd
<1>1. CASE UNCHANGED vars
  <2>1. SessionsFine' /\ SessionsOnlyEnd
    BY <1>1, QuietSessions DEF Sound, vars
  <2>2. PlacesFine' /\ JarsFine'
    BY <1>1, <2>1, QuietJars DEF Sound, PlacesFine, IsPlace, vars
  <2>3. CallsFine'
    BY <1>1, <2>1, RequestStaysFine DEF Sound, CallsFine, vars
  <2> QED
    BY <2>1, <2>2, <2>3 DEF Sound
<1>2. CASE Tick
  BY <1>2, TickStep
<1>3. ASSUME NEW c \in Calls, NEW u \in Users, Register(c, u) \/ \E right \in BOOLEAN : Login(c, u, right)
      PROVE  Sound' /\ SessionsOnlyEnd
  BY <1>3, RegisterStep, LoginStep
<1>4. ASSUME NEW c \in Calls,
             \/ \E p \in Places : WritePlaces(c, "edit", "get", p) \/ WritePlaces(c, "remove", "remove", p)
             \/ WritePlaces(c, "save", "count", None)
      PROVE  Sound' /\ SessionsOnlyEnd
  <2>1. \/ \E p \in Places : WritePlaces(c, "edit", "get", p)
        \/ \E p \in Places : WritePlaces(c, "remove", "remove", p)
        \/ WritePlaces(c, "save", "count", None)
    BY <1>4
  <2>3. ASSUME NEW p, WritePlaces(c, "edit", "get", p)
        PROVE  Sound' /\ SessionsOnlyEnd
    <3> DEFINE op == "edit"
               pc == "get"
    <3>1. op \in {"edit", "remove", "save"} /\ pc \in {"get", "remove", "count"}
      OBVIOUS
    <3>2. WritePlaces(c, op, pc, p)
      BY <2>3
    <3> HIDE DEF op, pc
    <3> QED
      BY <3>1, <3>2, WritePlacesStep
  <2>4. ASSUME NEW p, WritePlaces(c, "remove", "remove", p)
        PROVE  Sound' /\ SessionsOnlyEnd
    <3> DEFINE op == "remove"
               pc == "remove"
    <3>1. op \in {"edit", "remove", "save"} /\ pc \in {"get", "remove", "count"}
      OBVIOUS
    <3>2. WritePlaces(c, op, pc, p)
      BY <2>4
    <3> HIDE DEF op, pc
    <3> QED
      BY <3>1, <3>2, WritePlacesStep
  <2>5. ASSUME WritePlaces(c, "save", "count", None)
        PROVE  Sound' /\ SessionsOnlyEnd
    <3> DEFINE op == "save"
               pc == "count"
    <3>1. op \in {"edit", "remove", "save"} /\ pc \in {"get", "remove", "count"}
      OBVIOUS
    <3>2. WritePlaces(c, op, pc, None)
      BY <2>5
    <3> HIDE DEF op, pc
    <3> QED
      BY <3>1, <3>2, WritePlacesStep
  <2> QED
    BY <2>1, <2>3, <2>4, <2>5
<1>5. ASSUME NEW c \in Calls, CreateUser(c) \/ Prune(c) \/ InsertSession(c) \/ Revoke(c)
      PROVE  Sound' /\ SessionsOnlyEnd
  BY <1>5, CreateUserStep, PruneStep, InsertSessionStep, RevokeStep
<1>6. ASSUME NEW c \in Calls, ReadClaim(c) \/ TakeClaim(c) \/ Logout(c) \/ DeleteSession(c) \/ Session(c)
      PROVE  Sound' /\ SessionsOnlyEnd
  BY <1>6, ReadClaimStep, TakeClaimStep, LogoutStep, RevokeStep, SessionStep
<1>7. ASSUME NEW c \in Calls,
             \/ Arrive(c) \/ Drop(c) \/ CountPlaces(c) \/ GetPlace(c)
             \/ CreatePlace(c) \/ UpdatePlace(c) \/ DeletePlace(c)
      PROVE  Sound' /\ SessionsOnlyEnd
  BY <1>7, ArriveStep, PlainStep, PlaceStep
<1> QED
  BY <1>1, <1>2, <1>3, <1>4, <1>5, <1>6, <1>7 DEF Next

\* Sound is an invariant.
LEMMA SoundAlways == Spec => []Sound
<1>1. Sound /\ [Next]_vars => Sound'
  BY SoundStep
<1> QED
  BY SoundInit, <1>1, PTL DEF Spec

\* A sign-in or a sign-out that has been answered left the session it came with
\* dead: no other request, in whatever order it ran, brings it back.
THEOREM AnswersEndOldSessions == Spec => []OldSessionIsGone
<1>1. Sound => OldSessionIsGone
  BY DEF Sound, CallsFine, RequestFine, EndedOld, OldSessionIsGone, At
<1> QED
  BY SoundAlways, <1>1, PTL

\* A session that has not expired ends only at a request that carries its token.
THEOREM OnlyHoldersEndSessions == Spec => SessionsEndByTheirHolder
<1> DEFINE ByHolder ==
      \A t \in Tokens : session[t] # NoSession /\ session[t].expires > now /\ session'[t] # session[t] =>
        \E c \in Calls : call[c].cookie = t /\ call[c].pc \in {"delete", "revoke"} /\ call'[c] # call[c]
<1>1. Sound /\ [Next]_vars => ByHolder
  <2> SUFFICES ASSUME Sound, [Next]_vars,
                      NEW t \in Tokens, session[t] # NoSession, session[t].expires > now,
                      session'[t] # session[t]
               PROVE  \E c \in Calls : /\ call[c].cookie = t /\ call[c].pc \in {"delete", "revoke"}
                                       /\ call'[c] # call[c]
    OBVIOUS
  <2>1. t \in issued /\ session[t].expires \in Int /\ now \in Int
    BY DEF Sound, SessionsFine
  <2>2. session' # session
    OBVIOUS
  <2>3. PICK c \in Calls : Prune(c) \/ InsertSession(c) \/ Revoke(c) \/ DeleteSession(c)
    BY <2>2 DEF Next, vars, store, Register, Login, CreateUser, ReadClaim, TakeClaim, Logout, Session,
             Arrive, Drop, WritePlaces, CountPlaces, CreatePlace, GetPlace, UpdatePlace, DeletePlace, Tick
  <2>4. ~Prune(c)
    BY <2>1 DEF Prune
  <2>5. ~InsertSession(c)
    BY <2>1 DEF InsertSession, Sound, SessionsFine
  <2>6. call[c].cookie = t /\ call[c].pc \in {"delete", "revoke"}
    BY <2>3, <2>4, <2>5 DEF Revoke, DeleteSession, At, Sound, SessionsFine
  <2>7. call'[c].pc \in {"claim", "answered"}
    BY <2>3, <2>4, <2>5, GoesOn DEF Revoke, DeleteSession
  <2> QED
    BY <2>6, <2>7
<1>2. [][ByHolder]_vars => SessionsEndByTheirHolder
  BY PTL DEF SessionsEndByTheirHolder
<1> HIDE DEF ByHolder
<1> QED
  BY SoundAlways, <1>1, <1>2, PTL DEF Spec

-----------------------------------------------------------------------------
(* The places.                                                             *)

\* What a sign-in has chosen to claim is a place of its device, or was deleted.
Claims ==
  \A c \in Calls : At(c, "take") =>
    \A p \in Places : p \in call[c].ids => place[p] = NoPlace \/ place[p].device = BrowserOf[c]

\* The steps that write places.
WritesPlace(c) == TakeClaim(c) \/ CreatePlace(c) \/ UpdatePlace(c) \/ DeletePlace(c)

LEMMA OnlyTheseWrite ==
  ASSUME [Next]_vars, place' # place
  PROVE  \E c \in Calls : WritesPlace(c)
BY DEF Next, vars, store, Register, Login, CreateUser, ReadClaim, Logout, Session, Arrive, Drop, WritesPlace,
       WritePlaces, CountPlaces, GetPlace, Prune, InsertSession, Revoke, DeleteSession, Tick

\* The UPDATE that takes the places is a sign-in's last statement.
LEMMA TakenIsAnswered ==
  ASSUME Sound, NEW c \in Calls, TakeClaim(c)
  PROVE  MovesOnly(c) /\ call'[c].pc = "answered"
<1> DEFINE y == [call[c] EXCEPT !.pc = "answered"]
           yes == TRUE
           z == [y EXCEPT !.setCookie = yes]
           x == [z EXCEPT !.ids = {}]
<1>1. IsCall(y) /\ y.pc = "answered"
  BY DEF Sound, CallsFine, RequestFine, IsCall
<1>2. call' = [call EXCEPT ![c] = x]
  BY DEF TakeClaim, Sound, CallsFine
<1> HIDE DEF y, yes
<1>3. IsCall(z) /\ z.pc = "answered"
  BY <1>1, SetFields
<1> HIDE DEF z
<1>4. x.pc = "answered"
  BY <1>3 DEF IsCall
<1> HIDE DEF x
<1> QED
  BY <1>2, <1>4 DEF MovesOnly, Sound, CallsFine

\* A request comes to the statement that takes the places by choosing them only.
LEMMA OnlyReadersTake ==
  ASSUME Sound, [Next]_vars, NEW c \in Calls, At(c, "take")', call'[c] # call[c]
  PROVE  ReadClaim(c)
<1>1. call'[c].pc = "take" /\ IsCall(call[c])
  BY DEF At, Sound, CallsFine, RequestFine
<1>2. ASSUME NEW d \in Calls, NEW x, call' = [call EXCEPT ![d] = x] PROVE d = c /\ x.pc = "take"
  BY <1>1, <1>2 DEF Sound, CallsFine
<1>3. ASSUME NEW d \in Calls, Refuse(d) PROVE FALSE
  <2>1. NoCall.pc = "idle"
    BY DEF NoCall, Request
  <2>2. call' = [call EXCEPT ![d] = NoCall]
    BY <1>3 DEF Refuse
  <2> QED
    BY <1>2, <2>1, <2>2
<1>4. ASSUME NEW d \in Calls, NEW pc, Goto(d, pc), pc # "take" PROVE FALSE
  <2>1. call'[d].pc = pc
    BY <1>4, GoesOn
  <2>2. call' = [call EXCEPT ![d] = [call[d] EXCEPT !.pc = pc]]
    BY <1>4 DEF Goto
  <2> DEFINE x == [call[d] EXCEPT !.pc = pc]
  <2>3. call' = [call EXCEPT ![d] = x]
    BY <2>2
  <2> HIDE DEF x
  <2>4. d = c
    BY <1>2, <2>3
  <2> QED
    BY <1>1, <1>4, <2>1, <2>4
<1>5. ASSUME NEW d \in Calls, InsertSession(d) PROVE FALSE
  <2> PICK t : call' = [call EXCEPT ![d].token = t,
                                    ![d].pc = IF call[d].cookie = None THEN "claim" ELSE "revoke"]
    BY <1>5 DEF InsertSession
  <2> DEFINE y == [call[d] EXCEPT !.token = t]
             pc == IF call[d].cookie = None THEN "claim" ELSE "revoke"
             x == [y EXCEPT !.pc = pc]
  <2>1. IsCall(y)
    BY DEF Sound, CallsFine, RequestFine, IsCall
  <2>2. call' = [call EXCEPT ![d] = x]
    BY DEF Sound, CallsFine
  <2> HIDE DEF y
  <2>3. x.pc = pc
    BY <2>1 DEF IsCall
  <2> HIDE DEF x
  <2> QED
    BY <1>2, <2>2, <2>3
<1>6. ASSUME NEW d \in Calls, TakeClaim(d) PROVE FALSE
  <2>1. call' = [call EXCEPT ![d] = call'[d]] /\ call'[d].pc = "answered"
    BY <1>6, TakenIsAnswered DEF MovesOnly
  <2> DEFINE x == call'[d]
  <2> HIDE DEF x
  <2>2. call' = [call EXCEPT ![d] = x] /\ x.pc = "answered"
    BY <2>1 DEF x
  <2> QED
    BY <1>2, <2>2
<1>7. ASSUME NEW d \in Calls, Logout(d) PROVE FALSE
  <2> DEFINE pc == IF UserBySession(jar[BrowserOf[d]]) = None THEN "answered" ELSE "delete"
             r == Request("sign out", pc, None, jar[BrowserOf[d]])
             yes == TRUE
             x == [r EXCEPT !.setCookie = yes]
  <2>1. IsCall(r) /\ r.pc = pc
    BY DEF Request, IsCall
  <2>2. call' = [call EXCEPT ![d] = x] \/ Refuse(d)
    BY <1>7 DEF Logout
  <2> HIDE DEF r, yes
  <2>3. x.pc = pc
    BY <2>1, SetFields
  <2> HIDE DEF x
  <2> QED
    BY <1>2, <1>3, <2>2, <2>3
<1>8. ASSUME NEW d \in Calls, Session(d) PROVE FALSE
  <2> DEFINE b == BrowserOf[d]
             live == UserBySession(jar[b]) # None
             r == Request("session", "answered", None, None)
             y == [r EXCEPT !.token = IF live THEN jar[b] ELSE None]
             x == [y EXCEPT !.setCookie = ~live /\ jar[b] # None]
  <2>1. IsCall(r) /\ r.pc = "answered"
    BY DEF Request, IsCall
  <2>2. call' = [call EXCEPT ![d] = x]
    BY <1>8 DEF Session
  <2> HIDE DEF r
  <2>3. IsCall(y) /\ y.pc = "answered"
    BY <2>1 DEF IsCall
  <2> HIDE DEF y
  <2>4. x.pc = "answered"
    BY <2>3, SetFields
  <2> HIDE DEF x
  <2> QED
    BY <1>2, <2>2, <2>4
<1>9. ASSUME NEW d \in Calls, NEW op, NEW pc, NEW p, WritePlaces(d, op, pc, p), pc # "take" PROVE FALSE
  <2> DEFINE r == Request(op, pc, UserBySession(jar[BrowserOf[d]]), None)
             x == [r EXCEPT !.place = p]
  <2>1. IsCall(r) /\ r.pc = pc
    BY DEF Request, IsCall
  <2>2. call' = [call EXCEPT ![d] = x] \/ Refuse(d)
    BY <1>9 DEF WritePlaces
  <2> HIDE DEF r
  <2>3. x.pc = pc
    BY <2>1, SetFields
  <2> HIDE DEF x
  <2> QED
    BY <1>2, <1>3, <1>9, <2>2, <2>3
<1>10. ASSUME NEW d \in Calls, NEW u, NEW right, Register(d, u) \/ Login(d, u, right) PROVE FALSE
  <2> DEFINE x == Request("sign in", "create", u, jar[BrowserOf[d]])
             y == Request("sign in", "prune", u, jar[BrowserOf[d]])
  <2>1. x.pc = "create" /\ y.pc = "prune"
    BY DEF Request
  <2>2. call' = [call EXCEPT ![d] = x] \/ call' = [call EXCEPT ![d] = y] \/ Refuse(d)
    BY <1>10 DEF Register, Login
  <2> HIDE DEF x, y
  <2> QED
    BY <1>2, <1>3, <2>1, <2>2
<1>11. ASSUME NEW d \in Calls,
              \/ CreateUser(d) \/ Prune(d) \/ Revoke(d) \/ DeleteSession(d) \/ Drop(d) \/ Arrive(d)
              \/ CountPlaces(d) \/ CreatePlace(d) \/ GetPlace(d) \/ UpdatePlace(d) \/ DeletePlace(d)
       PROVE  FALSE
  <2>1. \/ Refuse(d) \/ Goto(d, "prune") \/ Goto(d, "insert") \/ Goto(d, "claim") \/ Goto(d, "answered")
        \/ Goto(d, "save") \/ Goto(d, "update")
    BY <1>11 DEF CreateUser, Prune, Revoke, DeleteSession, Drop, Arrive, CountPlaces, CreatePlace, GetPlace,
                 UpdatePlace, DeletePlace, Refuse
  <2> QED
    BY <1>3, <1>4, <2>1
<1>12. call' # call
  OBVIOUS
<1>13. PICK d \in Calls : ReadClaim(d)
  <2>1. ~Tick /\ ~UNCHANGED vars
    BY <1>12 DEF Tick, vars
  <2> QED
    BY <1>5, <1>6, <1>7, <1>8, <1>9, <1>10, <1>11, <2>1 DEF Next
<1>14. PICK x : call' = [call EXCEPT ![d] = x]
  BY <1>13 DEF ReadClaim, Sound, CallsFine
<1> QED
  BY <1>2, <1>13, <1>14

\* A sign-in chooses places of its device.
LEMMA ReadersChoose ==
  ASSUME Sound, NEW c \in Calls, ReadClaim(c)
  PROVE  \A p \in call'[c].ids : place[p].device = BrowserOf[c]
<1> DEFINE y == [call[c] EXCEPT !.pc = "take"]
           chosen == Claimable(BrowserOf[c], call[c].user)
           x == [y EXCEPT !.ids = chosen]
<1>1. IsCall(y)
  BY DEF Sound, CallsFine, RequestFine, IsCall
<1>2. call'[c] = x
  BY DEF ReadClaim, Sound, CallsFine
<1> HIDE DEF y, chosen
<1>3. x.ids = chosen
  BY <1>1 DEF IsCall
<1>4. \A p \in chosen : place[p].device = BrowserOf[c]
  BY DEF chosen, Claimable
<1> HIDE DEF x
<1> QED
  BY <1>2, <1>3, <1>4

\* Its choice stays true of the rows: the new ones are none it named.
LEMMA ChosenStays ==
  ASSUME Sound, [Next]_vars, NEW c \in Calls, NEW p \in Places, p \in call[c].ids, NEW b,
         place[p] = NoPlace \/ place[p].device = b
  PROVE  place'[p] = NoPlace \/ place'[p].device = b
<1>1. CASE place' = place
  BY <1>1
<1>2. CASE place' # place
  <2>1. PICK d \in Calls : WritesPlace(d)
    BY <1>2, OnlyTheseWrite
  <2>2. CASE TakeClaim(d)
    BY <2>2 DEF TakeClaim, Sound, PlacesFine, IsPlace
  <2>3. CASE CreatePlace(d)
    BY <2>3 DEF CreatePlace, Sound, PlacesFine
  <2>4. CASE UpdatePlace(d)
    BY <2>4 DEF UpdatePlace, Sound, PlacesFine, IsPlace
  <2>5. CASE DeletePlace(d)
    BY <2>5 DEF DeletePlace, Sound, PlacesFine
  <2> QED
    BY <2>1, <2>2, <2>3, <2>4, <2>5 DEF WritesPlace
<1> QED
  BY <1>1, <1>2

LEMMA ClaimsAlways == Spec => [](Sound /\ Claims)
<1>1. Init => Claims
  BY DEF Init, Claims, At, NoCall, Request
<1>2. Sound /\ Claims /\ [Next]_vars => Claims'
  <2> SUFFICES ASSUME Sound, Claims, [Next]_vars, NEW c \in Calls, At(c, "take")',
                      NEW p \in Places, p \in call'[c].ids
               PROVE  place'[p] = NoPlace \/ place'[p].device = BrowserOf[c]
    BY DEF Claims
  <2>1. CASE call'[c] = call[c]
    BY <2>1, ChosenStays DEF Claims, At
  <2>2. CASE call'[c] # call[c]
    <3>1. ReadClaim(c)
      BY <2>2, OnlyReadersTake
    <3>2. UNCHANGED place
      BY <3>1 DEF ReadClaim, store
    <3> QED
      BY <3>1, <3>2, ReadersChoose
  <2> QED
    BY <2>1, <2>2
<1>3. Sound /\ [Next]_vars => Sound'
  BY SoundStep
<1> QED
  BY SoundInit, <1>1, <1>2, <1>3, PTL DEF Spec

\* What may happen to a place that has an owner.
Private(p) ==
  place[p].owner # None /\ place'[p] # place[p] =>
    \E c \in Calls :
      /\ call'[c] # call[c]
      /\ \/ /\ call[c].pc \in {"update", "remove"} /\ call[c].user = place[p].owner
            /\ place'[p].owner \in {place[p].owner, None}
         \/ /\ At(c, "take") /\ p \in call[c].ids /\ place[p].device = BrowserOf[c]
            /\ place'[p] = [place[p] EXCEPT !.owner = call[c].user]

\* An owned place is edited and deleted only by a request of the account that owns
\* it then, and changes hands only to a sign-in on the device that saved it, which
\* chose it while nobody owned it.
THEOREM OnlyOwnersWritePlaces == Spec => PlacesArePrivate
<1> DEFINE AllPrivate == \A p \in Places : Private(p)
<1>1. Sound /\ Claims /\ [Next]_vars => AllPrivate
  <2> SUFFICES ASSUME Sound, Claims, [Next]_vars, NEW p \in Places,
                      place[p].owner # None, place'[p] # place[p]
               PROVE  \E c \in Calls :
                        /\ call'[c] # call[c]
                        /\ \/ /\ call[c].pc \in {"update", "remove"} /\ call[c].user = place[p].owner
                              /\ place'[p].owner \in {place[p].owner, None}
                           \/ /\ At(c, "take") /\ p \in call[c].ids /\ place[p].device = BrowserOf[c]
                              /\ place'[p] = [place[p] EXCEPT !.owner = call[c].user]
    BY DEF Private
  <2>1. PICK c \in Calls : WritesPlace(c)
    BY OnlyTheseWrite
  <2>2. place[p] # NoPlace /\ IsPlace(place[p])
    BY DEF NoPlace, Sound, PlacesFine
  <2>3. CASE TakeClaim(c)
    <3>1. p \in call[c].ids /\ place'[p] = [place[p] EXCEPT !.owner = call[c].user] /\ At(c, "take")
      BY <2>3 DEF TakeClaim
    <3>2. place[p].device = BrowserOf[c]
      BY <2>2, <3>1 DEF Claims
    <3>3. call'[c] # call[c]
      BY <2>3, <3>1, TakenIsAnswered DEF At
    <3> QED
      BY <3>1, <3>2, <3>3
  <2>4. ~CreatePlace(c)
    BY <2>2 DEF CreatePlace, Sound, PlacesFine
  <2>5. CASE UpdatePlace(c) \/ DeletePlace(c)
    <3>1. call[c].pc \in {"update", "remove"} /\ call[c].user = place[p].owner
      BY <2>5 DEF UpdatePlace, DeletePlace, At, Sound, PlacesFine
    <3>2. place'[p].owner \in {place[p].owner, None}
      <4>1. CASE UpdatePlace(c)
        BY <2>2, <4>1 DEF UpdatePlace, Sound, PlacesFine, IsPlace
      <4>2. CASE DeletePlace(c)
        BY <4>2 DEF DeletePlace, Sound, PlacesFine, NoPlace
      <4> QED
        BY <2>5, <4>1, <4>2
    <3>3. call'[c].pc = "idle"
      BY <2>5 DEF UpdatePlace, DeletePlace, Refuse, NoCall, Request, Sound, CallsFine
    <3> QED
      BY <3>1, <3>2, <3>3
  <2> QED
    BY <2>1, <2>3, <2>4, <2>5 DEF WritesPlace
<1>2. [][AllPrivate]_vars => PlacesArePrivate
  BY PTL DEF PlacesArePrivate, Private
<1> HIDE DEF AllPrivate
<1> QED
  BY ClaimsAlways, <1>1, <1>2, PTL DEF Spec
=============================================================================
