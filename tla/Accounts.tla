------------------------------ MODULE Accounts ------------------------------
(***************************************************************************)
(* Accounts, cookie sessions and the saved places an account owns.          *)
(*                                                                         *)
(* A call is a browser tab's request.  The tabs of a browser share its      *)
(* cookie jar; each tab keeps the CSRF token its last answer gave it.  The  *)
(* handlers run no transaction: every statement is a step of its own, any   *)
(* of them may fail, and the answer (with its Set-Cookie) may be lost or    *)
(* overtaken.  Tokens are 32 random bytes: a new one was never used before, *)
(* and the CSRF token of a session is a function of its token alone, so a   *)
(* token stands for both.                                                  *)
(*                                                                         *)
(* Places a device saved before accounts existed have no owner until an     *)
(* account signing in on it claims them.                                   *)
(* An operator used nowhere that stands before another with the same        *)
(* parameters is a mistake the properties would catch.                      *)
(***************************************************************************)
EXTENDS Integers, Sequences, FiniteSets, Functions

CONSTANTS
  Users,          \* people with an email and a password
  Calls,          \* tabs
  Browsers,
  BrowserOf,      \* the browser of a tab; a browser is one device
  Tokens,         \* session tokens that can be issued
  Places,         \* rows of kind place
  Older,          \* the ownerless places of each browser's device, oldest first
  MaxPlaces,      \* MaxPlacesPerUser
  SessionTTL,
  None,
  MaxTime         \* bound of the clock

ASSUME AccountsAssumption ==
  /\ MaxPlaces \in Nat
  /\ SessionTTL \in Nat \ {0}
  /\ BrowserOf \in [Calls -> Browsers]

VARIABLES
  now,
  account,   \* users
  session,   \* user_sessions by token
  issued,    \* tokens used so far
  place,     \* follows of kind place: owner, device and a version of the rest
  jar,       \* the session cookie of each browser
  tab,       \* the CSRF token each tab holds
  call       \* the request each tab has in flight

vars == <<now, account, session, issued, place, jar, tab, call>>
store == <<account, session, issued, place>>

NoSession == [user |-> None, expires |-> 0]
NoPlace == [owner |-> None, device |-> None, version |-> 0]

\* A request at statement pc, from the account user, with the cookie it came with.
Request(op, pc, user, cookie) ==
  [pc |-> pc, op |-> op, user |-> user, cookie |-> cookie,
   token |-> None, place |-> None, ids |-> {}, setCookie |-> FALSE]

NoCall == Request(None, "idle", None, None)

At(c, pc) == call[c].pc = pc
Goto(c, pc) == call' = [call EXCEPT ![c].pc = pc]

\* A refusal or an error: no cookie is set and the tab learns nothing.
Refuse(c) == call' = [call EXCEPT ![c] = NoCall]

\* --- Sessions ----------------------------------------------------------------

\* UserBySession: the user of a token that is known and has not expired.
UserBySession(t) ==
  IF t # None /\ session[t] # NoSession /\ session[t].expires > now
  THEN session[t].user ELSE None

\* checkCSRF: the token sent must be the one of the session that was sent.
CheckCSRF(cookie, csrf) == csrf # None /\ csrf = cookie

\* authMiddleware: who a request is from; a signed-in write with a wrong CSRF
\* token is refused, and so is a guest where sign-in is required.
Admitted(c, write, required) ==
  LET u == UserBySession(jar[BrowserOf[c]]) IN
  /\ required => u # None
  /\ u # None /\ write => CheckCSRF(jar[BrowserOf[c]], tab[c])

\* --- Sign-up, sign-in, sign-out -------------------------------------------------

\* Register and Login carry the cookie they find: the session it names is the
\* one to be replaced.
Register(c, u) ==
  /\ At(c, "idle")
  /\ call' = [call EXCEPT ![c] = Request("sign in", "create", u, jar[BrowserOf[c]])]
  /\ UNCHANGED <<now, store, jar, tab>>

\* The unique index on the email decides between two sign-ups.
CreateUser(c) ==
  /\ At(c, "create")
  /\ IF call[c].user \in account
     THEN Refuse(c) /\ UNCHANGED account
     ELSE account' = account \cup {call[c].user} /\ Goto(c, "prune")
  /\ UNCHANGED <<now, session, issued, place, jar, tab>>

\* Login: an unknown email and a wrong password get the same answer.
Login(c, u, right) ==
  /\ At(c, "idle")
  /\ IF u \in account /\ right
     THEN call' = [call EXCEPT ![c] = Request("sign in", "prune", u, jar[BrowserOf[c]])]
     ELSE Refuse(c)
  /\ UNCHANGED <<now, store, jar, tab>>

\* Signing in ends the account's other sessions.
PruneAll(c) ==
  /\ At(c, "prune")
  /\ session' = [t \in Tokens |-> IF session[t].user = call[c].user THEN NoSession ELSE session[t]]
  /\ Goto(c, "insert")
  /\ UNCHANGED <<now, account, issued, place, jar, tab>>

\* CreateSession, first statement: the user's expired sessions go.
Prune(c) ==
  /\ At(c, "prune")
  /\ session' = [t \in Tokens |-> IF session[t].user = call[c].user /\ session[t].expires <= now
                                  THEN NoSession ELSE session[t]]
  /\ Goto(c, "insert")
  /\ UNCHANGED <<now, account, issued, place, jar, tab>>

\* Second statement: the new session; then the one the browser held before.
InsertSession(c) ==
  /\ At(c, "insert")
  /\ \E t \in Tokens \ issued :
       /\ issued' = issued \cup {t}
       /\ session' = [session EXCEPT ![t] = [user |-> call[c].user, expires |-> now + SessionTTL]]
       /\ call' = [call EXCEPT ![c].token = t,
                               ![c].pc = IF call[c].cookie = None THEN "claim" ELSE "revoke"]
  /\ UNCHANGED <<now, account, place, jar, tab>>

\* The old session is left to expire.
RevokeNothing(c) ==
  /\ At(c, "revoke")
  /\ Goto(c, "claim")
  /\ UNCHANGED <<now, store, jar, tab>>

Revoke(c) ==
  /\ At(c, "revoke")
  /\ session' = [session EXCEPT ![call[c].cookie] = NoSession]
  /\ Goto(c, "claim")
  /\ UNCHANGED <<now, account, issued, place, jar, tab>>

OwnedBy(u) == {p \in Places : place[p].owner = u}
Room(u) == IF Cardinality(OwnedBy(u)) < MaxPlaces THEN MaxPlaces - Cardinality(OwnedBy(u)) ELSE 0

\* The subquery of ClaimDevicePlaces: the device's ownerless places in its
\* snapshot, oldest first, as many as the account has room for.
Claimable(b, u) ==
  LET free == {p \in Places : place[p].device = b /\ place[p].owner = None}
      before(p) == {q \in free : \E i, j \in DOMAIN Older[b] :
                                   i < j /\ Older[b][i] = q /\ Older[b][j] = p} IN
  {p \in free : Cardinality(before(p)) < Room(u)}

ReadClaim(c) ==
  /\ At(c, "claim")
  /\ call' = [call EXCEPT ![c].pc = "take", ![c].ids = Claimable(BrowserOf[c], call[c].user)]
  /\ UNCHANGED <<now, store, jar, tab>>

\* The UPDATE locks the rows the subquery chose.  A row another statement
\* changed meanwhile is checked again for its id only: the choice stands.  One
\* that was deleted is skipped.
TakeClaim(c) ==
  /\ At(c, "take")
  /\ place' = [p \in Places |-> IF p \in call[c].ids /\ place[p] # NoPlace
                                THEN [place[p] EXCEPT !.owner = call[c].user] ELSE place[p]]
  /\ call' = [call EXCEPT ![c].pc = "answered", ![c].setCookie = TRUE, ![c].ids = {}]
  /\ UNCHANGED <<now, account, session, issued, jar, tab>>

\* Logout behind optionalAuth: without a live session it only clears the cookie.
Logout(c) ==
  /\ At(c, "idle")
  /\ LET cookie == jar[BrowserOf[c]]
         pc == IF UserBySession(cookie) = None THEN "answered" ELSE "delete" IN
     IF ~Admitted(c, TRUE, FALSE) THEN Refuse(c)
     ELSE call' = [call EXCEPT ![c] = [Request("sign out", pc, None, cookie) EXCEPT !.setCookie = TRUE]]
  /\ UNCHANGED <<now, store, jar, tab>>

DeleteSession(c) ==
  /\ At(c, "delete")
  /\ session' = [session EXCEPT ![call[c].cookie] = NoSession]
  /\ Goto(c, "answered")
  /\ UNCHANGED <<now, account, issued, place, jar, tab>>

\* GET /auth/session hands a tab the CSRF token of the cookie's session; a
\* cookie that names no live session is cleared.
Session(c) ==
  /\ At(c, "idle")
  /\ LET b == BrowserOf[c]  live == UserBySession(jar[b]) # None IN
     call' = [call EXCEPT ![c] = [Request("session", "answered", None, None) EXCEPT
                !.token = IF live THEN jar[b] ELSE None,
                !.setCookie = ~live /\ jar[b] # None]]
  /\ UNCHANGED <<now, store, jar, tab>>

\* The answer arrives: the browser stores or clears the cookie, the tab keeps
\* the CSRF token.
Arrive(c) ==
  /\ At(c, "answered")
  /\ jar' = [jar EXCEPT ![BrowserOf[c]] = IF call[c].setCookie THEN call[c].token ELSE @]
  /\ tab' = [tab EXCEPT ![c] = call[c].token]
  /\ call' = [call EXCEPT ![c] = NoCall]
  /\ UNCHANGED <<now, store>>

\* The client leaves, the database fails or the process dies: what was done
\* stays done, and nothing is answered.
Drop(c) ==
  /\ ~At(c, "idle")
  /\ Refuse(c)
  /\ UNCHANGED <<now, store, jar, tab>>

\* --- Saved places ---------------------------------------------------------------

\* A signed-in write to the saved places, let in by requireAuth.
WritePlaces(c, op, pc, p) ==
  /\ At(c, "idle")
  /\ IF Admitted(c, TRUE, TRUE)
     THEN call' = [call EXCEPT ![c] =
            [Request(op, pc, UserBySession(jar[BrowserOf[c]]), None) EXCEPT !.place = p]]
     ELSE Refuse(c)
  /\ UNCHANGED <<now, store, jar, tab>>

\* CreatePlace counts under no lock, then inserts.
CountPlaces(c) ==
  /\ At(c, "count")
  /\ IF Room(call[c].user) > 0 THEN Goto(c, "save") ELSE Refuse(c)
  /\ UNCHANGED <<now, store, jar, tab>>

\* Its id is a random UUID, which no request under way has named.
CreatePlace(c) ==
  /\ At(c, "save")
  /\ \E p \in Places :
       /\ place[p] = NoPlace
       /\ \A d \in Calls : p # call[d].place /\ p \notin call[d].ids
       /\ place' = [place EXCEPT ![p] = [owner |-> call[c].user, device |-> None, version |-> 1]]
  /\ Refuse(c)
  /\ UNCHANGED <<now, account, session, issued, jar, tab>>

\* UpdatePlace reads the user's place, applies the fields sent and writes the
\* row back if it is still the user's.
GetPlace(c) ==
  /\ At(c, "get")
  /\ IF place[call[c].place].owner = call[c].user THEN Goto(c, "update") ELSE Refuse(c)
  /\ UNCHANGED <<now, store, jar, tab>>

\* The row is written back by its id alone.
UpdateById(c) ==
  /\ At(c, "update")
  /\ place' = IF place[call[c].place] = NoPlace THEN place
              ELSE [place EXCEPT ![call[c].place].version = 3 - @]
  /\ Refuse(c)
  /\ UNCHANGED <<now, account, session, issued, jar, tab>>

UpdatePlace(c) ==
  /\ At(c, "update")
  /\ LET p == call[c].place IN
     place' = IF place[p] # NoPlace /\ place[p].owner = call[c].user
              THEN [place EXCEPT ![p].version = 3 - @] ELSE place
  /\ Refuse(c)
  /\ UNCHANGED <<now, account, session, issued, jar, tab>>

DeletePlace(c) ==
  /\ At(c, "remove")
  /\ LET p == call[c].place IN
     place' = IF place[p].owner = call[c].user
              THEN [place EXCEPT ![p] = NoPlace] ELSE place
  /\ Refuse(c)
  /\ UNCHANGED <<now, account, session, issued, jar, tab>>

Tick ==
  /\ now < MaxTime
  /\ now' = now + 1
  /\ UNCHANGED <<store, jar, tab, call>>

Init ==
  /\ now = 0
  /\ account = {}
  /\ session = [t \in Tokens |-> NoSession]
  /\ issued = {}
  /\ place = [p \in Places |->
                IF \E b \in Browsers : p \in Range(Older[b])
                THEN [owner |-> None, device |-> CHOOSE b \in Browsers : p \in Range(Older[b]),
                      version |-> 1]
                ELSE NoPlace]
  /\ jar = [b \in Browsers |-> None]
  /\ tab = [c \in Calls |-> None]
  /\ call = [c \in Calls |-> NoCall]

Next ==
  \/ \E c \in Calls :
       \/ \E u \in Users : Register(c, u) \/ \E right \in BOOLEAN : Login(c, u, right)
       \/ CreateUser(c) \/ Prune(c) \/ InsertSession(c) \/ Revoke(c)
       \/ ReadClaim(c) \/ TakeClaim(c)
       \/ Logout(c) \/ DeleteSession(c) \/ Session(c) \/ Arrive(c) \/ Drop(c)
       \/ \E p \in Places : WritePlaces(c, "edit", "get", p) \/ WritePlaces(c, "remove", "remove", p)
       \/ WritePlaces(c, "save", "count", None)
       \/ CountPlaces(c) \/ CreatePlace(c) \/ GetPlace(c) \/ UpdatePlace(c) \/ DeletePlace(c)
  \/ Tick

Spec == Init /\ [][Next]_vars

\* --- Properties ------------------------------------------------------------------

\* A sign-in that answers has replaced the session the browser came with, and
\* a sign-out that answers has ended the one it came with: whatever ran in
\* other tabs, the old token no longer signs anyone in (auth/service.go:43-47).
OldSessionIsGone ==
  \A c \in Calls :
    /\ At(c, "answered") /\ call[c].op \in {"sign in", "sign out"} /\ call[c].cookie # None
    => UserBySession(call[c].cookie) = None

\* A session that has not expired ends only at a request that carried its
\* token: other sign-ins of the account and their pruning leave it alone.
SessionsEndByTheirHolder ==
  [][\A t \in Tokens : session[t] # NoSession /\ session[t].expires > now /\ session'[t] # session[t] =>
       \E c \in Calls : call[c].cookie = t /\ call[c].pc \in {"delete", "revoke"} /\ call'[c] # call[c]]_vars

\* An owned place is edited and deleted only by a request of the account that
\* owns it at that moment, though it may have changed hands since the request
\* read it; and it changes hands only to a sign-in on the device that saved it,
\* which chose it while nobody owned it and leaves the rest of it alone
\* (follow/service.go:113-115, follow_repository.go:157-158).
PlacesArePrivate ==
  [][\A p \in Places : place[p].owner # None /\ place'[p] # place[p] =>
       \E c \in Calls :
         /\ call'[c] # call[c]
         /\ \/ /\ call[c].pc \in {"update", "remove"} /\ call[c].user = place[p].owner
               /\ place'[p].owner \in {place[p].owner, None}
            \/ /\ At(c, "take") /\ p \in call[c].ids /\ place[p].device = BrowserOf[c]
               /\ place'[p] = [place[p] EXCEPT !.owner = call[c].user]]_vars

\* "ClaimDevicePlaces hands a device's ownerless (pre-accounts) saved places to a
\* user" (follow_repository.go:157-158): a place that has an owner passes to no
\* other account.  It does, to the later of two sign-ins on the device.
OwnedPlacesAreNotClaimed ==
  [][\A p \in Places : place[p].owner # None => place'[p].owner \in {place[p].owner, None}]_vars
=============================================================================
