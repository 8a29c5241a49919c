------------------------------ MODULE Matching ------------------------------
(***************************************************************************)
(* Local services: how a customer's service request, the providers' offers *)
(* on it and the match they agree on move through the API, and how the     *)
(* match fee moves through the provider's credit ledger.                   *)
(*                                                                         *)
(* A service call first reads and decides without a lock (the Begin, Load  *)
(* and Decide actions, application/localservice/service.go) and then runs  *)
(* one database transaction under the request's row lock (the Commit       *)
(* actions, postgres/localservice_repository.go).  Everything it decided   *)
(* before the transaction is carried in call[s] and may be stale by then.  *)
(*                                                                         *)
(* UNIQUE (request_id, provider_id) on offers and UNIQUE (offer_id) on     *)
(* matches let the pair of a request and a provider name both.             *)
(*                                                                         *)
(* An operator that stands right before another with the same parameters   *)
(* and is used nowhere is a mistake the code could have made; PROJECT.json *)
(* names the property that it would break ("mutants").                     *)
(***************************************************************************)
EXTENDS Integers, Sequences, FiniteSets, Ledger

CONSTANTS
    Users,           \* signed-in users
    Providers,       \* the users who may open a provider profile
    Requests,        \* service requests, one per (customer, client_id)
    CustomerOf,      \* the customer of each request
    Sessions,        \* concurrent API calls
    Policies,        \* BillingPolicy values a deployment may run with
    Coverages,       \* the requests a profile's categories and radius cover
    Availabilities,  \* the settings of "available for jobs" providers use
    Suspendable,     \* the providers an operator may suspend
    ConfirmTimeout,  \* how long a selected provider has to accept
    RequestTTL,      \* how long a request takes offers
    RefundGrace,     \* how long after the match a cancel still refunds
    MaxOpen,         \* MaxOpenRequestsPerCustomer
    Adjustments,     \* amounts an operator posts
    MaxRows,         \* bound: no adjustment beyond this many ledger rows
    MaxTime,         \* bound: the clock stops here
    None

ASSUME ProvidersAreUsers == Providers \subseteq Users
ASSUME CustomersAreUsers == CustomerOf \in [Requests -> Users]
ASSUME PoliciesAreBilling ==
    Policies \subseteq [credit : BOOLEAN, fee : Nat, welcome : Nat]
ASSUME CoveragesCoverRequests == Coverages \subseteq SUBSET Requests
ASSUME ProfilesAreProviders ==
    Availabilities \subseteq BOOLEAN /\ Suspendable \subseteq Providers
ASSUME DurationsAreNat ==
    /\ ConfirmTimeout \in Nat \ {0}
    /\ RequestTTL \in Nat \ {0}
    /\ RefundGrace \in Nat
ASSUME AdjustmentsAreInt == Adjustments \subseteq Int \ {0}
ASSUME BoundsAreNat == MaxOpen \in Nat /\ MaxRows \in Nat /\ MaxTime \in Nat
ASSUME NoneIsNoProvider == None \notin Users /\ None \notin Requests

VARIABLES
    clock,     \* s.clock.Now()
    policy,    \* the BillingPolicy of the running deployment
    prov,      \* service_providers
    balance,   \* service_providers.credit_balance, the cached ledger sum
    ledger,    \* provider_credit_transactions, per provider
    req,       \* service_requests
    offer,     \* service_offers.status, per request and provider
    match,     \* service_matches, per request and provider
    timeline,  \* the status of each request's newest service_request_events row
    call       \* the API calls under way

wallet == <<balance, ledger>>
rows == <<req, offer, match, timeline>>
vars == <<clock, policy, prov, balance, ledger, req, offer, match, timeline,
          call>>

-----------------------------------------------------------------------------
(* Domain rules: domain/localservice/request.go and wallet.go.             *)

JobStatus == {"matched", "on_the_way", "arrived"}
ClosedStatus == {"completed", "cancelled", "expired"}
OfferTaking == {"open", "pending_confirmation"}
Status == JobStatus \cup ClosedStatus \cup OfferTaking
OfferStatus == {"none", "pending", "selected", "accepted", "rejected", "expired"}
Role == {"customer", "provider", "system"}

SelectionTimedOutLate(row, now) ==
    row.status = "pending_confirmation" /\ now >= row.expires

SelectionTimedOut(row, now) ==
    row.status = "pending_confirmation" /\ now >= row.selUntil

\* Request.Effective: the status as of now; stored rows catch up lazily.
Effective(row, now) ==
    CASE row.status \in OfferTaking /\ now >= row.expires -> "expired"
      [] OTHER -> IF SelectionTimedOut(row, now) THEN "open" ELSE row.status

\* jobTransitions: the post-match moves and who may make them.
JobMoves ==
    { <<"matched", "on_the_way", "provider">>,
      <<"on_the_way", "arrived", "provider">>,
      <<"arrived", "completed", "provider">>,
      <<"arrived", "completed", "customer">> }

CanTransition(from, to, role) == <<from, to, role>> \in JobMoves

CanCancel(status, role) ==
    \/ role = "customer" /\ status \notin ClosedStatus
    \/ role = "provider" /\ status \in {"matched", "on_the_way"}

Charges(pol) == pol.credit /\ pol.fee > 0

Charged(m) == ~m.waived /\ m.fee > 0

RefundEligible(m, status, role, now) ==
    /\ role = "customer"
    /\ m.status = "active"
    /\ Charged(m)
    /\ status = "matched"
    /\ ~m.travelled
    /\ now - m.at <= RefundGrace

\* What the match row becomes when the job moves on, and when a cancel ends it.
NeverCompletes(m, to) ==
    IF m.status = "active" /\ to = "on_the_way"
    THEN [m EXCEPT !.travelled = TRUE] ELSE m

MovedOn(m, to) ==
    CASE m.status = "active" /\ to = "on_the_way" -> [m EXCEPT !.travelled = TRUE]
      [] m.status = "active" /\ to = "completed" -> [m EXCEPT !.status = "completed"]
      [] OTHER -> m

CancelledBy(m, role) ==
    IF m.status = "active"
    THEN [m EXCEPT !.status = "cancelled", !.by = role] ELSE m

CanWork(p) == prov[p].active /\ prov[p].available

-----------------------------------------------------------------------------
(* Rows.                                                                   *)

NoProvider == [exists |-> FALSE, active |-> FALSE, available |-> FALSE,
               covers |-> {}]
NoRequest == [status |-> "absent", sel |-> None, selUntil |-> 0, expires |-> 0]
NoMatch == [status |-> "none", fee |-> 0, waived |-> FALSE, by |-> "nobody",
            travelled |-> FALSE, at |-> 0]
Idle == [op |-> "idle"]

StoredRows ==
    [status : Status, sel : Providers \cup {None}, selUntil : Nat, expires : Nat]
RequestRows == StoredRows \cup {NoRequest}
MatchRows ==
    [status : {"none", "active", "completed", "cancelled"}, fee : Nat,
     waived : BOOLEAN, by : {"customer", "provider", "nobody"},
     travelled : BOOLEAN, at : Nat]
Calls ==
    {Idle}
    \cup [op : {"create"}, req : Requests, now : Nat]
    \cup [op : {"offer", "select", "reject"}, req : Requests,
          prov : Providers, now : Nat]
    \cup [op : {"accept"}, req : Requests, prov : Providers, fee : Nat,
          charge : BOOLEAN, now : Nat]
    \cup [op : {"load"}, req : Requests, user : Users, seen : StoredRows,
          want : {"cancel", "on_the_way", "arrived", "completed"}]
    \cup [op : {"update"}, req : Requests, user : Users, from : Status,
          to : Status, role : Role, now : Nat]
    \cup [op : {"cancel"}, req : Requests, user : Users, from : Status,
          role : Role, now : Nat, until : Nat, refund : Providers \cup {None}]

Exists(r) == req[r].status # "absent"

\* CurrentMatch as roleOf uses it: the provider of the active match, else of
\* the completed one; cancelled matches are history.
MatchedBy(r, status) == {p \in Providers : match[r][p].status = status}
MatchedProvider(r) ==
    CASE MatchedBy(r, "active") # {} -> CHOOSE p \in MatchedBy(r, "active") : TRUE
      [] MatchedBy(r, "active") = {} /\ MatchedBy(r, "completed") # {} ->
             CHOOSE p \in MatchedBy(r, "completed") : TRUE
      [] OTHER -> None

RoleOf(u, r) ==
    CASE CustomerOf[r] = u -> "customer"
      [] CustomerOf[r] # u /\ MatchedProvider(r) = u -> "provider"
      [] OTHER -> "none"

\* CountOpenRequests: a customer's requests that still hold a slot.
OpenRequests(u, now) ==
    {r \in Requests :
        /\ CustomerOf[r] = u
        /\ \/ req[r].status \in OfferTaking /\ req[r].expires > now
           \/ req[r].status \in JobStatus}

-----------------------------------------------------------------------------
(* lockRequest: every transaction but TransitionJob locks the request row  *)
(* and first brings it up to date as of the call's own now.                *)

Stale(r, now) == Effective(req[r], now) # req[r].status

Locked(r, now) ==
    IF Stale(r, now)
    THEN [req[r] EXCEPT !.status = Effective(req[r], now),
                        !.sel = None, !.selUntil = 0]
    ELSE req[r]

ForgetSelection(offs, p) == offs

\* UPDATE service_offers SET status = 'expired' WHERE id = p's AND 'selected'.
ExpireSelection(offs, p) ==
    [q \in Providers |->
        IF q = p /\ offs[q] = "selected" THEN "expired" ELSE offs[q]]

LockedOffers(r, now) ==
    IF Stale(r, now) THEN ExpireSelection(offer[r], req[r].sel) ELSE offer[r]

UnrecordedEvent(r, now) == timeline[r]

LockedEvent(r, now) ==
    IF Stale(r, now)
    THEN Effective(req[r], now) ELSE timeline[r]

Store(r, row, offs, event) ==
    /\ req' = [req EXCEPT ![r] = row]
    /\ offer' = [offer EXCEPT ![r] = offs]
    /\ timeline' = [timeline EXCEPT ![r] = event]

\* The checks a transaction repeats under the lock.
AnyStatus(row, from) == TRUE
StillAt(row, from) == row.status = from

AwaitsConfirmation(row, p) == row.status = "pending_confirmation" /\ row.sel = p

AnyOffer(status) == TRUE
Editable(status) == status \in {"none", "pending"}

CanPay(c) == ~(c.charge /\ balance[c.prov] < c.fee)

EvenIfWaived(c) == c.fee > 0
FeeDue(c) == c.charge /\ c.fee > 0

\* The offers of providers who backed out cannot be chosen again.
Withdrawn(offs, gone) ==
    [p \in Providers |-> IF p \in gone THEN "rejected" ELSE offs[p]]

\* A refused transaction still commits the normalization.
Refuse(r, now) ==
    /\ Store(r, Locked(r, now), LockedOffers(r, now), LockedEvent(r, now))
    /\ UNCHANGED <<match, wallet>>

\* A transaction that rolls back.
Rollback == UNCHANGED <<rows, wallet>>

Post(p, e) ==
    /\ ledger' = [ledger EXCEPT ![p] = Posted(@, balance[p], e)]
    /\ balance' = [balance EXCEPT ![p] = PostedBalance(ledger[p], @, e)]

Enter(s, c) == call[s] = Idle /\ call' = [call EXCEPT ![s] = c]
Return(s) == call' = [call EXCEPT ![s] = Idle]

Reading == UNCHANGED <<clock, policy, prov, wallet, rows>>
Writing == UNCHANGED <<clock, policy, prov>>

-----------------------------------------------------------------------------
(* Provider profile and operator.                                          *)

\* SaveProvider without a profile yet: the row and the welcome credit in one
\* transaction.  UNIQUE (owner_user_id) makes a concurrent second one fail.
CreateProvider(p, covers, available) ==
    /\ ~prov[p].exists
    /\ prov' = [prov EXCEPT ![p] = [exists |-> TRUE, active |-> TRUE,
                                    available |-> available, covers |-> covers]]
    /\ IF policy.credit /\ policy.welcome > 0
       THEN Post(p, Entry("welcome_credit", None, policy.welcome))
       ELSE UNCHANGED wallet
    /\ UNCHANGED <<clock, policy, rows, call>>

\* SaveProvider over an existing profile, and SetAvailability: status and
\* balance are never set from here.
UpdateProvider(p, covers, available) ==
    /\ prov[p].exists
    /\ <<covers, available>> # <<prov[p].covers, prov[p].available>>
    /\ prov' = [prov EXCEPT ![p].covers = covers, ![p].available = available]
    /\ UNCHANGED <<clock, policy, wallet, rows, call>>

AdminSetStatus(p) ==
    /\ prov[p].exists
    /\ prov' = [prov EXCEPT ![p].active = ~@]
    /\ UNCHANGED <<clock, policy, wallet, rows, call>>

\* AdjustmentKey is a fresh uuid, so nothing deduplicates it.
AdminAdjust(p, amount) ==
    /\ prov[p].exists
    /\ balance[p] + amount >= 0
    /\ Len(ledger[p]) < MaxRows
    /\ ledger' = [ledger EXCEPT ![p] =
           Append(@, [key |-> Key("admin_adjustment", None), amount |-> amount,
                      after |-> balance[p] + amount])]
    /\ balance' = [balance EXCEPT ![p] = @ + amount]
    /\ UNCHANGED <<clock, policy, prov, rows, call>>

-----------------------------------------------------------------------------
(* CreateRequest: count, then insert.                                      *)

BeginCreate(s, r) ==
    /\ ~Exists(r)
    /\ Cardinality(OpenRequests(CustomerOf[r], clock)) < MaxOpen
    /\ Enter(s, [op |-> "create", req |-> r, now |-> clock])
    /\ Reading

\* UNIQUE (customer_user_id, client_id): a concurrent retry inserts nothing.
CommitCreate(s) ==
    LET c == call[s]
    IN  /\ c.op = "create"
        /\ \/ /\ ~Exists(c.req)
              /\ Store(c.req,
                       [status |-> "open", sel |-> None, selUntil |-> 0,
                        expires |-> c.now + RequestTTL],
                       offer[c.req],
                       "open")
              /\ UNCHANGED <<match, wallet>>
           \/ Exists(c.req) /\ Rollback
        /\ Return(s)
        /\ Writing

(* SendOffer: a new offer, or an edit of the provider's pending one.       *)

BeginOffer(s, p, r) ==
    /\ prov[p].exists /\ CanWork(p)
    /\ Exists(r) /\ CustomerOf[r] # p /\ r \in prov[p].covers
    /\ Effective(req[r], clock) \in OfferTaking
    /\ Enter(s, [op |-> "offer", req |-> r, prov |-> p, now |-> clock])
    /\ Reading

CommitOffer(s) ==
    LET c == call[s]
        row == Locked(c.req, c.now)
        offs == LockedOffers(c.req, c.now)
    IN  /\ c.op = "offer"
        /\ \/ /\ row.status \in OfferTaking
              /\ Editable(offs[c.prov])
              /\ Store(c.req, row, [offs EXCEPT ![c.prov] = "pending"],
                       LockedEvent(c.req, c.now))
              /\ UNCHANGED <<match, wallet>>
           \/ row.status \in OfferTaking /\ ~Editable(offs[c.prov]) /\ Rollback
           \/ row.status \notin OfferTaking /\ Refuse(c.req, c.now)
        /\ Return(s)
        /\ Writing

(* SelectOffer: the customer asks one provider to confirm.                 *)

BeginSelect(s, p, r) ==
    /\ Exists(r)
    /\ Effective(req[r], clock) = "open"
    /\ offer[r][p] = "pending"
    /\ prov[p].active
    /\ Enter(s, [op |-> "select", req |-> r, prov |-> p, now |-> clock])
    /\ Reading

CommitSelect(s) ==
    LET c == call[s]
        row == Locked(c.req, c.now)
        offs == LockedOffers(c.req, c.now)
        choosable == row.status = "open" /\ offs[c.prov] = "pending"
    IN  /\ c.op = "select"
        /\ \/ /\ choosable
              /\ Store(c.req,
                       [row EXCEPT !.status = "pending_confirmation",
                                   !.sel = c.prov,
                                   !.selUntil = c.now + ConfirmTimeout],
                       [offs EXCEPT ![c.prov] = "selected"],
                       "pending_confirmation")
              /\ UNCHANGED <<match, wallet>>
           \/ ~choosable /\ Refuse(c.req, c.now)
        /\ Return(s)
        /\ Writing

(* RejectOffer: the selected provider declines.                            *)

BeginReject(s, p, r) ==
    /\ prov[p].exists
    /\ offer[r][p] # "none"
    /\ Enter(s, [op |-> "reject", req |-> r, prov |-> p, now |-> clock])
    /\ Reading

CommitReject(s) ==
    LET c == call[s]
        row == Locked(c.req, c.now)
        offs == LockedOffers(c.req, c.now)
        theirs == AwaitsConfirmation(row, c.prov) /\ offs[c.prov] = "selected"
    IN  /\ c.op = "reject"
        /\ \/ /\ theirs
              /\ Store(c.req,
                       [row EXCEPT !.status = "open", !.sel = None, !.selUntil = 0],
                       [offs EXCEPT ![c.prov] = "rejected"],
                       "open")
              /\ UNCHANGED <<match, wallet>>
           \/ ~theirs /\ Refuse(c.req, c.now)
        /\ Return(s)
        /\ Writing

(* AcceptOffer: the match, its fee and the status in one transaction.      *)

BeginAccept(s, p, r) ==
    /\ prov[p].exists /\ prov[p].active
    /\ offer[r][p] # "none"
    /\ Enter(s, [op |-> "accept", req |-> r, prov |-> p, fee |-> policy.fee,
                 charge |-> Charges(policy), now |-> clock])
    /\ Reading

CommitAccept(s) ==
    LET c == call[s]
        p == c.prov
        row == Locked(c.req, c.now)
        repeated == match[c.req][p].status # "none"
        theirs == AwaitsConfirmation(row, p)
        able == prov[p].active /\ CanPay(c) /\ MatchedBy(c.req, "active") = {}
    IN  /\ c.op = "accept"
        /\ \/ (repeated \/ ~theirs) /\ Refuse(c.req, c.now)
           \/ ~repeated /\ theirs /\ ~able /\ Rollback
           \/ /\ ~repeated /\ theirs /\ able
              /\ match' = [match EXCEPT ![c.req][p] =
                     [status |-> "active", fee |-> c.fee, waived |-> ~c.charge,
                      by |-> "nobody", travelled |-> FALSE, at |-> c.now]]
              /\ IF FeeDue(c)
                 THEN Post(p, Entry("match_fee", c.req, -c.fee))
                 ELSE UNCHANGED wallet
              /\ Store(c.req,
                       [row EXCEPT !.status = "matched", !.sel = None, !.selUntil = 0],
                       [LockedOffers(c.req, c.now) EXCEPT ![p] = "accepted"],
                       "matched")
        /\ Return(s)
        /\ Writing

-----------------------------------------------------------------------------
(* UpdateStatus and Cancel: read the request, then the match and the clock *)
(* (roleOf), then run the transaction.                                     *)

(* A call that is refused for sure, whatever it reads next, is left out.    *)

MayAsk(u, r, want) ==
    LET role == IF CustomerOf[r] = u THEN "customer" ELSE "provider"
    IN  IF want = "cancel"
        THEN CanCancel(req[r].status, role)
        ELSE CanTransition(req[r].status, want, role)

Load(s, u, r, want) ==
    /\ Exists(r)
    /\ MayAsk(u, r, want)
    /\ Enter(s, [op |-> "load", req |-> r, user |-> u, seen |-> req[r],
                 want |-> want])
    /\ Reading

DecideUpdate(s) ==
    LET c == call[s]
        from == Effective(c.seen, clock)
        role == RoleOf(c.user, c.req)
    IN  /\ c.op = "load" /\ c.want # "cancel"
        /\ \/ /\ CanTransition(from, c.want, role)
              /\ call' = [call EXCEPT ![s] =
                     [op |-> "update", req |-> c.req, user |-> c.user,
                      from |-> from, to |-> c.want, role |-> role, now |-> clock]]
           \/ ~CanTransition(from, c.want, role) /\ Return(s)
        /\ Reading

\* TransitionJob: a compare-and-set on the status; it moves whichever match is
\* active, without asking whose it is.
CommitUpdate(s) ==
    LET c == call[s]
    IN  /\ c.op = "update"
        /\ \/ /\ StillAt(req[c.req], c.from)
              /\ Store(c.req, [req[c.req] EXCEPT !.status = c.to], offer[c.req],
                       c.to)
              /\ match' = [match EXCEPT ![c.req] =
                     [p \in Providers |-> MovedOn(match[c.req][p], c.to)]]
              /\ UNCHANGED wallet
           \/ ~StillAt(req[c.req], c.from) /\ Rollback
        /\ Return(s)
        /\ Writing

DecideCancel(s) ==
    LET c == call[s]
        from == Effective(c.seen, clock)
        role == RoleOf(c.user, c.req)
        p == MatchedProvider(c.req)
        refunds == p # None /\ RefundEligible(match[c.req][p], from, role, clock)
        extended == clock + RequestTTL
    IN  /\ c.op = "load" /\ c.want = "cancel"
        /\ \/ /\ CanCancel(from, role)
              /\ call' = [call EXCEPT ![s] =
                     [op |-> "cancel", req |-> c.req, user |-> c.user,
                      from |-> from, role |-> role, now |-> clock,
                      until |-> IF c.seen.expires < extended
                                THEN extended ELSE c.seen.expires,
                      refund |-> IF refunds THEN p ELSE None]]
           \/ ~CanCancel(from, role) /\ Return(s)
        /\ Reading

Refund(c) ==
    IF c.refund = None
    THEN UNCHANGED wallet
    ELSE Post(c.refund, Entry("refund", c.req, match[c.req][c.refund].fee))

CommitCancel(s) ==
    LET c == call[s]
        row == Locked(c.req, c.now)
        offs == ExpireSelection(LockedOffers(c.req, c.now), row.sel)
        backedOut == MatchedBy(c.req, "active")
        ended == [p \in Providers |-> CancelledBy(match[c.req][p], c.role)]
        cleared == [row EXCEPT !.sel = None, !.selUntil = 0]
    IN  /\ c.op = "cancel"
        /\ \/ ~StillAt(row, c.from) /\ Refuse(c.req, c.now)
           \/ StillAt(row, c.from) /\ c.role = "provider" /\ backedOut = {}
              /\ Rollback
           \/ /\ StillAt(row, c.from) /\ c.role = "provider" /\ backedOut # {}
              /\ match' = [match EXCEPT ![c.req] = ended]
              /\ Store(c.req,
                       [cleared EXCEPT !.status = "open", !.expires = c.until],
                       Withdrawn(offs, backedOut),
                       "open")
              /\ Refund(c)
           \/ /\ StillAt(row, c.from) /\ c.role = "customer"
              /\ match' = [match EXCEPT ![c.req] = ended]
              /\ Store(c.req, [cleared EXCEPT !.status = "cancelled"], offs,
                       "cancelled")
              /\ Refund(c)
        /\ Return(s)
        /\ Writing

-----------------------------------------------------------------------------
(* The environment.                                                        *)

\* The process dies, the client hangs up or the database refuses between the
\* decision and the transaction: nothing of the call happens.
Abort(s) ==
    /\ call[s] # Idle
    /\ Return(s)
    /\ Reading

\* A deployment with another billing policy; calls under way keep theirs.
Redeploy ==
    /\ policy' \in Policies \ {policy}
    /\ UNCHANGED <<clock, prov, wallet, rows, call>>

Tick ==
    /\ clock < MaxTime
    /\ clock' = clock + 1
    /\ UNCHANGED <<policy, prov, wallet, rows, call>>

-----------------------------------------------------------------------------

Init ==
    /\ clock = 0
    /\ policy \in Policies
    /\ prov = [p \in Providers |-> NoProvider]
    /\ balance = [p \in Providers |-> 0]
    /\ ledger = [p \in Providers |-> <<>>]
    /\ req = [r \in Requests |-> NoRequest]
    /\ offer = [r \in Requests |-> [p \in Providers |-> "none"]]
    /\ match = [r \in Requests |-> [p \in Providers |-> NoMatch]]
    /\ timeline = [r \in Requests |-> "absent"]
    /\ call = [s \in Sessions |-> Idle]

ProfileStep ==
    \E p \in Providers :
        \/ \E covers \in Coverages, available \in Availabilities :
               \/ CreateProvider(p, covers, available)
               \/ UpdateProvider(p, covers, available)
        \/ p \in Suspendable /\ AdminSetStatus(p)
        \/ \E amount \in Adjustments : AdminAdjust(p, amount)

Begin(s) ==
    \E r \in Requests :
        \/ BeginCreate(s, r)
        \/ \E p \in Providers :
               \/ BeginOffer(s, p, r)
               \/ BeginSelect(s, p, r)
               \/ BeginReject(s, p, r)
               \/ BeginAccept(s, p, r)
        \/ \E u \in Users :
               \E want \in {"cancel", "on_the_way", "arrived", "completed"} :
                   Load(s, u, r, want)

Decide(s) == DecideUpdate(s) \/ DecideCancel(s)

Commit(s) ==
    \/ CommitCreate(s)
    \/ CommitOffer(s)
    \/ CommitSelect(s)
    \/ CommitReject(s)
    \/ CommitAccept(s)
    \/ CommitUpdate(s)
    \/ CommitCancel(s)

Next ==
    \/ ProfileStep
    \/ \E s \in Sessions : Begin(s) \/ Decide(s) \/ Commit(s) \/ Abort(s)
    \/ Redeploy
    \/ Tick

Spec == Init /\ [][Next]_vars

\* Time passes.  Nothing obliges a customer or a provider to act.
FairSpec == Spec /\ WF_vars(Tick)

-----------------------------------------------------------------------------
(* Invariants.                                                             *)

\* Every variable has its type (the columns and their CHECKs).
TypeOK ==
    /\ clock \in Nat
    /\ policy \in Policies
    /\ prov \in [Providers -> [exists : BOOLEAN, active : BOOLEAN,
                               available : BOOLEAN, covers : SUBSET Requests]]
    /\ balance \in [Providers -> Nat]
    /\ ledger \in [Providers -> Seq(RowSet(Requests \cup {None}))]
    /\ req \in [Requests -> RequestRows]
    /\ offer \in [Requests -> [Providers -> OfferStatus]]
    /\ match \in [Requests -> [Providers -> MatchRows]]
    /\ timeline \in [Requests -> Status \cup {"absent"}]
    /\ call \in [Sessions -> Calls]

\* The request's status and its matches tell the same story although two
\* tables and stale calls move them: a job status has exactly one active match,
\* a completed request exactly one completed one, anything else neither
\* ("At most one match is active, and at most one completed", CurrentMatch).
MatchAgreesWithStatus ==
    \A r \in Requests :
        /\ \A p, q \in Providers :
               /\ match[r][p].status \in {"active", "completed"}
               /\ match[r][q].status \in {"active", "completed"}
               => p = q
        /\ req[r].status \in JobStatus
               <=> \E p \in Providers : match[r][p].status = "active"
        /\ req[r].status = "completed"
               <=> \E p \in Providers : match[r][p].status = "completed"

\* An offer is selected exactly while the request waits for that provider's
\* confirmation: no selection outlives a reject, a timeout, a cancel or a
\* second customer's choice, and no request waits for an offer nobody holds.
SelectionAgreesWithRequest ==
    \A r \in Requests :
        /\ req[r].status = "pending_confirmation" <=> req[r].sel # None
        /\ \A p \in Providers : offer[r][p] = "selected" <=> req[r].sel = p

\* A match and its offer: an accepted offer has a match, a match's offer is
\* accepted or (its provider backed out) rejected, so it is never offered,
\* chosen or accepted again.
MatchAgreesWithOffer ==
    \A r \in Requests, p \in Providers :
        /\ offer[r][p] = "accepted" =>
               \/ match[r][p].status \in {"active", "completed"}
               \/ match[r][p].status = "cancelled" /\ match[r][p].by = "customer"
        /\ match[r][p].status # "none" => offer[r][p] \in {"accepted", "rejected"}
        /\ match[r][p].by = "provider" => offer[r][p] = "rejected"

\* The cached balance is what the ledger adds up to, and neither was ever
\* negative, whatever order fees, refunds and adjustments commit in.
BalanceIsLedger == \A p \in Providers : Accounts(ledger[p], balance[p])

\* The match fee is deducted exactly once for each match that charges, never
\* for a waived one, an unconfirmed selection or a repeated accept.
FeeRows(r, p) == RowsWith(ledger[p], Key("match_fee", r))

FeeExactlyOnce ==
    \A r \in Requests, p \in Providers :
        /\ \A i \in FeeRows(r, p) : ledger[p][i].amount = -match[r][p].fee
        /\ \A i, j \in FeeRows(r, p) : i = j
        /\ FeeRows(r, p) # {}
               <=> match[r][p].status # "none" /\ Charged(match[r][p])

\* A refund gives back, once, exactly a fee that was taken, and only for a
\* match that is cancelled by then: a job under way or done is never refunded.
RefundRows(r, p) == RowsWith(ledger[p], Key("refund", r))

RefundsGiveBackFees ==
    \A r \in Requests, p \in Providers :
        /\ \A i, j \in RefundRows(r, p) : i = j
        /\ \A i \in RefundRows(r, p) :
               /\ match[r][p].status = "cancelled"
               /\ \E j \in FeeRows(r, p) :
                      j < i /\ ledger[p][i].amount = -ledger[p][j].amount

\* The newest row of the request's timeline is the status the request has,
\* lazy expiries and selection timeouts included.
TimelineAgreesWithStatus ==
    \A r \in Requests : timeline[r] = req[r].status

-----------------------------------------------------------------------------
(* What a step may never do.                                               *)

\* An offer only moves forward: once selected it cannot be edited, once
\* accepted, rejected or expired it never comes back to be chosen again.
OfferMoves ==
    { <<"none", "pending">>, <<"pending", "selected">>,
      <<"selected", "accepted">>, <<"selected", "rejected">>,
      <<"selected", "expired">>, <<"accepted", "rejected">> }

OffersOnlyMoveForward ==
    [][\A r \in Requests, p \in Providers :
           offer'[r][p] # offer[r][p]
               => <<offer[r][p], offer'[r][p]>> \in OfferMoves]_vars

\* A closed request stays closed, whatever calls were under way.
ClosedStaysClosed ==
    [][\A r \in Requests :
           req[r].status \in ClosedStatus => req'[r] = req[r]]_vars

\* Two parties agree to a match: it appears only on a request that waits for
\* this provider, with the customer's selection of this offer standing.
MatchNeedsBothParties ==
    [][\A r \in Requests, p \in Providers :
           match[r][p].status = "none" /\ match'[r][p].status # "none"
               => /\ req[r].status = "pending_confirmation"
                  /\ req[r].sel = p
                  /\ offer[r][p] = "selected"]_vars

-----------------------------------------------------------------------------
(* What the code's comments promise and the code does not keep.            *)

\* "A provider backing out ... is never refunded here" (request.go:312).
BackingOutIsNeverRefunded ==
    \A r \in Requests, p \in Providers :
        RefundRows(r, p) # {} => match[r][p].by # "provider"

-----------------------------------------------------------------------------
(* Liveness.                                                               *)

\* A selected provider who never answers does not hold the request: with time
\* alone it stops waiting, so the customer can choose somebody else.
NoAnswerFreesTheCustomer ==
    \A r \in Requests :
        req[r].status = "pending_confirmation" /\ req[r].selUntil <= MaxTime
            ~> Effective(req[r], clock) # "pending_confirmation"
=============================================================================
