----------------------------- MODULE MatchViews -----------------------------
(***************************************************************************)
(* What the screens of local services show of the rows of Matching, and to *)
(* whom.  Three implementations of the lazy timeouts must agree: Effective *)
(* (request.go), the WHERE clause of the providers' list and the row lock  *)
(* of every transaction.  A screen's queries are taken as one snapshot;    *)
(* prices, texts, distances and the dismissals of a list are left out.  A  *)
(* contact is the phone and the exact point, named by whose it is.         *)
(***************************************************************************)
EXTENDS MatchRefinement

\* EffectiveOffer: the offer's status as of now, given its request.
SelectedUntilTold(r, p, now) ==
    IF offer[r][p] = "pending" /\ Effective(req[r], now) \in ClosedStatus
    THEN "expired" ELSE offer[r][p]
EffectiveOffer(r, p, now) ==
    LET shown == Effective(req[r], now)
    IN  IF \/ offer[r][p] = "selected" /\ shown # "pending_confirmation"
           \/ offer[r][p] = "pending" /\ shown \in ClosedStatus
        THEN "expired" ELSE offer[r][p]

-----------------------------------------------------------------------------
(* The parties' screens.                                                   *)

\* view: the offers and the provider's contact are the customer's to see, the
\* customer's contact the matched provider's.
View(r, role) ==
    LET p == MatchedProvider(r)
        shown == Effective(req[r], clock)
        customer == role = "customer"
    IN  [ status |-> shown,
          selected |-> IF shown = "pending_confirmation" THEN req[r].sel ELSE None,
          offers |-> IF customer THEN {q \in Providers : offer[r][q] # "none"} ELSE {},
          contact |-> IF p = None THEN {} ELSE {IF customer THEN p ELSE CustomerOf[r]},
          refund |-> /\ customer /\ p # None
                     /\ Charged(match[r][p]) /\ match[r][p].status = "active"
                     /\ shown = "matched" /\ ~match[r][p].travelled
                     /\ clock < match[r][p].at + RefundGrace ]

Hidden == [status |-> "not found", selected |-> None, offers |-> {},
           contact |-> {}, refund |-> FALSE]

GetRequest(u, r) ==
    IF Exists(r) /\ RoleOf(u, r) # "none" THEN View(r, RoleOf(u, r)) ELSE Hidden

\* MyRequests: a closed request comes without its offers and its match.
MyRequests(u) ==
    [r \in {x \in Requests : Exists(x) /\ CustomerOf[x] = u} |->
        IF Effective(req[r], clock) \in ClosedStatus
        THEN [Hidden EXCEPT !.status = Effective(req[r], clock)]
        ELSE GetRequest(u, r)]

\* MyJobs: every match the provider ever had, without the customer's contact
\* once it is cancelled.
ContactOfEveryJob(m, u) == {u}
ContactOfJob(m, u) == IF m.status = "cancelled" THEN {} ELSE {u}

MyJobs(p) ==
    [r \in {x \in Requests : match[x][p].status # "none"} |->
        [match |-> match[r][p].status,
         status |-> Effective(req[r], clock),
         contact |-> ContactOfJob(match[r][p], CustomerOf[r])]]

-----------------------------------------------------------------------------
(* Before a match.                                                         *)

\* OpenRequestsNear: the rule of Effective once more, in SQL.
TakesOffersRow(row, now) == row.status \in OfferTaking /\ row.expires > now

OpenRequestsNear(p, now) ==
    {r \in prov[p].covers : TakesOffersRow(req[r], now) /\ CustomerOf[r] # p}

NearbyRequests(p) ==
    IF prov[p].exists /\ CanWork(p) THEN OpenRequestsNear(p, clock) ELSE {}

\* MyOffers: the deadline is shown with the provider's own selection only.
MyOffers(p) ==
    [r \in {x \in Requests : offer[x][p] # "none"} |->
        LET shown == EffectiveOffer(r, p, clock)
        IN  [offer |-> shown,
             deadline |-> IF shown = "selected" THEN req[r].selUntil ELSE 0]]

\* Summary: the numbers on the provider's own page.
Summary(p) ==
    [ nearby |-> Cardinality(NearbyRequests(p)),
      pending |-> Cardinality({r \in DOMAIN MyOffers(p) :
                      MyOffers(p)[r].offer \in {"pending", "selected"}}),
      active |-> Cardinality({r \in DOMAIN MyJobs(p) : MyJobs(p)[r].match = "active"}),
      completed |-> Cardinality({r \in DOMAIN MyJobs(p) :
                        MyJobs(p)[r].match = "completed"}) ]

-----------------------------------------------------------------------------

\* Every contact a user reads about a request, on whichever screen.
ContactShown(u, r) ==
    GetRequest(u, r).contact
    \cup (IF r \in DOMAIN MyRequests(u) THEN MyRequests(u)[r].contact ELSE {})
    \cup (IF u \in Providers /\ r \in DOMAIN MyJobs(u)
          THEN MyJobs(u)[r].contact ELSE {})

\* A phone and an exact place are given to the two parties of a running or
\* completed job, to both of them and to nobody else, however the job was
\* reached and whoever backed out of it before.
ContactNeedsMatch ==
    \A r \in Requests : \A p \in Providers \ {CustomerOf[r]} :
        LET reached == CustomerOf[r] \in ContactShown(p, r)
        IN  /\ reached <=> p \in ContactShown(CustomerOf[r], r)
            /\ reached => /\ Effective(req[r], clock) \in JobStatus \cup {"completed"}
                          /\ offer[r][p] = "accepted"
                          /\ \A q \in Providers \ {p, CustomerOf[r]} :
                                 CustomerOf[r] \notin ContactShown(q, r)

\* What a screen offers, a transaction begun now does not refuse as outdated:
\* both parties see the same selection and it can be accepted, a listed request
\* takes the provider's offer, an active job can be moved on by its provider
\* and the refund the customer is shown is given.
ShownIsDoable ==
    \A r \in Requests : \A p \in Providers :
        LET row == Locked(r, clock)
            mine == LockedOffers(r, clock)[p]
            shown == EffectiveOffer(r, p, clock)
        IN  /\ (shown = "selected") <=> (AwaitsConfirmation(row, p) /\ mine = "selected")
            /\ (shown = "selected") <=> (GetRequest(CustomerOf[r], r).selected = p)
            /\ r \in OpenRequestsNear(p, clock) <=>
                   row.status \in OfferTaking /\ CustomerOf[r] # p /\ r \in prov[p].covers
            /\ r \in NearbyRequests(p) /\ shown \in {"none", "pending"} => Editable(mine)
            /\ r \in OpenRequests(CustomerOf[r], clock) <=>
                   Exists(r) /\ MyRequests(CustomerOf[r])[r].status \notin ClosedStatus
            /\ match[r][p].status = "active" =>
                   RoleOf(p, r) = "provider" /\ row.status \in JobStatus
            /\ GetRequest(CustomerOf[r], r).refund /\ MatchedProvider(r) = p =>
                   RefundEligible(match[r][p], row.status, "customer", clock)
=============================================================================
