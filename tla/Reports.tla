------------------------------ MODULE Reports ------------------------------
(***************************************************************************)
(* Flood reports: their freshness window, the votes of passers-by that     *)
(* resolve and reopen them, the complaints that hide them and the          *)
(* operator's decisions.                                                   *)
(*                                                                         *)
(* Votes and complaints are service calls (application/report/service.go,  *)
(* application/moderation/service.go) that read and decide without a lock  *)
(* and are applied later under the report's row lock, as of the now they   *)
(* began with.  A report's status is never stored, only its timestamps.    *)
(*                                                                         *)
(* As in Matching, an operator used nowhere that stands before another     *)
(* with the same parameters is a mistake the properties would catch.       *)
(***************************************************************************)
EXTENDS Integers, FiniteSets

CONSTANTS
    Reports,       \* one per client_id
    LongLived,     \* the reports of a long-lived category
    Devices,
    Complainers,   \* the devices that ever complain
    Images,        \* object keys of uploaded images
    Sessions,      \* concurrent API calls
    StaleAfter, TTL, FacilityStaleAfter, FacilityTTL, ResolveThreshold,
    AutoHideThreshold, MaxPerDevicePerHour, Hour,
    MaxTime,       \* bound of the clock
    None

ASSUME DevicesAreFinite == IsFiniteSet(Devices)
ASSUME SubsetsOfActors == LongLived \subseteq Reports /\ Complainers \subseteq Devices
ASSUME FreshnessIsValid ==
    /\ StaleAfter \in Nat \ {0} /\ FacilityStaleAfter \in Nat \ {0}
    /\ TTL \in Nat /\ FacilityTTL \in Nat
    /\ StaleAfter <= TTL /\ FacilityStaleAfter <= FacilityTTL
    /\ ResolveThreshold \in Nat \ {0}
ASSUME ModerationIsValid ==
    /\ AutoHideThreshold \in Nat \ {0, 1}
    /\ MaxPerDevicePerHour \in Nat \ {0}
    /\ Hour \in Nat
ASSUME TimeIsNat == MaxTime \in Nat
ASSUME NoneIsNothing ==
    None \notin Nat /\ None \notin Images /\ None \notin {"auto_threshold", "admin"}

VARIABLES
    report,      \* reports
    vote,        \* report_confirmations: each device's latest vote on a report
    complaint,   \* moderation_reports: each device's complaint about a report
    told,        \* report_events: the entries last inserted on resolution and visibility
    call,        \* the API calls under way
    clock

rows == <<report, vote, complaint, told>>
vars == <<rows, call, clock>>

-----------------------------------------------------------------------------
(* Domain rules: domain/report/lifecycle.go, domain/moderation.            *)

Votes == {"still_active", "cleared"}
Actions == {"dismiss", "hide", "unhide"}

Window(r, verifiedAt) ==
    IF r \in LongLived
    THEN [stale |-> verifiedAt + FacilityStaleAfter, expires |-> verifiedAt + FacilityTTL]
    ELSE [stale |-> verifiedAt + StaleAfter, expires |-> verifiedAt + TTL]

NextResolvedAtAnyMajority(current, stillActive, cleared, now) ==
    IF cleared > stillActive THEN (IF current # None THEN current ELSE now) ELSE None

NextResolvedAt(current, stillActive, cleared, now) ==
    CASE cleared < ResolveThreshold \/ cleared <= stillActive -> None
      [] cleared >= ResolveThreshold /\ cleared > stillActive /\ current # None -> current
      [] OTHER -> now

OnlyResolutions(before, after, event) ==
    IF before = None /\ after # None THEN "resolved" ELSE event

ResolutionEvent(before, after, event) ==
    CASE before = None /\ after # None -> "resolved"
      [] before # None /\ after = None -> "reopened"
      [] OTHER -> event

MoreThanThreshold(pending) == pending > AutoHideThreshold
ShouldAutoHide(pending) == pending >= AutoHideThreshold

Outcome(action) ==
    [hide |-> action = "hide",
     status |-> IF action = "dismiss" THEN "dismissed" ELSE "resolved"]

-----------------------------------------------------------------------------
(* Rows.                                                                   *)

NoReport ==
    [exists |-> FALSE, verified |-> 0, stale |-> 0, expires |-> 0,
     resolved |-> None, hidden |-> None, image |-> None]
NoComplaint == [status |-> "none", at |-> 0]
Untold == [resolution |-> "none", visibility |-> "none"]
Idle == [op |-> "idle"]

ReportRows ==
    [exists : BOOLEAN, verified : Nat, stale : Nat, expires : Nat,
     resolved : Nat \cup {None}, hidden : {None, "auto_threshold", "admin"},
     image : Images \cup {None}]

ComplaintRows == [status : {"none", "pending", "resolved", "dismissed"}, at : Nat]

Calls ==
    {Idle}
    \cup [op : {"confirm"}, req : Reports, device : Devices, status : Votes,
          now : Nat, image : Images \cup {None}]
    \cup [op : {"complaining"}, req : Reports, device : Devices]
    \cup [op : {"complain"}, req : Reports, device : Devices, now : Nat]

\* What Get answers: reports hidden by moderation are not found.
Shown(r) == report[r].exists /\ report[r].hidden = None

Count(votes, status) == Cardinality({d \in Devices : votes[d] = status})

Pending(complaints) ==
    Cardinality({d \in Devices : complaints[d].status = "pending"})

\* The complaints a device filed since then, about any report.
FiledSince(d, since) ==
    {r \in Reports : complaint[r][d].status # "none" /\ complaint[r][d].at >= since}

Enter(s, c) == call[s] = Idle /\ call' = [call EXCEPT ![s] = c]
Return(s) == call' = [call EXCEPT ![s] = Idle]

-----------------------------------------------------------------------------
(* Create: one insert with its event; a client_id that exists returns the  *)
(* report it made.                                                         *)

Create(r, image) ==
    LET w == Window(r, clock)
    IN  /\ ~report[r].exists
        /\ report' = [report EXCEPT ![r] =
               [exists |-> TRUE, verified |-> clock, stale |-> w.stale,
                expires |-> w.expires, resolved |-> None, hidden |-> None,
                image |-> image]]
        /\ told' = [told EXCEPT ![r] = [resolution |-> "created", visibility |-> "created"]]
        /\ UNCHANGED <<vote, complaint, call, clock>>

-----------------------------------------------------------------------------
(* Confirm: the clock is read first, the report after it, and the vote is  *)
(* applied when the row lock is had.                                       *)

BeginConfirm(s, d, r, status, now, image) ==
    /\ now <= clock
    /\ Shown(r)
    /\ image # None => status = "still_active"
    /\ Enter(s, [op |-> "confirm", req |-> r, device |-> d, status |-> status,
                 now |-> now, image |-> image])
    /\ UNCHANGED <<rows, clock>>

\* A still_active vote restarts the window and may bring a new image.
Refreshed(row, c) ==
    LET w == Window(c.req, c.now)
    IN  IF c.status = "still_active"
        THEN [row EXCEPT !.verified = c.now, !.stale = w.stale, !.expires = w.expires,
                         !.image = IF c.image # None THEN c.image ELSE row.image]
        ELSE row

Confirmed(c) ==
    LET row == report[c.req]
        cast == [vote[c.req] EXCEPT ![c.device] = c.status]
        resolved == NextResolvedAt(row.resolved, Count(cast, "still_active"),
                                   Count(cast, "cleared"), c.now)
    IN  /\ vote' = [vote EXCEPT ![c.req] = cast]
        /\ report' = [report EXCEPT ![c.req] = [Refreshed(row, c) EXCEPT !.resolved = resolved]]
        /\ told' = [told EXCEPT ![c.req].resolution =
                        ResolutionEvent(row.resolved, resolved, @)]

CommitConfirm(s) ==
    /\ call[s].op = "confirm"
    /\ Confirmed(call[s])
    /\ Return(s)
    /\ UNCHANGED <<complaint, clock>>

-----------------------------------------------------------------------------
(* Report a problem: is the report shown, has the device filed too many,   *)
(* then insert and apply the threshold under the row lock.                 *)

BeginComplaint(s, d, r) ==
    /\ Shown(r)
    /\ Enter(s, [op |-> "complaining", req |-> r, device |-> d])
    /\ UNCHANGED <<rows, clock>>

DecideComplaint(s) ==
    LET c == call[s]
        few == Cardinality(FiledSince(c.device, clock - Hour)) < MaxPerDevicePerHour
    IN  /\ c.op = "complaining"
        /\ \/ /\ few
              /\ call' = [call EXCEPT ![s] =
                     [op |-> "complain", req |-> c.req, device |-> c.device, now |-> clock]]
           \/ ~few /\ Return(s)
        /\ UNCHANGED <<rows, clock>>

FiledAgain(complaints, c) ==
    [complaints EXCEPT ![c.device] = [status |-> "pending", at |-> c.now]]

\* ON CONFLICT DO NOTHING.
Filed(complaints, c) ==
    IF complaints[c.device].status = "none"
    THEN [complaints EXCEPT ![c.device] = [status |-> "pending", at |-> c.now]]
    ELSE complaints

CommitComplaint(s) ==
    LET c == call[s]
        filed == Filed(complaint[c.req], c)
        hides == report[c.req].hidden = None /\ ShouldAutoHide(Pending(filed))
    IN  /\ c.op = "complain"
        /\ complaint' = [complaint EXCEPT ![c.req] = filed]
        /\ \/ /\ hides
              /\ report' = [report EXCEPT ![c.req].hidden = "auto_threshold"]
              /\ told' = [told EXCEPT ![c.req].visibility = "hidden"]
           \/ ~hides /\ UNCHANGED <<report, told>>
        /\ Return(s)
        /\ UNCHANGED <<vote, clock>>

-----------------------------------------------------------------------------
(* An operator's decision: everything is read under the row lock.          *)

Answered(complaints, status) ==
    [d \in Devices |->
        IF complaints[d].status = "pending"
        THEN [complaints[d] EXCEPT !.status = status]
        ELSE complaints[d]]

Apply(r, action) ==
    LET out == Outcome(action)
        turns == out.hide # (report[r].hidden # None)
    IN  /\ report[r].exists
        /\ \/ /\ turns
              /\ report' = [report EXCEPT ![r].hidden = IF out.hide THEN "admin" ELSE None]
              /\ told' = [told EXCEPT ![r].visibility =
                              IF out.hide THEN "hidden" ELSE "unhidden"]
           \/ ~turns /\ UNCHANGED <<report, told>>
        /\ complaint' = [complaint EXCEPT ![r] = Answered(complaint[r], out.status)]
        /\ UNCHANGED <<vote, call, clock>>

-----------------------------------------------------------------------------

\* The process dies, the client hangs up or the database refuses.
Abort(s) ==
    /\ call[s] # Idle
    /\ Return(s)
    /\ UNCHANGED <<rows, clock>>

Tick ==
    /\ clock < MaxTime
    /\ clock' = clock + 1
    /\ UNCHANGED <<rows, call>>

Init ==
    /\ report = [r \in Reports |-> NoReport]
    /\ vote = [r \in Reports |-> [d \in Devices |-> "none"]]
    /\ complaint = [r \in Reports |-> [d \in Devices |-> NoComplaint]]
    /\ told = [r \in Reports |-> Untold]
    /\ call = [s \in Sessions |-> Idle]
    /\ clock = 0

Vote(s) ==
    \E d \in Devices, r \in Reports, status \in Votes, now \in 0..MaxTime,
       image \in Images \cup {None} :
        BeginConfirm(s, d, r, status, now, image)

Step(s) ==
    \/ Vote(s)
    \/ CommitConfirm(s)
    \/ \E d \in Complainers, r \in Reports : BeginComplaint(s, d, r)
    \/ DecideComplaint(s)
    \/ CommitComplaint(s)
    \/ Abort(s)

Next ==
    \/ \E r \in Reports, image \in Images \cup {None} : Create(r, image)
    \/ \E s \in Sessions : Step(s)
    \/ \E r \in Reports, action \in Actions : Apply(r, action)
    \/ Tick

Spec == Init /\ [][Next]_vars

-----------------------------------------------------------------------------
(* Invariants.                                                             *)

\* Every variable has its type, a window never ends before it goes stale, and
\* what does not exist has neither votes nor complaints.
TypeOK ==
    /\ report \in [Reports -> ReportRows]
    /\ vote \in [Reports -> [Devices -> Votes \cup {"none"}]]
    /\ complaint \in [Reports -> [Devices -> ComplaintRows]]
    /\ told \in [Reports -> [resolution : {"none", "created", "resolved", "reopened"},
                             visibility : {"none", "created", "hidden", "unhidden"}]]
    /\ call \in [Sessions -> Calls]
    /\ clock \in 0..MaxTime
    /\ \A r \in Reports : report[r].stale <= report[r].expires
    /\ \A r \in Reports : ~report[r].exists =>
           /\ report[r] = NoReport
           /\ vote[r] = [d \in Devices |-> "none"]
           /\ complaint[r] = [d \in Devices |-> NoComplaint]

\* "One anonymous tap can't hide a report from everyone" (lifecycle.go:62): a
\* report is resolved exactly while enough devices say so and they outnumber
\* the others, in whatever order votes and changes of mind commit.
ResolvedByVotes ==
    \A r \in Reports :
        report[r].resolved # None <=>
            /\ Count(vote[r], "cleared") >= ResolveThreshold
            /\ Count(vote[r], "cleared") > Count(vote[r], "still_active")

\* A report that is shown has fewer pending complaints than hide it, also
\* after an operator showed it again and late complaints came in.
ShownBelowThreshold ==
    \A r \in Reports : Shown(r) => Pending(complaint[r]) < AutoHideThreshold

\* The entries inserted last in a report's history, which notifications are
\* made from, tell its state: resolved or not, hidden or not.
HistoryTellsTheState ==
    \A r \in Reports :
        /\ told[r].resolution = "resolved" <=> report[r].resolved # None
        /\ told[r].visibility = "hidden" <=> report[r].hidden # None

-----------------------------------------------------------------------------
(* What a step may never do.                                               *)

\* "An already resolved report keeps its original resolved_at"
\* (lifecycle.go:90), which the image's retention counts from.
ResolvedAtIsKept ==
    [][\A r \in Reports :
           report[r].resolved # None /\ report'[r].resolved # None
               => report'[r].resolved = report[r].resolved]_vars

\* What an operator decided stands: a complaint they answered never counts
\* again, and a report they hid stays hidden by them until they show it.
DecisionsStand ==
    [][\A r \in Reports :
           /\ \A d \in Devices :
                  complaint[r][d].status \in {"resolved", "dismissed"}
                      => complaint'[r][d] = complaint[r][d]
           /\ report[r].hidden = "admin" /\ report'[r].hidden # "admin"
                  => /\ report'[r].hidden = None
                     /\ Pending(complaint'[r]) = 0]_vars
=============================================================================
