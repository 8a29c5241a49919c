--------------------------- MODULE ReportsProofs ---------------------------
(***************************************************************************)
(* Proofs about Reports for any reports, devices, images and calls, about  *)
(* the image cleanup that runs beside it on any replicas, and about the    *)
(* maps and the route planner over it for any places, routes and limits.   *)
(*                                                                         *)
(* Every step rewrites at most one report together with its votes,         *)
(* complaints and newest entries.  Fine says what holds of one report; the *)
(* votes and complaints of a report that does not exist are none, so a     *)
(* call that carries one must carry one that exists (AboutReports).        *)
(***************************************************************************)
EXTENDS ImageCleanup, RouteRisk, FiniteSetTheorems, WellFoundedInduction, TLAPS

VoteRows == [Devices -> Votes \cup {"none"}]
ComplaintsOfOne == [Devices -> ComplaintRows]
ToldRows == [resolution : {"none", "created", "resolved", "reopened"},
             visibility : {"none", "created", "hidden", "unhidden"}]
NoVotes == [d \in Devices |-> "none"]
NoComplaints == [d \in Devices |-> NoComplaint]

Majority(v) ==
    /\ Count(v, "cleared") >= ResolveThreshold
    /\ Count(v, "cleared") > Count(v, "still_active")

Typed(row, v, c, t) ==
    /\ row \in ReportRows /\ v \in VoteRows
    /\ c \in ComplaintsOfOne /\ t \in ToldRows
    /\ row.stale <= row.expires
    /\ ~row.exists => row = NoReport /\ v = NoVotes /\ c = NoComplaints

Fine(row, v, c, t) ==
    /\ Typed(row, v, c, t)
    /\ row.resolved # None <=> Majority(v)
    /\ row.exists /\ row.hidden = None => Pending(c) < AutoHideThreshold
    /\ t.resolution = "resolved" <=> row.resolved # None
    /\ t.visibility = "hidden" <=> row.hidden # None

AboutReports(c) == c # Idle => report[c.req].exists

\* The inductive invariant.
Coherent ==
    /\ TypeOK /\ ResolvedByVotes /\ ShownBelowThreshold /\ HistoryTellsTheState
    /\ \A s \in Sessions : AboutReports(call[s])

\* One report is rewritten.
Rewritten(r, row, v, c, t) ==
    /\ report' = [report EXCEPT ![r] = row]
    /\ vote' = [vote EXCEPT ![r] = v]
    /\ complaint' = [complaint EXCEPT ![r] = c]
    /\ told' = [told EXCEPT ![r] = t]

-----------------------------------------------------------------------------
(* The operators the model is built from.                                  *)

\* Votes and complaints are counted by natural numbers.
LEMMA CountsAreNat ==
    /\ \A v, status : Count(v, status) \in Nat
    /\ \A c : Pending(c) \in Nat
<1>1. ASSUME NEW v, NEW status PROVE Count(v, status) \in Nat
  <2>1. {d \in Devices : v[d] = status} \subseteq Devices
    OBVIOUS
  <2>2. QED
    BY <2>1, DevicesAreFinite, FS_Subset, FS_CardinalityType DEF Count
<1>2. ASSUME NEW c PROVE Pending(c) \in Nat
  <2>1. {d \in Devices : c[d].status = "pending"} \subseteq Devices
    OBVIOUS
  <2>2. QED
    BY <2>1, DevicesAreFinite, FS_Subset, FS_CardinalityType DEF Pending
<1>3. QED
  BY <1>1, <1>2

\* Nobody voted, nobody complained: nothing is counted.
LEMMA NothingCounts ==
    /\ \A status \in Votes : Count(NoVotes, status) = 0
    /\ \A c : (\A d \in Devices : c[d].status # "pending") => Pending(c) = 0
<1>1. ASSUME NEW status \in Votes PROVE Count(NoVotes, status) = 0
  <2>1. {d \in Devices : NoVotes[d] = status} = {}
    BY DEF NoVotes, Votes
  <2>2. QED
    BY <2>1, FS_EmptySet DEF Count
<1>2. ASSUME NEW c, \A d \in Devices : c[d].status # "pending" PROVE Pending(c) = 0
  <2>1. {d \in Devices : c[d].status = "pending"} = {}
    BY <1>2
  <2>2. QED
    BY <2>1, FS_EmptySet DEF Pending
<1>3. QED
  BY <1>1, <1>2

\* A window is made of times and does not end before it goes stale.
LEMMA WindowIsOrdered ==
    ASSUME NEW r, NEW t \in Nat
    PROVE  /\ Window(r, t).stale \in Nat /\ Window(r, t).expires \in Nat
           /\ Window(r, t).stale <= Window(r, t).expires
BY FreshnessIsValid DEF Window

\* The rule that resolves (NextResolvedAt): resolved by the majority alone, at
\* the time it was first.
LEMMA ResolvesByMajority ==
    ASSUME NEW v, NEW current \in Nat \cup {None}, NEW now \in Nat
    PROVE  LET next == NextResolvedAt(current, Count(v, "still_active"),
                                      Count(v, "cleared"), now)
           IN  /\ next \in Nat \cup {None}
               /\ next # None <=> Majority(v)
               /\ current # None /\ next # None => next = current
<1>1. /\ Count(v, "still_active") \in Nat /\ Count(v, "cleared") \in Nat
      /\ ResolveThreshold \in Nat
  BY CountsAreNat, FreshnessIsValid
<1>2. CASE Majority(v)
  BY <1>1, <1>2, NoneIsNothing DEF Majority, NextResolvedAt
<1>3. CASE ~Majority(v)
  BY <1>1, <1>3 DEF Majority, NextResolvedAt
<1>4. QED
  BY <1>2, <1>3

\* What a call carries, by its operation.
LEMMA CallFields ==
    ASSUME NEW c \in Calls
    PROVE  /\ c.op = "confirm" => /\ c.req \in Reports /\ c.device \in Devices
                                  /\ c.status \in Votes /\ c.now \in Nat
                                  /\ c.image \in Images \cup {None}
                                  /\ c # Idle
           /\ c.op = "complaining" => /\ c.req \in Reports /\ c.device \in Devices
                                      /\ c # Idle
           /\ c.op = "complain" => /\ c.req \in Reports /\ c.device \in Devices
                                   /\ c.now \in Nat /\ c # Idle
BY DEF Calls, Idle

-----------------------------------------------------------------------------
(* One report at a time.                                                   *)

\* A coherent state is fine in each of its reports.
LEMMA EachIsFine ==
    ASSUME Coherent, NEW r \in Reports
    PROVE  Fine(report[r], vote[r], complaint[r], told[r])
BY DEF Coherent, TypeOK, ResolvedByVotes, ShownBelowThreshold, Shown,
       HistoryTellsTheState, Fine, Typed, Majority, VoteRows, ComplaintsOfOne,
       ToldRows, NoVotes, NoComplaints

\* A step that rewrites one report finely, and its calls within their types,
\* keeps the invariant.
LEMMA RewrittenIsCoherent ==
    ASSUME Coherent, NEW r \in Reports, NEW row, NEW v, NEW c, NEW t,
           Rewritten(r, row, v, c, t), Fine(row, v, c, t),
           report[r].exists => row.exists,
           call' \in [Sessions -> Calls], clock' \in 0..MaxTime,
           \A s \in Sessions : call'[s] # Idle => report[call'[s].req].exists
    PROVE  Coherent'
<1>1. /\ report \in [Reports -> ReportRows]
      /\ vote \in [Reports -> VoteRows]
      /\ complaint \in [Reports -> ComplaintsOfOne]
      /\ told \in [Reports -> ToldRows]
  BY DEF Coherent, TypeOK, VoteRows, ComplaintsOfOne, ToldRows
<1>2. /\ row \in ReportRows /\ v \in VoteRows
      /\ c \in ComplaintsOfOne /\ t \in ToldRows
  BY DEF Fine, Typed
<1>3. /\ report' \in [Reports -> ReportRows]
      /\ vote' \in [Reports -> VoteRows]
      /\ complaint' \in [Reports -> ComplaintsOfOne]
      /\ told' \in [Reports -> ToldRows]
  BY <1>1, <1>2 DEF Rewritten
<1>4. \A q \in Reports : Fine(report'[q], vote'[q], complaint'[q], told'[q])
  <2>1. TAKE q \in Reports
  <2>2. CASE q = r
    BY <1>1, <2>2 DEF Rewritten
  <2>3. CASE q # r
    <3>1. /\ report'[q] = report[q] /\ vote'[q] = vote[q]
          /\ complaint'[q] = complaint[q] /\ told'[q] = told[q]
      BY <1>1, <2>3 DEF Rewritten
    <3>2. QED
      BY <3>1, EachIsFine
  <2>4. QED
    BY <2>2, <2>3
<1>5. TypeOK'
  BY <1>3, <1>4 DEF TypeOK, Fine, Typed, VoteRows, ComplaintsOfOne, ToldRows,
                    NoVotes, NoComplaints
<1>6. /\ ResolvedByVotes' /\ ShownBelowThreshold' /\ HistoryTellsTheState'
  BY <1>4 DEF ResolvedByVotes, ShownBelowThreshold, Shown, HistoryTellsTheState,
              Fine, Majority, Count, Pending
<1>7. \A s \in Sessions : AboutReports(call[s])'
  <2>1. \A q \in Reports : report[q].exists => report'[q].exists
    BY <1>1 DEF Rewritten
  <2>2. \A s \in Sessions : call'[s] # Idle => call'[s].req \in Reports
    BY DEF Calls
  <2>3. QED
    BY <2>1, <2>2 DEF AboutReports
<1>8. QED
  BY <1>5, <1>6, <1>7 DEF Coherent

\* A session enters a call about an existing report, or ends its call.
LEMMA EnteredCalls ==
    ASSUME Coherent, NEW s \in Sessions, NEW c \in Calls,
           c # Idle => report[c.req].exists, call' = [call EXCEPT ![s] = c]
    PROVE  /\ call' \in [Sessions -> Calls]
           /\ \A q \in Sessions : call'[q] # Idle => report[call'[q].req].exists
BY DEF Coherent, TypeOK, AboutReports

LEMMA ReturnedCalls ==
    ASSUME Coherent, NEW s \in Sessions, Return(s)
    PROVE  /\ call' \in [Sessions -> Calls]
           /\ \A q \in Sessions : call'[q] # Idle => report[call'[q].req].exists
<1>1. Idle \in Calls
  BY DEF Calls
<1>2. QED
  BY <1>1, EnteredCalls DEF Return

\* A step that leaves the rows alone.
LEMMA RowsKept ==
    ASSUME Coherent, UNCHANGED rows,
           call' \in [Sessions -> Calls], clock' \in 0..MaxTime,
           \A s \in Sessions : call'[s] # Idle => report[call'[s].req].exists
    PROVE  Coherent'
<1>1. TypeOK'
  BY DEF Coherent, TypeOK, rows
<1>2. /\ ResolvedByVotes' /\ ShownBelowThreshold' /\ HistoryTellsTheState'
  BY DEF Coherent, rows, ResolvedByVotes, ShownBelowThreshold, Shown,
         HistoryTellsTheState, Count, Pending
<1>3. QED
  BY <1>1, <1>2 DEF Coherent, AboutReports, rows

-----------------------------------------------------------------------------
(* One step of each action.                                                *)

LEMMA CreateStep ==
    ASSUME Coherent, NEW r \in Reports, NEW image \in Images \cup {None},
           Create(r, image)
    PROVE  Coherent'
<1> DEFINE w == Window(r, clock)
           row == [exists |-> TRUE, verified |-> clock, stale |-> w.stale,
                   expires |-> w.expires, resolved |-> None, hidden |-> None,
                   image |-> image]
           t == [resolution |-> "created", visibility |-> "created"]
<1>1. /\ vote[r] = NoVotes /\ complaint[r] = NoComplaints
      /\ clock \in Nat /\ clock' \in 0..MaxTime
      /\ vote \in [Reports -> VoteRows] /\ complaint \in [Reports -> ComplaintsOfOne]
  BY TimeIsNat DEF Coherent, TypeOK, Create, NoVotes, NoComplaints, VoteRows,
                   ComplaintsOfOne
<1>2. Typed(row, vote[r], complaint[r], t)
  <2>1. row \in ReportRows
    BY <1>1, WindowIsOrdered DEF ReportRows
  <2>2. row.stale <= row.expires
    BY <1>1, WindowIsOrdered
  <2>3. t \in ToldRows
    BY DEF ToldRows
  <2>4. QED
    BY <1>1, <2>1, <2>2, <2>3 DEF Typed
<1>3. ~Majority(vote[r])
  BY <1>1, NothingCounts, FreshnessIsValid DEF Majority, Votes
<1>4. Pending(complaint[r]) < AutoHideThreshold
  BY <1>1, NothingCounts, ModerationIsValid DEF NoComplaints, NoComplaint
<1>5. Fine(row, vote[r], complaint[r], t)
  BY <1>2, <1>3, <1>4 DEF Fine
<1>6. Rewritten(r, row, vote[r], complaint[r], t)
  BY <1>1 DEF Create, Rewritten
<1>7. /\ call' \in [Sessions -> Calls]
      /\ \A s \in Sessions : call'[s] # Idle => report[call'[s].req].exists
  BY DEF Coherent, TypeOK, AboutReports, Create
<1>8. QED
  BY <1>1, <1>5, <1>6, <1>7, RewrittenIsCoherent

\* What a vote makes of its report.
LEMMA VoteIsFine ==
    ASSUME Coherent, NEW s \in Sessions, CommitConfirm(s)
    PROVE  LET c == call[s]
               cast == [vote[c.req] EXCEPT ![c.device] = c.status]
               resolved == NextResolvedAt(report[c.req].resolved,
                               Count(cast, "still_active"), Count(cast, "cleared"), c.now)
               row == [Refreshed(report[c.req], c) EXCEPT !.resolved = resolved]
               t == [told[c.req] EXCEPT !.resolution =
                         ResolutionEvent(report[c.req].resolved, resolved, @)]
           IN  /\ c.req \in Reports /\ c # Idle
               /\ row.exists /\ row.hidden = report[c.req].hidden
               /\ row.resolved = resolved
               /\ Fine(row, cast, complaint[c.req], t)
               /\ Rewritten(c.req, row, cast, complaint[c.req], t)
<1> DEFINE c == call[s]
           r == c.req
           old == report[r]
           cast == [vote[r] EXCEPT ![c.device] = c.status]
           resolved == NextResolvedAt(old.resolved,
                           Count(cast, "still_active"), Count(cast, "cleared"), c.now)
           row == [Refreshed(old, c) EXCEPT !.resolved = resolved]
           t == [told[r] EXCEPT !.resolution =
                     ResolutionEvent(old.resolved, resolved, @)]
<1>1. /\ c \in Calls /\ c.op = "confirm"
      /\ report \in [Reports -> ReportRows] /\ vote \in [Reports -> VoteRows]
      /\ complaint \in [Reports -> ComplaintsOfOne] /\ told \in [Reports -> ToldRows]
  BY DEF Coherent, TypeOK, CommitConfirm, Confirmed, VoteRows, ComplaintsOfOne, ToldRows
<1>2. /\ r \in Reports /\ c.device \in Devices /\ c.status \in Votes
      /\ c.now \in Nat /\ c.image \in Images \cup {None} /\ c # Idle
  BY <1>1, CallFields
<1>3. old.exists /\ Fine(old, vote[r], complaint[r], told[r])
  BY <1>2, EachIsFine DEF Coherent, AboutReports
<1>4. /\ old \in ReportRows /\ vote[r] \in VoteRows /\ told[r] \in ToldRows
      /\ complaint[r] \in ComplaintsOfOne /\ old.stale <= old.expires
  BY <1>3 DEF Fine, Typed
<1>5. cast \in VoteRows
  BY <1>2, <1>4 DEF VoteRows
<1>6. /\ old.resolved \in Nat \cup {None}
      /\ resolved \in Nat \cup {None}
      /\ resolved # None <=> Majority(cast)
  <2>1. old.resolved \in Nat \cup {None}
    BY <1>4 DEF ReportRows
  <2>2. QED
    BY <1>2, <2>1, ResolvesByMajority
<1>7. /\ Refreshed(old, c) \in ReportRows
      /\ Refreshed(old, c).exists /\ Refreshed(old, c).hidden = old.hidden
      /\ Refreshed(old, c).stale <= Refreshed(old, c).expires
  <2>1. CASE c.status = "still_active"
    <3>1. /\ Window(c.req, c.now).stale \in Nat /\ Window(c.req, c.now).expires \in Nat
          /\ Window(c.req, c.now).stale <= Window(c.req, c.now).expires
      BY <1>2, WindowIsOrdered
    <3>2. QED
      BY <1>2, <1>3, <1>4, <2>1, <3>1 DEF Refreshed, ReportRows
  <2>2. CASE c.status # "still_active"
    BY <1>3, <1>4, <2>2 DEF Refreshed
  <2>3. QED
    BY <2>1, <2>2
<1>8. /\ row \in ReportRows /\ row.exists /\ row.hidden = old.hidden
      /\ row.resolved = resolved /\ row.stale <= row.expires
  BY <1>6, <1>7 DEF ReportRows
<1>9. /\ t \in ToldRows /\ t.visibility = told[r].visibility
      /\ t.resolution = ResolutionEvent(old.resolved, resolved, told[r].resolution)
  BY <1>4 DEF ToldRows, ResolutionEvent
<1>10. t.resolution = "resolved" <=> resolved # None
  BY <1>3, <1>9 DEF ResolutionEvent, Fine
<1>11. Typed(row, cast, complaint[r], t)
  BY <1>4, <1>5, <1>8, <1>9 DEF Typed
<1>12. Fine(row, cast, complaint[r], t)
  BY <1>3, <1>6, <1>8, <1>9, <1>10, <1>11 DEF Fine
<1>13. Rewritten(r, row, cast, complaint[r], t)
  BY <1>1, <1>2 DEF CommitConfirm, Confirmed, Rewritten
<1>14. QED
  BY <1>2, <1>8, <1>12, <1>13

LEMMA CommitConfirmStep ==
    ASSUME Coherent, NEW s \in Sessions, CommitConfirm(s)
    PROVE  Coherent'
<1>1. /\ call' \in [Sessions -> Calls] /\ clock' \in 0..MaxTime
      /\ \A q \in Sessions : call'[q] # Idle => report[call'[q].req].exists
  BY ReturnedCalls DEF CommitConfirm, Confirmed, Coherent, TypeOK
<1>2. QED
  BY <1>1, VoteIsFine, RewrittenIsCoherent

\* A complaint that is filed leaves the device's others, and its own, as they are.
LEMMA FiledKeeps ==
    ASSUME NEW cs \in ComplaintsOfOne, NEW c, c.device \in Devices, c.now \in Nat
    PROVE  /\ Filed(cs, c) \in ComplaintsOfOne
           /\ \A d \in Devices : cs[d].status # "none" => Filed(cs, c)[d] = cs[d]
BY DEF Filed, ComplaintsOfOne, ComplaintRows

\* What a complaint makes of its report.
LEMMA ComplaintIsFine ==
    ASSUME Coherent, NEW s \in Sessions, CommitComplaint(s)
    PROVE  LET r == call[s].req
               filed == Filed(complaint[r], call[s])
           IN  /\ r \in Reports /\ call[s] # Idle
               /\ \E row \in ReportRows, t \in ToldRows :
                      /\ row.exists /\ row.resolved = report[r].resolved
                      /\ \/ row.hidden = report[r].hidden
                         \/ report[r].hidden = None /\ row.hidden = "auto_threshold"
                      /\ Fine(row, vote[r], filed, t)
                      /\ Rewritten(r, row, vote[r], filed, t)
<1> DEFINE c == call[s]
           r == c.req
           old == report[r]
           filed == Filed(complaint[r], c)
           hides == old.hidden = None /\ ShouldAutoHide(Pending(filed))
<1>1. /\ c \in Calls /\ c.op = "complain"
      /\ report \in [Reports -> ReportRows] /\ vote \in [Reports -> VoteRows]
      /\ complaint \in [Reports -> ComplaintsOfOne] /\ told \in [Reports -> ToldRows]
  BY DEF Coherent, TypeOK, CommitComplaint, VoteRows, ComplaintsOfOne, ToldRows
<1>2. r \in Reports /\ c.device \in Devices /\ c.now \in Nat /\ c # Idle
  BY <1>1, CallFields
<1>3. old.exists /\ Fine(old, vote[r], complaint[r], told[r])
  BY <1>2, EachIsFine DEF Coherent, AboutReports
<1>4. old \in ReportRows /\ told[r] \in ToldRows /\ filed \in ComplaintsOfOne
  BY <1>1, <1>2, FiledKeeps
<1>5. CASE hides
  <2> DEFINE row == [old EXCEPT !.hidden = "auto_threshold"]
             t == [told[r] EXCEPT !.visibility = "hidden"]
  <2>1. /\ row \in ReportRows /\ t \in ToldRows /\ row.exists
        /\ row.resolved = old.resolved /\ row.hidden = "auto_threshold"
        /\ row.stale = old.stale /\ row.expires = old.expires
        /\ t.resolution = told[r].resolution /\ t.visibility = "hidden"
    BY <1>3, <1>4 DEF ReportRows, ToldRows
  <2>2. row.hidden # None
    BY <2>1, NoneIsNothing
  <2>3. Fine(row, vote[r], filed, t)
    BY <1>3, <1>4, <2>1, <2>2 DEF Fine, Typed
  <2>4. Rewritten(r, row, vote[r], filed, t)
    BY <1>1, <1>5 DEF CommitComplaint, Rewritten
  <2>5. QED
    BY <1>2, <1>5, <2>1, <2>3, <2>4
<1>6. CASE ~hides
  <2>1. old.hidden = None => Pending(filed) < AutoHideThreshold
    BY <1>6, CountsAreNat, ModerationIsValid DEF ShouldAutoHide
  <2>2. Fine(old, vote[r], filed, told[r])
    BY <1>3, <1>4, <2>1 DEF Fine, Typed
  <2>3. Rewritten(r, old, vote[r], filed, told[r])
    BY <1>1, <1>6 DEF CommitComplaint, Rewritten
  <2>4. QED
    BY <1>2, <1>3, <1>4, <2>2, <2>3
<1>7. QED
  BY <1>5, <1>6

LEMMA CommitComplaintStep ==
    ASSUME Coherent, NEW s \in Sessions, CommitComplaint(s)
    PROVE  Coherent'
<1>1. /\ call' \in [Sessions -> Calls] /\ clock' \in 0..MaxTime
      /\ \A q \in Sessions : call'[q] # Idle => report[call'[q].req].exists
  BY ReturnedCalls DEF CommitComplaint, Coherent, TypeOK
<1>2. QED
  BY <1>1, ComplaintIsFine, RewrittenIsCoherent

\* An answer leaves no complaint pending and what was answered before as it is.
LEMMA AnsweredIsAnswered ==
    ASSUME NEW cs \in ComplaintsOfOne, NEW status \in {"resolved", "dismissed"}
    PROVE  /\ Answered(cs, status) \in ComplaintsOfOne
           /\ \A d \in Devices :
                  /\ Answered(cs, status)[d].status # "pending"
                  /\ cs[d].status # "pending" => Answered(cs, status)[d] = cs[d]
<1>1. ASSUME NEW d \in Devices
      PROVE  /\ Answered(cs, status)[d] \in ComplaintRows
             /\ Answered(cs, status)[d].status # "pending"
             /\ cs[d].status # "pending" => Answered(cs, status)[d] = cs[d]
  <2>1. cs[d] \in ComplaintRows
    BY DEF ComplaintsOfOne
  <2>2. QED
    BY <2>1 DEF Answered, ComplaintRows
<1>2. Answered(cs, status) = [d \in Devices |-> Answered(cs, status)[d]]
  BY DEF Answered
<1>3. QED
  BY <1>1, <1>2 DEF ComplaintsOfOne

\* What a decision makes of its report.
LEMMA DecisionIsFine ==
    ASSUME Coherent, NEW r \in Reports, NEW action \in Actions, Apply(r, action)
    PROVE  LET answered == Answered(complaint[r], Outcome(action).status)
           IN  \E row \in ReportRows, t \in ToldRows :
                   /\ row.exists /\ row.resolved = report[r].resolved
                   /\ row.hidden \in {report[r].hidden, None, "admin"}
                   /\ Pending(answered) = 0
                   /\ Fine(row, vote[r], answered, t)
                   /\ Rewritten(r, row, vote[r], answered, t)
<1> DEFINE out == Outcome(action)
           old == report[r]
           answered == Answered(complaint[r], out.status)
           turns == out.hide # (old.hidden # None)
<1>1. /\ report \in [Reports -> ReportRows] /\ vote \in [Reports -> VoteRows]
      /\ complaint \in [Reports -> ComplaintsOfOne] /\ told \in [Reports -> ToldRows]
      /\ old.exists /\ Fine(old, vote[r], complaint[r], told[r])
  BY EachIsFine DEF Coherent, TypeOK, Apply, VoteRows, ComplaintsOfOne, ToldRows
<1>2. out.status \in {"resolved", "dismissed"} /\ out.hide \in BOOLEAN
  BY DEF Outcome
<1>3. answered \in ComplaintsOfOne
  BY <1>1, <1>2, AnsweredIsAnswered
<1>4. Pending(answered) = 0
  BY <1>1, <1>2, AnsweredIsAnswered, NothingCounts
<1>5. Pending(answered) < AutoHideThreshold
  BY <1>4, ModerationIsValid
<1>6. CASE turns
  <2> DEFINE row == [old EXCEPT !.hidden = IF out.hide THEN "admin" ELSE None]
             t == [told[r] EXCEPT !.visibility =
                       IF out.hide THEN "hidden" ELSE "unhidden"]
  <2>1. old \in ReportRows /\ told[r] \in ToldRows
    BY <1>1
  <2>2. /\ row \in ReportRows /\ t \in ToldRows /\ row.exists
        /\ row.resolved = old.resolved
        /\ row.hidden = IF out.hide THEN "admin" ELSE None
        /\ row.stale = old.stale /\ row.expires = old.expires
        /\ t.resolution = told[r].resolution
        /\ t.visibility = IF out.hide THEN "hidden" ELSE "unhidden"
    BY <1>1, <2>1 DEF ReportRows, ToldRows
  <2>3. t.visibility = "hidden" <=> row.hidden # None
    BY <2>2, NoneIsNothing
  <2>4. Fine(row, vote[r], answered, t)
    BY <1>1, <1>3, <1>5, <2>2, <2>3 DEF Fine, Typed
  <2>5. Rewritten(r, row, vote[r], answered, t)
    BY <1>1, <1>6 DEF Apply, Rewritten
  <2>6. QED
    BY <1>4, <2>2, <2>4, <2>5
<1>7. CASE ~turns
  <2>1. Fine(old, vote[r], answered, told[r])
    BY <1>1, <1>3, <1>5 DEF Fine, Typed
  <2>2. Rewritten(r, old, vote[r], answered, told[r])
    BY <1>1, <1>7 DEF Apply, Rewritten
  <2>3. QED
    BY <1>1, <1>4, <2>1, <2>2
<1>8. QED
  BY <1>6, <1>7

LEMMA ApplyStep ==
    ASSUME Coherent, NEW r \in Reports, NEW action \in Actions, Apply(r, action)
    PROVE  Coherent'
<1>1. /\ call' \in [Sessions -> Calls] /\ clock' \in 0..MaxTime
      /\ \A q \in Sessions : call'[q] # Idle => report[call'[q].req].exists
  BY DEF Apply, Coherent, TypeOK, AboutReports
<1>2. QED
  BY <1>1, DecisionIsFine, RewrittenIsCoherent

LEMMA BeginStep ==
    ASSUME Coherent, NEW s \in Sessions, NEW c \in Calls, report[c.req].exists,
           Enter(s, c), UNCHANGED <<rows, clock>>
    PROVE  Coherent'
<1>1. /\ call' \in [Sessions -> Calls] /\ clock' \in 0..MaxTime
      /\ \A q \in Sessions : call'[q] # Idle => report[call'[q].req].exists
  BY EnteredCalls DEF Enter, Coherent, TypeOK
<1>2. QED
  BY <1>1, RowsKept

LEMMA VoteStep ==
    ASSUME Coherent, NEW s \in Sessions, Vote(s)
    PROVE  Coherent'
<1>1. PICK d \in Devices, r \in Reports, status \in Votes, now \in 0..MaxTime,
           image \in Images \cup {None} :
          BeginConfirm(s, d, r, status, now, image)
  BY DEF Vote
<1> DEFINE c == [op |-> "confirm", req |-> r, device |-> d, status |-> status,
                 now |-> now, image |-> image]
<1>2. c \in Calls /\ report[c.req].exists
  BY <1>1, TimeIsNat DEF Calls, BeginConfirm, Shown
<1>3. QED
  BY <1>1, <1>2, BeginStep DEF BeginConfirm

LEMMA BeginComplaintStep ==
    ASSUME Coherent, NEW s \in Sessions, NEW d \in Complainers, NEW r \in Reports,
           BeginComplaint(s, d, r)
    PROVE  Coherent'
<1> DEFINE c == [op |-> "complaining", req |-> r, device |-> d]
<1>1. c \in Calls /\ report[c.req].exists
  BY SubsetsOfActors DEF Calls, BeginComplaint, Shown
<1>2. QED
  BY <1>1, BeginStep DEF BeginComplaint

LEMMA ReturnStep ==
    ASSUME Coherent, NEW s \in Sessions, Return(s), UNCHANGED <<rows, clock>>
    PROVE  Coherent'
BY ReturnedCalls, RowsKept DEF Coherent, TypeOK

LEMMA DecideComplaintStep ==
    ASSUME Coherent, NEW s \in Sessions, DecideComplaint(s)
    PROVE  Coherent'
<1> DEFINE c == [op |-> "complain", req |-> call[s].req, device |-> call[s].device,
                 now |-> clock]
<1>1. call[s] \in Calls /\ call[s].op = "complaining" /\ clock \in Nat
  BY TimeIsNat DEF DecideComplaint, Coherent, TypeOK
<1>2. CASE call' = [call EXCEPT ![s] = c]
  <2>1. c \in Calls /\ report[c.req].exists
    BY <1>1, CallFields DEF Calls, Coherent, AboutReports
  <2>2. /\ call' \in [Sessions -> Calls] /\ clock' \in 0..MaxTime
        /\ \A q \in Sessions : call'[q] # Idle => report[call'[q].req].exists
    BY <1>2, <2>1, EnteredCalls DEF DecideComplaint, Coherent, TypeOK
  <2>3. QED
    BY <2>2, RowsKept DEF DecideComplaint
<1>3. CASE Return(s)
  BY <1>3, ReturnStep DEF DecideComplaint
<1>4. QED
  BY <1>2, <1>3 DEF DecideComplaint

LEMMA TickStep ==
    ASSUME Coherent, Tick
    PROVE  Coherent'
<1>1. clock' \in 0..MaxTime
  BY TimeIsNat DEF Coherent, TypeOK, Tick
<1>2. /\ call' \in [Sessions -> Calls]
      /\ \A s \in Sessions : call'[s] # Idle => report[call'[s].req].exists
  BY DEF Coherent, TypeOK, AboutReports, Tick
<1>3. QED
  BY <1>1, <1>2, RowsKept DEF Tick

-----------------------------------------------------------------------------
(* Every reachable state is coherent.                                      *)

LEMMA StartsCoherent == Init => Coherent
<1> SUFFICES ASSUME Init PROVE Coherent
  OBVIOUS
<1>1. TypeOK
  BY TimeIsNat DEF Init, TypeOK, ReportRows, NoReport, ComplaintRows, NoComplaint,
                   Untold, Calls
<1>2. /\ \A r \in Reports : vote[r] = NoVotes /\ complaint[r] = NoComplaints
      /\ \A r \in Reports : report[r] = NoReport
  BY DEF Init, NoVotes, NoComplaints
<1>3. ResolvedByVotes
  BY <1>2, NothingCounts, FreshnessIsValid DEF ResolvedByVotes, NoReport, Votes
<1>4. ShownBelowThreshold
  BY <1>2 DEF ShownBelowThreshold, Shown, NoReport
<1>5. HistoryTellsTheState
  BY <1>2 DEF HistoryTellsTheState, NoReport, Init, Untold
<1>6. \A s \in Sessions : AboutReports(call[s])
  BY DEF Init, AboutReports
<1>7. QED
  BY <1>1, <1>3, <1>4, <1>5, <1>6 DEF Coherent

LEMMA StaysCoherent == Coherent /\ [Next]_vars => Coherent'
<1> SUFFICES ASSUME Coherent, [Next]_vars PROVE Coherent'
  OBVIOUS
<1>1. CASE \E r \in Reports, image \in Images \cup {None} : Create(r, image)
  BY <1>1, CreateStep
<1>2. CASE \E s \in Sessions : Step(s)
  <2>1. PICK s \in Sessions : Step(s)
    BY <1>2
  <2>2. CASE Vote(s)
    BY <2>2, VoteStep
  <2>3. CASE CommitConfirm(s)
    BY <2>3, CommitConfirmStep
  <2>4. CASE \E d \in Complainers, r \in Reports : BeginComplaint(s, d, r)
    BY <2>4, BeginComplaintStep
  <2>5. CASE DecideComplaint(s)
    BY <2>5, DecideComplaintStep
  <2>6. CASE CommitComplaint(s)
    BY <2>6, CommitComplaintStep
  <2>7. CASE Abort(s)
    BY <2>7, ReturnStep DEF Abort
  <2>8. QED
    BY <2>1, <2>2, <2>3, <2>4, <2>5, <2>6, <2>7 DEF Step
<1>3. CASE \E r \in Reports, action \in Actions : Apply(r, action)
  BY <1>3, ApplyStep
<1>4. CASE Tick
  BY <1>4, TickStep
<1>5. CASE UNCHANGED vars
  BY <1>5, RowsKept DEF vars, Coherent, TypeOK, AboutReports
<1>6. QED
  BY <1>1, <1>2, <1>3, <1>4, <1>5 DEF Next

LEMMA AlwaysCoherent == Spec => []Coherent
<1>1. QED
  BY StartsCoherent, StaysCoherent, PTL DEF Spec

\* Every reachable state has its types: a window never ends before it goes
\* stale, and no vote or complaint is recorded for what does not exist.
THEOREM TypeCorrect == Spec => []TypeOK
<1>1. Coherent => TypeOK
  BY DEF Coherent
<1>2. QED
  BY <1>1, AlwaysCoherent, PTL

\* A report is resolved exactly while enough devices say so and they outnumber
\* the others, however their votes interleave (applyConditionUpdate).
THEOREM VotesResolve == Spec => []ResolvedByVotes
<1>1. Coherent => ResolvedByVotes
  BY DEF Coherent
<1>2. QED
  BY <1>1, AlwaysCoherent, PTL

\* No shown report has as many pending complaints as hide it, whatever
\* complaints and decisions race (moderation_repository.go Create, Apply).
THEOREM ComplaintsHide == Spec => []ShownBelowThreshold
<1>1. Coherent => ShownBelowThreshold
  BY DEF Coherent
<1>2. QED
  BY <1>1, AlwaysCoherent, PTL

\* The history entries inserted last tell whether a report is resolved and
\* whether it is hidden (insertEvent).
THEOREM HistoriesTell == Spec => []HistoryTellsTheState
<1>1. Coherent => HistoryTellsTheState
  BY DEF Coherent
<1>2. QED
  BY <1>1, AlwaysCoherent, PTL

-----------------------------------------------------------------------------
(* What a step may never do.                                               *)

\* The steps that change rows at all.
LEMMA RowsChange ==
    ASSUME [Next]_vars
    PROVE  \/ UNCHANGED rows
           \/ \E r \in Reports, image \in Images \cup {None} : Create(r, image)
           \/ \E s \in Sessions : CommitConfirm(s) \/ CommitComplaint(s)
           \/ \E r \in Reports, action \in Actions : Apply(r, action)
BY DEF Next, Step, Vote, BeginConfirm, BeginComplaint, DecideComplaint, Abort,
       Tick, vars

\* A report that stays resolved keeps the time it was first: later votes of the
\* majority do not restart its retention (NextResolvedAt).
THEOREM ResolvedAtStays == Spec => ResolvedAtIsKept
<1>1. ASSUME Coherent, [Next]_vars, NEW r \in Reports,
             report[r].resolved # None, report'[r].resolved # None
      PROVE  report'[r].resolved = report[r].resolved
  <2>1. report \in [Reports -> ReportRows] /\ report[r].resolved \in Nat \cup {None}
    BY <1>1 DEF Coherent, TypeOK, ReportRows
  <2>2. CASE UNCHANGED rows
    BY <2>2 DEF rows
  <2>3. CASE \E q \in Reports, image \in Images \cup {None} : Create(q, image)
    BY <1>1, <2>1, <2>3 DEF Create, Coherent, TypeOK, NoReport
  <2>4. ASSUME NEW s \in Sessions, CommitConfirm(s)
        PROVE  report'[r].resolved = report[r].resolved
    <3> DEFINE c == call[s]
               cast == [vote[c.req] EXCEPT ![c.device] = c.status]
    <3>1. CASE c.req = r
      <4>1. c.now \in Nat
        BY <1>1, <2>4, CallFields DEF Coherent, TypeOK, CommitConfirm, Confirmed
      <4>2. report'[r].resolved =
                NextResolvedAt(report[r].resolved, Count(cast, "still_active"),
                               Count(cast, "cleared"), c.now)
        BY <1>1, <2>1, <2>4, <3>1, VoteIsFine DEF Rewritten
      <4>3. QED
        BY <1>1, <2>1, <4>1, <4>2, ResolvesByMajority
    <3>2. CASE c.req # r
      BY <2>1, <2>4, <3>2 DEF CommitConfirm, Confirmed
    <3>3. QED
      BY <3>1, <3>2
  <2>5. ASSUME NEW s \in Sessions, CommitComplaint(s)
        PROVE  report'[r].resolved = report[r].resolved
    BY <1>1, <2>1, <2>5, ComplaintIsFine DEF Rewritten
  <2>6. ASSUME NEW q \in Reports, NEW action \in Actions, Apply(q, action)
        PROVE  report'[r].resolved = report[r].resolved
    BY <1>1, <2>1, <2>6, DecisionIsFine DEF Rewritten
  <2>7. QED
    BY <1>1, <2>2, <2>3, <2>4, <2>5, <2>6, RowsChange
<1>2. Coherent /\ [Next]_vars
      => [\A r \in Reports :
              report[r].resolved # None /\ report'[r].resolved # None
                  => report'[r].resolved = report[r].resolved]_vars
  BY <1>1
<1>3. QED
  BY <1>2, AlwaysCoherent, PTL DEF Spec, ResolvedAtIsKept

Stand(r) ==
    /\ \A d \in Devices :
           complaint[r][d].status \in {"resolved", "dismissed"}
               => complaint'[r][d] = complaint[r][d]
    /\ report[r].hidden = "admin" /\ report'[r].hidden # "admin"
           => report'[r].hidden = None /\ Pending(complaint'[r]) = 0

\* What an operator decided stands: late complaints reopen nothing, and only an
\* operator shows a report one has hidden (moderation_repository.go).
THEOREM OperatorsDecide == Spec => DecisionsStand
<1>1. ASSUME Coherent, [Next]_vars, NEW r \in Reports
      PROVE  Stand(r)
  <2>1. /\ report \in [Reports -> ReportRows]
        /\ complaint \in [Reports -> ComplaintsOfOne]
    BY <1>1 DEF Coherent, TypeOK, ComplaintsOfOne
  <2>2. ASSUME complaint'[r] = complaint[r], report'[r].hidden = report[r].hidden
        PROVE  Stand(r)
    BY <2>2 DEF Stand
  <2>3. CASE UNCHANGED rows
    BY <2>2, <2>3 DEF rows
  <2>4. CASE \E q \in Reports, image \in Images \cup {None} : Create(q, image)
    BY <1>1, <2>1, <2>2, <2>4 DEF Create, Coherent, TypeOK, NoReport
  <2>5. ASSUME NEW s \in Sessions, CommitConfirm(s)
        PROVE  Stand(r)
    BY <1>1, <2>1, <2>2, <2>5, VoteIsFine DEF Rewritten, CommitConfirm, Confirmed
  <2>6. ASSUME NEW s \in Sessions, CommitComplaint(s)
        PROVE  Stand(r)
    <3> DEFINE c == call[s]
               filed == Filed(complaint[c.req], c)
    <3>1. CASE c.req = r
      <4>1. c.device \in Devices /\ c.now \in Nat
        BY <1>1, <2>6, CallFields DEF Coherent, TypeOK, CommitComplaint
      <4>2. complaint'[r] = filed
        BY <1>1, <2>1, <2>6, <3>1, ComplaintIsFine DEF Rewritten
      <4>3. \A d \in Devices : complaint[r][d].status # "none"
                                   => complaint'[r][d] = complaint[r][d]
        BY <2>1, <3>1, <4>1, <4>2, FiledKeeps
      <4>4. report[r].hidden = "admin" => report'[r].hidden = "admin"
        BY <1>1, <2>1, <2>6, <3>1, ComplaintIsFine, NoneIsNothing DEF Rewritten
      <4>5. QED
        BY <4>3, <4>4 DEF Stand
    <3>2. CASE c.req # r
      BY <1>1, <2>1, <2>2, <2>6, <3>2, ComplaintIsFine DEF Rewritten
    <3>3. QED
      BY <3>1, <3>2
  <2>7. ASSUME NEW q \in Reports, NEW action \in Actions, Apply(q, action)
        PROVE  Stand(r)
    <3> DEFINE answered == Answered(complaint[q], Outcome(action).status)
    <3>1. PICK row \in ReportRows, t \in ToldRows :
              /\ row.hidden \in {report[q].hidden, None, "admin"}
              /\ Pending(answered) = 0
              /\ Rewritten(q, row, vote[q], answered, t)
      BY <1>1, <2>7, DecisionIsFine
    <3>2. CASE q = r
      <4>1. complaint'[r] = answered /\ report'[r] = row
        BY <2>1, <3>1, <3>2 DEF Rewritten
      <4>2. Outcome(action).status \in {"resolved", "dismissed"}
        BY DEF Outcome
      <4>3. \A d \in Devices : complaint[r][d].status # "pending"
                                   => complaint'[r][d] = complaint[r][d]
        BY <2>1, <3>2, <4>1, <4>2, AnsweredIsAnswered
      <4>4. QED
        BY <3>1, <3>2, <4>1, <4>3 DEF Stand
    <3>3. CASE q # r
      BY <2>1, <2>2, <3>1, <3>3 DEF Rewritten
    <3>4. QED
      BY <3>2, <3>3
  <2>8. QED
    BY <1>1, <2>3, <2>4, <2>5, <2>6, <2>7, RowsChange
<1>2. Coherent /\ [Next]_vars
      => [\A r \in Reports :
              /\ \A d \in Devices :
                     complaint[r][d].status \in {"resolved", "dismissed"}
                         => complaint'[r][d] = complaint[r][d]
              /\ report[r].hidden = "admin" /\ report'[r].hidden # "admin"
                     => /\ report'[r].hidden = None
                        /\ Pending(complaint'[r]) = 0]_vars
  BY <1>1 DEF Stand
<1>3. QED
  BY <1>2, AlwaysCoherent, PTL DEF Spec, DecisionsStand

-----------------------------------------------------------------------------
(* The image cleanup.                                                      *)

\* The candidates a pass carries are of reports and images.
Carried(p) ==
    /\ p.at = "reports" => \A c \in p.todo : c.req \in Reports /\ c.key \in Images
    /\ p.at \in {"delete", "clear"} =>
           /\ \A c \in p.todo : c.req \in Reports /\ c.key \in Images
           /\ p.cur.req \in Reports /\ p.cur.key \in Images

\* A pass clears a report's image after it deleted the object.
PassesFine ==
    /\ pass = [w \in Workers |-> pass[w]]
    /\ object = [k \in Images |-> object[k]]
    /\ \A w \in Workers :
           /\ pass[w].at = "asleep" => pass[w] = Asleep
           /\ Carried(pass[w])
           /\ pass[w].at = "clear" => object[pass[w].cur.key] = Gone

\* Until something goes wrong a pass that is under way has the lock; the lock's
\* holder is up and in its pass; what is down is in none.
LockFine ==
    /\ up = [w \in Workers |-> up[w]]
    /\ faults \in Nat
    /\ faults = 0 => \A w \in Workers : pass[w] # Asleep => lock = w
    /\ lock # None => lock \in Workers /\ up[lock] /\ pass[lock] # Asleep

CleanupCoherent == Coherent /\ PassesFine /\ LockFine

\* Clearing an image key keeps everything that holds of reports.
LEMMA ClearedIsCoherent ==
    ASSUME Coherent, NEW r \in Reports, NEW k, ClearImageIfUnchanged(r, k),
           UNCHANGED <<vote, complaint, told, call, clock>>
    PROVE  Coherent'
<1> DEFINE row == [report[r] EXCEPT !.image = None]
<1>1. /\ report \in [Reports -> ReportRows] /\ report[r] \in ReportRows
      /\ Fine(report[r], vote[r], complaint[r], told[r])
  BY EachIsFine DEF Coherent, TypeOK
<1>2. /\ row \in ReportRows /\ row.exists = report[r].exists /\ row.stale = report[r].stale
      /\ row.expires = report[r].expires /\ row.resolved = report[r].resolved
      /\ row.hidden = report[r].hidden
  BY <1>1 DEF ReportRows
<1>3. report[r] = NoReport => row = NoReport
  <2>1. report[r].image = None => row = report[r]
    BY <1>1 DEF ReportRows
  <2> QED
    BY <2>1 DEF NoReport
<1>4. Fine(row, vote[r], complaint[r], told[r])
  <2> HIDE DEF row
  <2> QED
    BY <1>1, <1>2, <1>3 DEF Fine, Typed
<1>5. /\ call' \in [Sessions -> Calls] /\ clock' \in 0..MaxTime
      /\ \A s \in Sessions : call'[s] # Idle => report[call'[s].req].exists
  BY DEF Coherent, TypeOK, AboutReports
<1>6. CASE report' = [report EXCEPT ![r].image = None]
  <2>1. Rewritten(r, row, vote[r], complaint[r], told[r])
    BY <1>6 DEF Rewritten, Coherent, TypeOK
  <2> HIDE DEF row
  <2> QED
    BY <1>2, <1>4, <1>5, <2>1, RewrittenIsCoherent
<1>7. CASE UNCHANGED report
  BY <1>5, <1>7, RowsKept DEF rows
<1> QED
  BY <1>6, <1>7 DEF ClearImageIfUnchanged

\* The reports' own steps beside a cleanup are steps of Reports.
LEMMA ReportStepIsNext == Coherent /\ ReportStep => Next
<1> SUFFICES ASSUME Coherent, ReportStep PROVE Next
  OBVIOUS
<1>1. Uploaded \subseteq Images /\ clock \in 0..MaxTime
  BY DEF Uploaded, Coherent, TypeOK
<1>2. ASSUME NEW r \in Reports, NEW image \in Uploaded \cup {None}, Create(r, image)
      PROVE  Next
  BY <1>1, <1>2 DEF Next
<1>3. ASSUME NEW s \in Sessions, NEW d \in Devices, NEW r \in Reports, NEW status \in Votes,
             NEW image \in Uploaded \cup {None}, BeginConfirm(s, d, r, status, clock, image)
      PROVE  Next
  BY <1>1, <1>3 DEF Next, Step, Vote
<1>4. ASSUME NEW s \in Sessions, CommitConfirm(s) \/ Abort(s)
      PROVE  Next
  BY <1>4 DEF Next, Step
<1>5. CASE Tick
  BY <1>5 DEF Next
<1>6. CASE \E r \in Reports, image \in Uploaded \cup {None} : Create(r, image)
  BY <1>2, <1>6
<1>7. CASE \E s \in Sessions, d \in Devices, r \in Reports, status \in Votes,
             image \in Uploaded \cup {None} : BeginConfirm(s, d, r, status, clock, image)
  BY <1>3, <1>7
<1>8. CASE \E s \in Sessions : CommitConfirm(s) \/ Abort(s)
  BY <1>4, <1>8
<1> QED
  BY <1>5, <1>6, <1>7, <1>8 DEF ReportStep

\* A replica's step that does not touch the reports.
LEMMA CoherentBeside ==
    ASSUME Coherent, UNCHANGED vars
    PROVE  Coherent'
BY StaysCoherent

LEMMA CleanupStaysCoherent == Coherent /\ [CleanupNext]_allVars => Coherent'
<1> SUFFICES ASSUME Coherent, [CleanupNext]_allVars PROVE Coherent'
  OBVIOUS
<1>1. CASE ReportStep
  BY <1>1, ReportStepIsNext, StaysCoherent
<1>2. CASE UNCHANGED vars
  BY <1>2, CoherentBeside
<1>3. ASSUME NEW w \in Workers, ClearReport(w)
      PROVE  Coherent'
  <2>1. CASE UNCHANGED report
    BY <1>3, <2>1, CoherentBeside DEF ClearReport, vars, rows
  <2>2. CASE report' # report
    <3>1. /\ ClearImageIfUnchanged(pass[w].cur.req, pass[w].cur.key)
          /\ report' = [report EXCEPT ![pass[w].cur.req].image = None]
      BY <1>3, <2>2 DEF ClearReport, ClearImageIfUnchanged
    <3>2. pass[w].cur.req \in Reports
      BY <2>2, <3>1 DEF Coherent, TypeOK
    <3> QED
      BY <1>3, <3>1, <3>2, ClearedIsCoherent DEF ClearReport
  <2> QED
    BY <2>1, <2>2
<1>4. UNCHANGED vars \/ ReportStep \/ \E w \in Workers : ClearReport(w)
  BY DEF CleanupNext, allVars, Upload, WorkerStep, PassStep, Fire, Restart, Crash, LoseConnection, Release,
         Query, RevalidateReport, DeleteImage, ListObjects, CheckReference, DeleteOrphans
<1> QED
  BY <1>1, <1>2, <1>3, <1>4

\* How far the passes are when replica w goes on to next.
LEMMA GoneOn ==
    ASSUME PassesFine, NEW w \in Workers, NEW next, Go(w, next), Carried(next), next.at # "asleep" \/ next = Asleep,
           next.at = "clear" => object'[next.cur.key] = Gone,
           object' = [k \in Images |-> object'[k]],
           \A k \in Images : object[k] = Gone => object'[k] = Gone
    PROVE  PassesFine'
<1>1. \A v \in Workers : pass'[v] = IF v = w THEN next ELSE pass[v]
  BY DEF Go, PassesFine
<1>2. pass' = [v \in Workers |-> pass'[v]]
  BY DEF Go, PassesFine
<1>3. ASSUME NEW v \in Workers, v # w
      PROVE  /\ pass'[v].at = "asleep" => pass'[v] = Asleep
             /\ Carried(pass'[v])
             /\ pass'[v].at = "clear" => object'[pass'[v].cur.key] = Gone
  BY <1>1, <1>3 DEF PassesFine, Carried
<1> QED
  BY <1>1, <1>2, <1>3 DEF PassesFine, Carried

LEMMA ObjectsKept ==
    ASSUME PassesFine, UNCHANGED object
    PROVE  object' = [k \in Images |-> object'[k]] /\ \A k \in Images : object[k] = Gone => object'[k] = Gone
BY DEF PassesFine

\* The candidates a query finds are reports with an image.
LEMMA CandidatesCarried ==
    ASSUME Coherent, NEW now, NEW batch \in Batches(Candidates(now)), NEW c \in batch
    PROVE  c.req \in Reports /\ c.key \in Images
<1>1. c \in Candidates(now)
  BY DEF Batches
<1>2. PICK r \in Reports : Due(report[r], now) /\ c = [req |-> r, key |-> report[r].image, ended |-> EndedAt(report[r])]
  BY <1>1 DEF Candidates
<1>3. report[r].image \in Images \cup {None} /\ report[r].image # None
  BY <1>2 DEF Due, Coherent, TypeOK, ReportRows
<1> QED
  BY <1>2, <1>3

LEMMA PassStepKeepsPasses ==
    ASSUME Coherent, PassesFine, NEW w \in Workers, PassStep(w)
    PROVE  PassesFine'
<1> DEFINE p == pass[w]
<1>0. Carried(p) /\ (p.at = "clear" => object[p.cur.key] = Gone)
  BY DEF PassesFine
<1>1. CASE Release(w)
  BY <1>1, GoneOn, ObjectsKept DEF Release, Carried, Asleep
<1>2. CASE Query(w)
  <2>1. PICK todo : /\ Go(w, [at |-> "reports", now |-> p.now, todo |-> todo])
                    /\ \A c \in todo : c.req \in Reports /\ c.key \in Images
    BY <1>2, CandidatesCarried DEF Query
  <2> QED
    BY <1>2, <2>1, GoneOn, ObjectsKept DEF Query, Carried
<1>3. CASE RevalidateReport(w)
  <2>1. p.at = "reports"
    BY <1>3 DEF RevalidateReport, On
  <2>2. PICK c \in p.todo :
           \/ Go(w, [at |-> "delete", now |-> p.now, todo |-> p.todo \ {c}, cur |-> c])
           \/ Go(w, [at |-> "reports", now |-> p.now, todo |-> p.todo \ {c}])
    BY <1>3 DEF RevalidateReport
  <2>3. CASE Go(w, [at |-> "delete", now |-> p.now, todo |-> p.todo \ {c}, cur |-> c])
    BY <1>0, <1>3, <2>1, <2>3, GoneOn, ObjectsKept DEF RevalidateReport, Carried
  <2>4. CASE Go(w, [at |-> "reports", now |-> p.now, todo |-> p.todo \ {c}])
    BY <1>0, <1>3, <2>1, <2>4, GoneOn, ObjectsKept DEF RevalidateReport, Carried
  <2> QED
    BY <2>2, <2>3, <2>4
<1>4. CASE DeleteImage(w)
  <2>1. p.at = "delete"
    BY <1>4 DEF DeleteImage, On
  <2>2. CASE /\ object' = [object EXCEPT ![p.cur.key] = Gone]
             /\ Go(w, [at |-> "clear", now |-> p.now, todo |-> p.todo, cur |-> p.cur])
    <3>1. /\ object' = [k \in Images |-> object'[k]] /\ object'[p.cur.key] = Gone
          /\ \A k \in Images : object[k] = Gone => object'[k] = Gone
      BY <1>0, <2>1, <2>2 DEF PassesFine, Carried
    <3> QED
      BY <1>0, <2>1, <2>2, <3>1, GoneOn DEF Carried
  <2>3. CASE NextCandidate(w) /\ UNCHANGED object
    BY <1>0, <2>1, <2>3, GoneOn, ObjectsKept DEF NextCandidate, Carried
  <2> QED
    BY <1>4, <2>2, <2>3 DEF DeleteImage
<1>5. CASE ClearReport(w)
  BY <1>0, <1>5, GoneOn, ObjectsKept DEF ClearReport, On, NextCandidate, Carried
<1>6. CASE ListObjects(w)
  <2>1. \/ Go(w, [at |-> "check", listed |-> OlderThan(p.now - OrphanRetention), orphans |-> {}])
        \/ Go(w, [at |-> "release"])
    BY <1>6 DEF ListObjects
  <2> QED
    BY <1>6, <2>1, GoneOn, ObjectsKept DEF ListObjects, Carried
<1>7. CASE CheckReference(w)
  <2>1. PICK k, more : Go(w, [at |-> "check", listed |-> p.listed \ {k}, orphans |-> p.orphans \cup more])
    BY <1>7 DEF CheckReference
  <2> QED
    BY <1>7, <2>1, GoneOn, ObjectsKept DEF CheckReference, Carried
<1>8. CASE DeleteOrphans(w)
  <2>1. PICK deleted : object' = [k \in Images |-> IF k \in deleted THEN Gone ELSE object[k]]
    BY <1>8 DEF DeleteOrphans
  <2>2. /\ object' = [k \in Images |-> object'[k]]
        /\ \A k \in Images : object[k] = Gone => object'[k] = Gone
    BY <2>1
  <2> QED
    BY <1>8, <2>2, GoneOn DEF DeleteOrphans, Carried
<1> QED
  BY <1>1, <1>2, <1>3, <1>4, <1>5, <1>6, <1>7, <1>8 DEF PassStep

LEMMA PassesStayFine == Coherent /\ PassesFine /\ [CleanupNext]_allVars => PassesFine'
<1> SUFFICES ASSUME Coherent, PassesFine, [CleanupNext]_allVars PROVE PassesFine'
  OBVIOUS
<1>1. CASE UNCHANGED <<object, pass>>
  BY <1>1 DEF PassesFine, Carried
<1>2. ASSUME NEW w \in Workers, Fire(w)
      PROVE  PassesFine'
  <2>1. CASE Go(w, [at |-> "query", now |-> clock])
    BY <1>2, <2>1, GoneOn, ObjectsKept DEF Fire, Carried
  <2>2. CASE UNCHANGED pass
    BY <1>1, <1>2, <2>2 DEF Fire
  <2> QED
    BY <1>2, <2>1, <2>2 DEF Fire
<1>3. ASSUME NEW w \in Workers, Crash(w)
      PROVE  PassesFine'
  BY <1>3, GoneOn, ObjectsKept DEF Crash, Carried, Asleep
<1>4. ASSUME NEW k \in Images, Upload(k)
      PROVE  PassesFine'
  <2>1. /\ object' = [q \in Images |-> object'[q]]
        /\ \A q \in Images : object[q] = Gone => object'[q] = Gone
    BY <1>4, GoneIsNothingElse DEF Upload, PassesFine
  <2>2. UNCHANGED pass
    BY <1>4 DEF Upload
  <2> QED
    BY <2>1, <2>2 DEF PassesFine, Carried
<1>5. ASSUME NEW w \in Workers, PassStep(w)
      PROVE  PassesFine'
  BY <1>5, PassStepKeepsPasses
<1>6. \/ UNCHANGED <<object, pass>>
      \/ \E w \in Workers : Fire(w) \/ Crash(w) \/ PassStep(w)
      \/ \E k \in Images : Upload(k)
  BY DEF CleanupNext, allVars, cleanup, ReportStep, WorkerStep, Restart, LoseConnection
<1> QED
  BY <1>1, <1>2, <1>3, <1>4, <1>5, <1>6

\* A step of a pass that goes on: it keeps its lock and does not fall asleep.
LEMMA LockKeptOn ==
    ASSUME PassesFine, LockFine, NEW w \in Workers, NEW next, Go(w, next), next.at # "asleep",
           ~On(w, "asleep"), up[w], faults' \in Nat, faults' = 0 => faults = 0, UNCHANGED <<lock, up>>
    PROVE  LockFine'
<1>1. \A v \in Workers : pass'[v] = IF v = w THEN next ELSE pass[v]
  BY DEF Go, PassesFine
<1>2. pass[w] # Asleep /\ next # Asleep
  BY DEF On, Asleep
<1> QED
  BY <1>1, <1>2 DEF LockFine

LEMMA Faults ==
    ASSUME LockFine, Fault \/ UNCHANGED faults
    PROVE  faults' \in Nat /\ (faults' = 0 => faults = 0) /\ (Fault => faults' # 0)
BY DEF LockFine, Fault

LEMMA PassStepKeepsLock ==
    ASSUME PassesFine, LockFine, NEW w \in Workers, PassStep(w)
    PROVE  LockFine'
<1>1. CASE Release(w)
  <2>1. \A v \in Workers : pass'[v] = IF v = w THEN Asleep ELSE pass[v]
    BY <1>1 DEF Release, Go, PassesFine
  <2>2. pass[w] # Asleep
    BY <1>1 DEF Release, On, Asleep
  <2> QED
    BY <1>1, <2>1, <2>2, WorkersAreNotNone DEF LockFine, Release, Unlocked
<1>2. CASE ~Release(w)
  <2>1. up[w] /\ ~On(w, "asleep") /\ UNCHANGED <<lock, up>>
    BY <1>2 DEF PassStep, On, Query, RevalidateReport, DeleteImage, ClearReport, ListObjects, CheckReference,
             DeleteOrphans
  <2>2. Fault \/ UNCHANGED faults
    BY <1>2 DEF PassStep, Query, RevalidateReport, DeleteImage, ClearReport, ListObjects, CheckReference,
             DeleteOrphans
  <2>3. \E next : Go(w, next) /\ next.at # "asleep"
    <3>1. CASE Query(w)
      <4>1. \E todo : Go(w, [at |-> "reports", now |-> pass[w].now, todo |-> todo])
        BY <3>1 DEF Query
      <4> QED
        BY <4>1
    <3>2. CASE RevalidateReport(w)
      BY <3>2 DEF RevalidateReport
    <3>3. CASE DeleteImage(w) \/ ClearReport(w)
      BY <3>3 DEF DeleteImage, ClearReport, NextCandidate
    <3>4. CASE ListObjects(w)
      BY <3>4 DEF ListObjects
    <3>5. CASE CheckReference(w)
      BY <3>5 DEF CheckReference
    <3>6. CASE DeleteOrphans(w)
      BY <3>6 DEF DeleteOrphans
    <3> QED
      BY <1>2, <3>1, <3>2, <3>3, <3>4, <3>5, <3>6 DEF PassStep
  <2> QED
    BY <2>1, <2>2, <2>3, Faults, LockKeptOn
<1> QED
  BY <1>1, <1>2

LEMMA LockStaysFine == PassesFine /\ LockFine /\ [CleanupNext]_allVars => LockFine'
<1> SUFFICES ASSUME PassesFine, LockFine, [CleanupNext]_allVars PROVE LockFine'
  OBVIOUS
<1>1. CASE UNCHANGED <<lock, up, pass, faults>>
  BY <1>1 DEF LockFine
<1>2. ASSUME NEW w \in Workers, PassStep(w)
      PROVE  LockFine'
  BY <1>2, PassStepKeepsLock
<1>3. ASSUME NEW w \in Workers, Fire(w)
      PROVE  LockFine'
  <2>1. CASE lock = None
    <3> DEFINE next == [at |-> "query", now |-> clock]
    <3>1. lock' = w /\ UNCHANGED <<up, faults>> /\ up[w] /\ Go(w, next)
      BY <1>3, <2>1 DEF Fire, HeldElsewhere, On
    <3>2. next # Asleep
      BY DEF Asleep
    <3> HIDE DEF next
    <3>3. \A v \in Workers : pass'[v] = IF v = w THEN next ELSE pass[v]
      BY <3>1 DEF Go, PassesFine
    <3> QED
      BY <2>1, <3>1, <3>2, <3>3, WorkersAreNotNone DEF LockFine
  <2>2. CASE lock # None
    <3>1. up' = [up EXCEPT ![w] = FALSE] /\ UNCHANGED <<lock, pass, faults>> /\ pass[w] = Asleep
      BY <1>3, <2>2 DEF Fire, HeldElsewhere, On, PassesFine
    <3> QED
      BY <2>2, <3>1 DEF LockFine
  <2> QED
    BY <2>1, <2>2
<1>4. ASSUME NEW w \in Workers, Restart(w)
      PROVE  LockFine'
  BY <1>4 DEF Restart, LockFine
<1>5. ASSUME NEW w \in Workers, Crash(w)
      PROVE  LockFine'
  <2>1. \A v \in Workers : pass'[v] = IF v = w THEN Asleep ELSE pass[v]
    BY <1>5 DEF Crash, Go, PassesFine
  <2>2. faults' \in Nat /\ faults' # 0
    BY <1>5, Faults DEF Crash
  <2>3. up' = [v \in Workers |-> up'[v]] /\ \A v \in Workers : v # w => up'[v] = up[v]
    BY <1>5 DEF Crash, LockFine
  <2> QED
    BY <1>5, <2>1, <2>2, <2>3, WorkersAreNotNone DEF Crash, LockFine, Unlocked
<1>6. ASSUME NEW w \in Workers, LoseConnection(w)
      PROVE  LockFine'
  BY <1>6, Faults DEF LoseConnection, LockFine
<1>7. \/ UNCHANGED <<lock, up, pass, faults>>
      \/ \E w \in Workers : PassStep(w) \/ Fire(w) \/ Restart(w) \/ Crash(w) \/ LoseConnection(w)
  BY DEF CleanupNext, allVars, cleanup, ReportStep, WorkerStep, Upload
<1> QED
  BY <1>1, <1>2, <1>3, <1>4, <1>5, <1>6, <1>7

LEMMA CleanupStartsCoherent == CleanupInit => CleanupCoherent
<1> SUFFICES ASSUME CleanupInit PROVE CleanupCoherent
  OBVIOUS
<1>1. Coherent
  BY StartsCoherent DEF CleanupInit
<1> QED
  BY <1>1 DEF CleanupInit, CleanupCoherent, PassesFine, LockFine, Carried, Asleep

LEMMA AlwaysCleanupCoherent == CleanupSpec => []CleanupCoherent
<1>1. CleanupCoherent /\ [CleanupNext]_allVars => CleanupCoherent'
  BY CleanupStaysCoherent, PassesStayFine, LockStaysFine DEF CleanupCoherent
<1> QED
  BY CleanupStartsCoherent, <1>1, PTL DEF CleanupSpec

\* Two passes are under way only after a connection or a process was lost, and
\* the lock is never left behind by a replica that has no pass.
THEOREM PassesExcludeEachOther == CleanupSpec => []OnePassAtATime
<1>1. CleanupCoherent => OnePassAtATime
  BY DEF CleanupCoherent, LockFine, OnePassAtATime
<1> QED
  BY <1>1, AlwaysCleanupCoherent, PTL

\* A step of the reports takes no report's image away.
LEMMA ReportsKeepImages ==
    ASSUME Coherent, [Next]_vars, NEW r \in Reports, report[r].image # None
    PROVE  report'[r].image # None
<1>1. CASE UNCHANGED rows
  BY <1>1 DEF rows
<1>2. ASSUME NEW q \in Reports, NEW image \in Images \cup {None}, Create(q, image)
      PROVE  report'[r].image # None
  <2>1. q # r
    BY <1>2 DEF Create, Coherent, TypeOK, NoReport
  <2> QED
    BY <1>2, <2>1 DEF Create, Coherent, TypeOK
<1>3. ASSUME NEW s \in Sessions, CommitConfirm(s)
      PROVE  report'[r].image # None
  <2> DEFINE c == call[s]
  <2>1. report \in [Reports -> ReportRows] /\ c.req \in Reports /\ c.image \in Images \cup {None}
    BY <1>3, CallFields DEF Coherent, TypeOK, CommitConfirm
  <2>2. CASE c.req # r
    BY <1>3, <2>1, <2>2 DEF CommitConfirm, Confirmed
  <2>3. CASE c.req = r
    <3>1. Refreshed(report[r], c).image # None
      BY <2>1, <2>3 DEF Refreshed, ReportRows
    <3>2. PICK resolved : report'[r] = [Refreshed(report[r], c) EXCEPT !.resolved = resolved]
      BY <1>3, <2>1, <2>3 DEF CommitConfirm, Confirmed
    <3> QED
      BY <3>1, <3>2
  <2> QED
    BY <2>2, <2>3
<1>4. ASSUME NEW q, NEW hidden, report' = [report EXCEPT ![q].hidden = hidden]
      PROVE  report'[r].image # None
  BY <1>4 DEF Coherent, TypeOK, ReportRows
<1>5. ASSUME NEW s \in Sessions, CommitComplaint(s)
      PROVE  report'[r].image # None
  BY <1>4, <1>5 DEF CommitComplaint
<1>6. ASSUME NEW q \in Reports, NEW action \in Actions, Apply(q, action)
      PROVE  report'[r].image # None
  BY <1>4, <1>6 DEF Apply
<1> QED
  BY <1>1, <1>2, <1>3, <1>5, <1>6, RowsChange

\* A report loses its image only after the object is gone from storage.
THEOREM ImagesOutliveTheirReports == CleanupSpec => ClearedAfterGone
<1> DEFINE Cleared == \A r \in Reports :
               report[r].image # None /\ report'[r].image = None => object[report[r].image] = Gone
<1>1. CleanupCoherent /\ [CleanupNext]_allVars => Cleared
  <2> SUFFICES ASSUME CleanupCoherent, [CleanupNext]_allVars, NEW r \in Reports,
                      report[r].image # None, report'[r].image = None
               PROVE  object[report[r].image] = Gone
    OBVIOUS
  <2>1. ~UNCHANGED report
    OBVIOUS
  <2>2. ReportStep \/ \E w \in Workers : ClearReport(w)
    BY <2>1 DEF CleanupNext, allVars, vars, rows, Upload, WorkerStep, PassStep, Fire, Restart, Crash, LoseConnection,
             Release, Query, RevalidateReport, DeleteImage, ListObjects, CheckReference, DeleteOrphans
  <2>3. CASE ReportStep
    <3>1. Coherent /\ Next
      BY <2>3, ReportStepIsNext DEF CleanupCoherent
    <3> QED
      BY <3>1, <2>3, ReportsKeepImages
  <2>4. ASSUME NEW w \in Workers, ClearReport(w)
        PROVE  object[report[r].image] = Gone
    <3> DEFINE cur == pass[w].cur
    <3>1. report[cur.req].image = cur.key /\ report' = [report EXCEPT ![cur.req].image = None]
      BY <2>1, <2>4 DEF ClearReport, ClearImageIfUnchanged
    <3>2. object[cur.key] = Gone
      BY <2>4 DEF CleanupCoherent, PassesFine, ClearReport, On
    <3>3. cur.req = r
      BY <3>1 DEF CleanupCoherent, Coherent, TypeOK
    <3> QED
      BY <3>1, <3>2, <3>3
  <2> QED
    BY <2>2, <2>3, <2>4
<1>2. [][Cleared]_allVars => ClearedAfterGone
  BY PTL DEF ClearedAfterGone
<1> HIDE DEF Cleared
<1> QED
  BY AlwaysCleanupCoherent, <1>1, <1>2, PTL DEF CleanupSpec

-----------------------------------------------------------------------------
(* The maps and the planner: what the queries answer, whose LIMIT is any    *)
(* choice; that the corridor's boxes hold all that is near a path; that the *)
(* candidates' places are a permutation; and what a score says.  All of it  *)
(* needs no more of a state than RowsSound.                                 *)

\* Induction over a set of numbers.
LEMMA AllNaturals ==
    ASSUME NEW S, 0 \in S, \A n \in Nat : n \in S => n + 1 \in S
    PROVE  Nat \subseteq S
<1> DEFINE R == {ss \in Nat \X Nat : ss[1] < ss[2]}
           T == Nat \ S
<1>1. IsWellFoundedOn(R, Nat)
  <2>1. OpToRel(<, Nat) = R
    BY Zenon DEF OpToRel
  <2>2. QED
    BY <2>1, NatLessThanWellFounded, Zenon
<1>2. CASE T # {}
  <2>1. PICK n \in T : \A m \in T : ~(<<m, n>> \in R)
    <3>1. T \subseteq Nat
      OBVIOUS
    <3> HIDE DEF R, T
    <3>2. QED
      BY <1>1, <1>2, <3>1, WFMin, Zenon
  <2>2. n # 0 /\ n - 1 \in Nat
    OBVIOUS
  <2>3. <<n - 1, n>> \in R
    BY <2>2
  <2>4. n - 1 \in S
    BY <2>1, <2>2, <2>3
  <2>5. QED
    BY <2>2, <2>4
<1>3. QED
  BY <1>2

\* Going through a finite sequence of integers keeps a least element.
LEMMA LeastOfMany ==
    ASSUME NEW n \in Nat, NEW f, \A i \in 1..n : f[i] \in Int, n > 0
    PROVE  \E m \in 1..n : \A i \in 1..n : f[m] <= f[i]
<1> DEFINE least == {k \in Nat : k \in 1..n => \E m \in 1..k : \A i \in 1..k : f[m] <= f[i]}
<1>1. 0 \in least
  OBVIOUS
<1>2. ASSUME NEW k \in Nat, k \in least PROVE k + 1 \in least
  <2>1. SUFFICES ASSUME k + 1 \in 1..n
                 PROVE  \E m \in 1..(k + 1) : \A i \in 1..(k + 1) : f[m] <= f[i]
    OBVIOUS
  <2>2. CASE k = 0
    <3>1. \A i \in 1..(k + 1) : i = 1
      BY <2>2
    <3>2. f[1] <= f[1] /\ 1 \in 1..(k + 1)
      BY <2>1, <2>2
    <3>3. QED
      BY <3>1, <3>2
  <2>3. CASE k \in 1..n
    <3>1. PICK m \in 1..k : \A i \in 1..k : f[m] <= f[i]
      BY <1>2, <2>3
    <3>2. /\ \A i \in 1..(k + 1) : i \in 1..k \/ i = k + 1
          /\ \A i \in 1..k : i \in 1..n
          /\ m \in 1..(k + 1) /\ k + 1 \in 1..(k + 1)
      BY <2>3
    <3>3. f[m] \in Int /\ f[k + 1] \in Int /\ \A i \in 1..k : f[i] \in Int
      BY <2>1, <3>2
    <3>4. CASE f[m] <= f[k + 1]
      BY <3>1, <3>2, <3>4
    <3>5. CASE f[k + 1] < f[m]
      <4>1. \A i \in 1..k : f[k + 1] <= f[i]
        BY <3>1, <3>3, <3>5
      <4>2. \A i \in 1..(k + 1) : f[k + 1] <= f[i]
        BY <3>2, <3>3, <4>1
      <4>3. QED
        BY <3>2, <4>2
    <3>6. QED
      BY <3>3, <3>4, <3>5
  <2>4. QED
    BY <2>1, <2>2, <2>3
<1>3. Nat \subseteq least
  <2>1. \A k \in Nat : k \in least => k + 1 \in least
    BY <1>2
  <2> HIDE DEF least
  <2>2. QED
    BY <1>1, <2>1, AllNaturals
<1>4. n \in 1..n
  OBVIOUS
<1>5. QED
  BY <1>3, <1>4

\* A finite set of integers has a least and a greatest element.
LEMMA FiniteMinMax ==
    ASSUME NEW S, S \subseteq Int, IsFiniteSet(S), S # {}
    PROVE  /\ Min(S) \in S /\ \A y \in S : Min(S) <= y
           /\ Max(S) \in S /\ \A y \in S : y <= Max(S)
<1>1. PICK n \in Nat : n = Cardinality(S) /\ ExistsBijection(1..n, S)
  BY FS_CardinalityType
<1>2. PICK f \in Bijection(1..n, S) : TRUE
  BY <1>1, Zenon DEF ExistsBijection
<1>3. /\ \A i \in 1..n : f[i] \in S
      /\ \A y \in S : \E i \in 1..n : f[i] = y
  BY <1>2, Zenon DEF Bijection, Surjection, Injection
<1>4. n > 0
  <2>1. PICK y \in S : TRUE
    OBVIOUS
  <2>2. PICK i \in 1..n : f[i] = y
    BY <1>3
  <2>3. QED
    OBVIOUS
<1>5. \A i \in 1..n : f[i] \in Int
  BY <1>3
<1>6. PICK lo \in 1..n : \A i \in 1..n : f[lo] <= f[i]
  BY <1>4, <1>5, LeastOfMany
<1> DEFINE g == [i \in 1..n |-> - f[i]]
<1>7. PICK hi \in 1..n : \A i \in 1..n : g[hi] <= g[i]
  <2>1. \A i \in 1..n : g[i] \in Int
    BY <1>5
  <2> HIDE DEF g
  <2>2. QED
    BY <1>4, <2>1, LeastOfMany
<1>8. \A i \in 1..n : f[hi] >= f[i]
  BY <1>5, <1>7
<1>9. f[lo] \in S /\ \A y \in S : f[lo] <= y
  BY <1>3, <1>6
<1>10. f[hi] \in S /\ \A y \in S : f[hi] >= y
  BY <1>3, <1>8
<1>11. Min(S) \in S /\ \A y \in S : Min(S) <= y
  BY <1>9, Zenon DEF Min
<1>12. Max(S) \in S /\ \A y \in S : Max(S) >= y
  BY <1>10, Zenon DEF Max
<1>13. \A y \in S : y <= Max(S)
  BY <1>12
<1>14. QED
  BY <1>11, <1>12, <1>13

\* What a query's LIMIT keeps is part of the answer, all of it when it fits,
\* and never nothing of something.
LEMMA CutKeeps ==
    ASSUME NEW rows_, IsFiniteSet(rows_), NEW limit \in Nat, NEW before,
           NEW kept \in Cut(rows_, limit, before)
    PROVE  /\ kept \subseteq rows_ /\ IsFiniteSet(kept)
           /\ Cardinality(rows_) <= limit => kept = rows_
           /\ Cardinality(kept) < limit => kept = rows_
           /\ rows_ # {} /\ limit > 0 => kept # {}
<1>1. kept \in SUBSET rows_
  BY DEF Cut
<1>2. Cardinality(kept) = IF Cardinality(rows_) < limit THEN Cardinality(rows_) ELSE limit
  BY DEF Cut
<1>3. Cardinality(rows_) \in Nat /\ Cardinality(kept) \in Nat
  BY <1>1, FS_Subset, FS_CardinalityType
<1>4. IsFiniteSet(kept) /\ (Cardinality(rows_) = Cardinality(kept) => rows_ = kept)
  BY <1>1, FS_Subset
<1>5. rows_ # {} => Cardinality(rows_) # 0
  BY FS_EmptySet
<1>6. Cardinality({}) = 0
  BY FS_EmptySet
<1>7. Cardinality(rows_) <= limit => Cardinality(rows_) = Cardinality(kept)
  BY <1>2, <1>3
<1>8. Cardinality(kept) < limit => Cardinality(rows_) = Cardinality(kept)
  BY <1>2, <1>3
<1>9. rows_ # {} /\ limit > 0 => Cardinality(kept) # 0
  BY <1>2, <1>3, <1>5
<1>10. QED
  BY <1>1, <1>4, <1>6, <1>7, <1>8, <1>9

\* A page is part of what matches, and all of it unless it says there is more.
LEMMA PageIsWhole ==
    ASSUME NEW boxes, NEW statuses, NEW limit \in Nat, NEW now,
           NEW answer \in Page(boxes, statuses, limit, now)
    PROVE  /\ answer.reports \subseteq Matches(boxes, statuses, now)
           /\ IsFiniteSet(answer.reports)
           /\ ~answer.more => answer.reports = Matches(boxes, statuses, now)
<1> DEFINE all == Matches(boxes, statuses, now)
<1>1. IsFiniteSet(all)
  BY ReportsAreFinite, FS_Subset DEF Matches
<1>2. PICK loaded \in ListQuery(boxes, statuses, limit + 1, now) :
          \E kept \in Cut(loaded, limit, Newer) :
              answer = [reports |-> kept, more |-> Cardinality(loaded) > limit]
  BY DEF Page
<1>3. PICK kept \in Cut(loaded, limit, Newer) :
          answer = [reports |-> kept, more |-> Cardinality(loaded) > limit]
  BY <1>2
<1>4. loaded \in Cut(all, limit + 1, Newer)
  BY <1>2 DEF ListQuery
<1> HIDE DEF all
<1>5. /\ loaded \subseteq all /\ IsFiniteSet(loaded)
      /\ Cardinality(loaded) < limit + 1 => loaded = all
  BY <1>1, <1>4, CutKeeps
<1>6. /\ kept \subseteq loaded /\ IsFiniteSet(kept)
      /\ Cardinality(loaded) <= limit => kept = loaded
  BY <1>3, <1>5, CutKeeps
<1>7. Cardinality(loaded) \in Nat
  BY <1>5, FS_CardinalityType
<1>8. ~answer.more => Cardinality(loaded) <= limit /\ Cardinality(loaded) < limit + 1
  <2>1. ~answer.more => ~(Cardinality(loaded) > limit)
    BY <1>3
  <2>2. QED
    BY <1>7, <2>1
<1>9. answer.reports = kept
  BY <1>3
<1>10. QED
  BY <1>5, <1>6, <1>8, <1>9 DEF all

\* What the proofs need to know of a state.
RowsSound ==
    /\ clock \in Nat
    /\ report \in [Reports -> ReportRows]
    /\ \A r \in Reports : report[r].stale <= report[r].expires
    /\ condition \in [Reports -> ConditionRows]

\* The predicates of the queries say what Status says.
LEMMA StatusesAgree ==
    ASSUME RowsSound, NEW r \in Reports
    PROVE  /\ Status(report[r], clock) \in Statuses
           /\ \A s \in Statuses : HasStatus(report[r], s, clock) <=> Status(report[r], clock) = s
<1>1. /\ report[r].stale \in Nat /\ report[r].expires \in Nat /\ clock \in Nat
      /\ report[r].stale <= report[r].expires
  BY DEF RowsSound, ReportRows
<1>2. QED
  BY <1>1 DEF Status, HasStatus, Statuses

LEMMA MatchesByStatus ==
    ASSUME RowsSound, NEW boxes, NEW statuses \in SUBSET Statuses
    PROVE  Matches(boxes, statuses, clock) =
               {r \in Reports : /\ Shown(r)
                                /\ Status(report[r], clock) \in statuses
                                /\ boxes # {} => \E box \in boxes : InBox(condition[r].at, box)}
<1>1. ASSUME NEW r \in Reports
      PROVE  (\E s \in statuses : HasStatus(report[r], s, clock))
                 <=> Status(report[r], clock) \in statuses
  BY StatusesAgree
<1>2. QED
  BY <1>1, Zenon DEF Matches

\* The least and the greatest of two.
LEMMA PairMinMax ==
    ASSUME NEW a \in Int, NEW b \in Int
    PROVE  /\ Min({a, b}) \in {a, b} /\ Min({a, b}) <= a /\ Min({a, b}) <= b
           /\ Max({a, b}) \in {a, b} /\ a <= Max({a, b}) /\ b <= Max({a, b})
<1>1. IsFiniteSet({a, b}) /\ {a, b} \subseteq Int /\ {a, b} # {}
  <2>1. IsFiniteSet({a})
    BY FS_Singleton
  <2>2. {a} \cup {b} = {a, b}
    OBVIOUS
  <2>3. QED
    BY <2>1, <2>2, FS_AddElement
<1> HIDE DEF Min, Max
<1>2. QED
  BY <1>1, FiniteMinMax

\* What a function makes of a finite set is finite.
LEMMA ImagesAreFinite ==
    ASSUME NEW S, IsFiniteSet(S), NEW f, DOMAIN f = S, f = [x \in S |-> f[x]]
    PROVE  /\ IsFiniteSet({f[x] : x \in S})
           /\ Cardinality({f[x] : x \in S}) <= Cardinality(S)
<1> DEFINE T == {f[x] : x \in S}
<1>1. f \in Surjection(S, T)
  BY Zenon DEF Surjection
<1> HIDE DEF T
<1>2. QED
  BY <1>1, FS_Surjection DEF T

\* A box holds the points it was made for, with the padding around them.
LEMMA BoxHolds ==
    ASSUME NEW points, points \subseteq Points, IsFiniteSet(points), NEW pad \in Int,
           NEW a \in points, NEW b \in points
    PROVE  /\ \A p \in Points :
                  /\ Min({a[1], b[1]}) - pad <= p[1] /\ p[1] <= Max({a[1], b[1]}) + pad
                  /\ Min({a[2], b[2]}) - pad <= p[2] /\ p[2] <= Max({a[2], b[2]}) + pad
                  => InBox(p, Box(points, pad))
<1> DEFINE xs == {p[1] : p \in points}
           ys == {p[2] : p \in points}
           fx == [p \in points |-> p[1]]
           fy == [p \in points |-> p[2]]
<1>1. IsFiniteSet(xs)
  <2>1. IsFiniteSet({fx[p] : p \in points})
    BY ImagesAreFinite
  <2>2. {fx[p] : p \in points} = xs
    OBVIOUS
  <2>3. QED
    BY <2>1, <2>2
<1>2. IsFiniteSet(ys)
  <2>1. IsFiniteSet({fy[p] : p \in points})
    BY ImagesAreFinite
  <2>2. {fy[p] : p \in points} = ys
    OBVIOUS
  <2>3. QED
    BY <2>1, <2>2
<1>3. /\ a[1] \in xs /\ b[1] \in xs /\ a[2] \in ys /\ b[2] \in ys
      /\ xs \subseteq Int /\ ys \subseteq Int
  BY DEF Points
<1>4. Box(points, pad) = [min |-> <<Min(xs) - pad, Min(ys) - pad>>,
                          max |-> <<Max(xs) + pad, Max(ys) + pad>>]
  BY DEF Box
<1> HIDE DEF xs, ys
<1>5. /\ Min(xs) \in Int /\ Max(xs) \in Int
      /\ Min(xs) <= a[1] /\ a[1] <= Max(xs) /\ Min(xs) <= b[1] /\ b[1] <= Max(xs)
  BY <1>1, <1>3, FiniteMinMax
<1>6. /\ Min(ys) \in Int /\ Max(ys) \in Int
      /\ Min(ys) <= a[2] /\ a[2] <= Max(ys) /\ Min(ys) <= b[2] /\ b[2] <= Max(ys)
  BY <1>2, <1>3, FiniteMinMax
<1>7. /\ a[1] \in Int /\ b[1] \in Int /\ a[2] \in Int /\ b[2] \in Int
  BY <1>3
<1>8. /\ Min({a[1], b[1]}) \in {a[1], b[1]} /\ Max({a[1], b[1]}) \in {a[1], b[1]}
      /\ Min({a[2], b[2]}) \in {a[2], b[2]} /\ Max({a[2], b[2]}) \in {a[2], b[2]}
  BY <1>7, PairMinMax
<1>9. QED
  BY <1>4, <1>5, <1>6, <1>7, <1>8 DEF InBox, Points

LEMMA EverywhereHoldsAll ==
    ASSUME RowsSound, NEW r \in Reports
    PROVE  InBox(condition[r].at, Everywhere)
<1> DEFINE at == [q \in Reports |-> condition[q].at]
           places == {condition[q].at : q \in Reports}
<1>1. \A q \in Reports : condition[q].at \in Points
  BY DEF RowsSound, ConditionRows
<1>2. IsFiniteSet(places)
  <2>1. IsFiniteSet({at[q] : q \in Reports})
    BY ReportsAreFinite, ImagesAreFinite
  <2>2. {at[q] : q \in Reports} = places
    OBVIOUS
  <2>3. QED
    BY <2>1, <2>2
<1>3. places \subseteq Points /\ condition[r].at \in places
  BY <1>1
<1>4. Everywhere = Box(places, 0)
  BY DEF Everywhere
<1> DEFINE p == condition[r].at
<1>5. p[1] \in Int /\ p[2] \in Int /\ p \in Points /\ p \in places
  BY <1>3 DEF Points
<1> HIDE DEF places, p
<1>6. /\ Min({p[1], p[1]}) = p[1] /\ Max({p[1], p[1]}) = p[1]
      /\ Min({p[2], p[2]}) = p[2] /\ Max({p[2], p[2]}) = p[2]
  BY <1>5, PairMinMax
<1>7. InBox(p, Box(places, 0))
  BY <1>2, <1>3, <1>5, <1>6, BoxHolds
<1>8. QED
  BY <1>4, <1>7 DEF p

LEMMA SquaresGrow ==
    ASSUME NEW a \in Int, NEW b \in Int, NEW radius \in Nat, Sq(a) + Sq(b) <= Sq(radius)
    PROVE  -radius <= a /\ a <= radius /\ -radius <= b /\ b <= radius
<1>1. ASSUME NEW x \in Nat, x > radius
      PROVE  x * x > radius * radius
  BY <1>1
<1>2. \A x \in Int : x * x >= 0 /\ (-x) * (-x) = x * x
  OBVIOUS
<1>3. a * a + b * b <= radius * radius
  BY DEF Sq
<1>4. a * a \in Int /\ b * b \in Int /\ radius * radius \in Int
  OBVIOUS
<1>5. a * a <= radius * radius /\ b * b <= radius * radius
  BY <1>2, <1>3, <1>4
<1>6. ASSUME NEW x \in Int, x * x <= radius * radius
      PROVE  -radius <= x /\ x <= radius
  <2>1. x > radius => x * x > radius * radius
    BY <1>1
  <2>2. -x > radius => (-x) * (-x) > radius * radius
    BY <1>1
  <2>3. x * x \in Int /\ (-x) * (-x) = x * x
    OBVIOUS
  <2>4. QED
    BY <1>4, <1>6, <2>1, <2>2, <2>3
<1>7. QED
  BY <1>5, <1>6

\* Outside is no less than the distance to either end of the interval.
LEMMA OutsideBounds ==
    ASSUME NEW n \in Int, NEW a \in Int, NEW b \in Int
    PROVE  /\ Outside(n, a, b) \in Nat
           /\ Min({a, b}) - Outside(n, a, b) <= n
           /\ n <= Max({a, b}) + Outside(n, a, b)
<1> DEFINE lo == Min({a, b})
           hi == Max({a, b})
<1>1. lo \in Int /\ hi \in Int
  BY PairMinMax
<1> HIDE DEF lo, hi
<1>2. /\ IsFiniteSet({0, lo - n, n - hi})
      /\ {0, lo - n, n - hi} \subseteq Int /\ {0, lo - n, n - hi} # {}
  <2>1. IsFiniteSet({0})
    BY FS_Singleton
  <2>2. IsFiniteSet({0} \cup {lo - n})
    BY <2>1, FS_AddElement
  <2>3. IsFiniteSet(({0} \cup {lo - n}) \cup {n - hi})
    BY <2>2, FS_AddElement
  <2>4. ({0} \cup {lo - n}) \cup {n - hi} = {0, lo - n, n - hi}
    OBVIOUS
  <2>5. QED
    BY <1>1, <2>3, <2>4
<1> DEFINE out == Max({0, lo - n, n - hi})
<1>3. out \in {0, lo - n, n - hi} /\ 0 <= out /\ lo - n <= out /\ n - hi <= out
  <2> HIDE DEF Max
  <2>1. QED
    BY <1>2, FiniteMinMax
<1>4. Outside(n, a, b) = out
  BY DEF Outside, lo, hi
<1> HIDE DEF out
<1>5. out \in Int
  BY <1>1, <1>3
<1>6. out \in Nat /\ lo - out <= n /\ n <= hi + out
  BY <1>1, <1>3, <1>5
<1>7. QED
  BY <1>4, <1>6 DEF lo, hi

LEMMA ChunksCover ==
    ASSUME NEW path \in Seq(Points), NEW chunk \in Nat \ {0}, NEW i \in 1..Len(path)
    PROVE  \E start \in {n \in 1..Len(path) : (n - 1) % chunk = 0} :
               /\ path[i] \in Chunk(path, start, chunk)
               /\ i < Len(path) => path[i + 1] \in Chunk(path, start, chunk)
               /\ Chunk(path, start, chunk) \subseteq Points
               /\ IsFiniteSet(Chunk(path, start, chunk))
<1> DEFINE q == (i - 1) \div chunk
           start == chunk * q + 1
           last == Min({start + chunk, Len(path)})
<1>0. i - 1 \in Nat /\ Len(path) \in Nat
  OBVIOUS
<1>1. q \in Nat /\ chunk * q <= i - 1 /\ i - 1 < chunk * q + chunk /\ chunk * q \in Nat
  <2>1. \A n \in Nat, d \in Nat \ {0} :
            /\ n \div d \in Nat
            /\ d * (n \div d) <= n /\ n < d * (n \div d) + d /\ d * (n \div d) \in Nat
    OBVIOUS
  <2>2. QED
    BY <1>0, <2>1
<1> HIDE DEF q
<1>2. (start - 1) % chunk = 0
  <2>1. \A k \in Nat, d \in Nat \ {0} : (d * k) % d = 0
    OBVIOUS
  <2>2. start - 1 = chunk * q
    BY <1>1
  <2>3. QED
    BY <1>1, <2>1, <2>2
<1>3. start \in 1..Len(path) /\ start <= i /\ i <= start + chunk - 1
  BY <1>0, <1>1
<1> HIDE DEF start
<1>4. last \in Int /\ last <= Len(path) /\ last <= start + chunk
      /\ (last = start + chunk \/ last = Len(path))
  <2>1. start + chunk \in Int /\ Len(path) \in Int
    BY <1>0, <1>3
  <2> HIDE DEF Min, Max
  <2>2. last \in {start + chunk, Len(path)} /\ last <= start + chunk /\ last <= Len(path)
    BY <2>1, PairMinMax
  <2>3. QED
    BY <2>1, <2>2
<1>5. Chunk(path, start, chunk) = {path[n] : n \in start..last}
  BY DEF Chunk
<1> HIDE DEF last
<1>6. i \in start..last /\ (i < Len(path) => i + 1 \in start..last)
  BY <1>0, <1>3, <1>4
<1>7. \A n \in start..last : n \in 1..Len(path) /\ path[n] \in Points
  <2>1. \A n \in start..last : n \in 1..Len(path)
    BY <1>0, <1>3, <1>4
  <2>2. QED
    BY <2>1
<1>8. IsFiniteSet({path[n] : n \in start..last})
  <2> DEFINE f == [n \in start..last |-> path[n]]
  <2>1. IsFiniteSet(start..last)
    BY <1>3, <1>4, FS_Interval
  <2>2. IsFiniteSet({f[n] : n \in start..last})
    BY <2>1, ImagesAreFinite
  <2>3. {f[n] : n \in start..last} = {path[n] : n \in start..last}
    OBVIOUS
  <2>4. QED
    BY <2>2, <2>3
<1>9. QED
  BY <1>2, <1>3, <1>5, <1>6, <1>7, <1>8

\* A pad is as wide as it is meant to be, or falls short of it.
LEMMA PadsFallShort == \A n \in Nat : Padded(n) \in Nat /\ Padded(n) <= n
BY PadShortIsNat DEF Padded

\* A point no farther from a path than its corridor is padded by is in a box
\* of the corridor.
LEMMA CorridorCovers ==
    ASSUME NEW path \in Seq(Points), NEW p \in Points, NEW radius \in Nat,
           NEW meters \in Nat, radius <= Padded(meters),
           NearPath(p, path, radius), NEW maxBoxes \in Nat \ {0}
    PROVE  \E box \in CorridorBoxes(path, meters, maxBoxes) : InBox(p, box)
<1> DEFINE pad == Padded(meters)
<1>0. pad \in Nat /\ radius <= pad
  BY PadsFallShort
<1> DEFINE chunk == (Len(path) + maxBoxes - 1) \div maxBoxes
<1>1. Len(path) \in Nat /\ Len(path) > 0
  BY DEF NearPath
<1>2. chunk \in Nat \ {0}
  <2>1. \A n \in Nat, d \in Nat \ {0} : n >= d => n \div d \in Nat /\ n \div d >= 1
    OBVIOUS
  <2>2. Len(path) + maxBoxes - 1 \in Nat /\ Len(path) + maxBoxes - 1 >= maxBoxes
    BY <1>1
  <2>3. QED
    BY <2>1, <2>2
<1>3. CorridorBoxes(path, meters, maxBoxes) =
          {Box(Chunk(path, start, chunk), pad) :
               start \in {n \in 1..Len(path) : (n - 1) % chunk = 0}}
  BY <1>1 DEF CorridorBoxes
<1> HIDE DEF chunk, pad
<1>4. p[1] \in Int /\ p[2] \in Int
  BY DEF Points
<1>5. CASE Len(path) = 1
  <2>1. path[1] \in Points /\ path[1][1] \in Int /\ path[1][2] \in Int
    BY <1>1 DEF Points
  <2> DEFINE a == path[1]
  <2>2. Sq(p[1] - a[1]) + Sq(p[2] - a[2]) <= Sq(radius)
    BY <1>5 DEF NearPath, DistanceSq
  <2>3. PICK start \in {n \in 1..Len(path) : (n - 1) % chunk = 0} :
            /\ a \in Chunk(path, start, chunk)
            /\ Chunk(path, start, chunk) \subseteq Points
            /\ IsFiniteSet(Chunk(path, start, chunk))
    <3>1. 1 \in 1..Len(path)
      BY <1>1
    <3>2. QED
      BY <1>2, <3>1, ChunksCover
  <2> HIDE DEF a
  <2>. a[1] \in Int /\ a[2] \in Int
    BY <2>1 DEF a
  <2>4. /\ -radius <= p[1] - a[1] /\ p[1] - a[1] <= radius
        /\ -radius <= p[2] - a[2] /\ p[2] - a[2] <= radius
    BY <1>4, <2>1, <2>2, SquaresGrow DEF a
  <2>5. /\ Min({a[1], a[1]}) = a[1] /\ Max({a[1], a[1]}) = a[1]
        /\ Min({a[2], a[2]}) = a[2] /\ Max({a[2], a[2]}) = a[2]
    BY <2>1, PairMinMax DEF a
  <2>. \A n, m \in Int : -radius <= n - m /\ n - m <= radius => m - pad <= n /\ n <= m + pad
    BY <1>0
  <2>6. /\ a[1] - pad <= p[1] /\ p[1] <= a[1] + pad
        /\ a[2] - pad <= p[2] /\ p[2] <= a[2] + pad
    BY <1>0, <1>4, <2>4
  <2>7. InBox(p, Box(Chunk(path, start, chunk), pad))
    <3>1. pad \in Int
      BY <1>0
    <3>2. /\ Min({a[1], a[1]}) - pad <= p[1] /\ p[1] <= Max({a[1], a[1]}) + pad
          /\ Min({a[2], a[2]}) - pad <= p[2] /\ p[2] <= Max({a[2], a[2]}) + pad
      BY <2>5, <2>6, Zenon
    <3>3. QED
      BY <2>3, <3>1, <3>2, BoxHolds, Zenon
  <2>8. QED
    BY <1>3, <2>3, <2>7
<1>6. CASE Len(path) # 1
  <2>1. PICK i \in 1..Len(path) - 1 :
            Sq(Outside(p[1], path[i][1], path[i + 1][1]))
            + Sq(Outside(p[2], path[i][2], path[i + 1][2])) <= Sq(radius)
    BY <1>6 DEF NearPath
  <2> DEFINE a == path[i]
             b == path[i + 1]
             ox == Outside(p[1], a[1], b[1])
             oy == Outside(p[2], a[2], b[2])
  <2>2. i \in 1..Len(path) /\ i + 1 \in 1..Len(path) /\ i < Len(path)
    BY <1>1, <2>1
  <2>3. a \in Points /\ b \in Points
    BY <2>2
  <2>4. PICK start \in {n \in 1..Len(path) : (n - 1) % chunk = 0} :
            /\ a \in Chunk(path, start, chunk) /\ b \in Chunk(path, start, chunk)
            /\ Chunk(path, start, chunk) \subseteq Points
            /\ IsFiniteSet(Chunk(path, start, chunk))
    BY <1>2, <2>2, ChunksCover
  <2>5. Sq(ox) + Sq(oy) <= Sq(radius)
    BY <2>1
  <2> HIDE DEF a, b
  <2>6. a[1] \in Int /\ a[2] \in Int /\ b[1] \in Int /\ b[2] \in Int
    BY <2>3 DEF Points
  <2>7. /\ ox \in Nat /\ Min({a[1], b[1]}) - ox <= p[1] /\ p[1] <= Max({a[1], b[1]}) + ox
        /\ oy \in Nat /\ Min({a[2], b[2]}) - oy <= p[2] /\ p[2] <= Max({a[2], b[2]}) + oy
    BY <1>4, <2>6, OutsideBounds
  <2> HIDE DEF ox, oy
  <2>8. ox <= radius /\ oy <= radius
    BY <2>5, <2>7, SquaresGrow
  <2>9. /\ Min({a[1], b[1]}) \in Int /\ Max({a[1], b[1]}) \in Int
        /\ Min({a[2], b[2]}) \in Int /\ Max({a[2], b[2]}) \in Int
    BY <2>6, PairMinMax
  <2>. \A n, lo, hi \in Int, o \in Nat :
          lo - o <= n /\ n <= hi + o /\ o <= radius => lo - pad <= n /\ n <= hi + pad
    BY <1>0
  <2>10. /\ Min({a[1], b[1]}) - pad <= p[1] /\ p[1] <= Max({a[1], b[1]}) + pad
         /\ Min({a[2], b[2]}) - pad <= p[2] /\ p[2] <= Max({a[2], b[2]}) + pad
    BY <1>4, <2>7, <2>8, <2>9
  <2>11. InBox(p, Box(Chunk(path, start, chunk), pad))
    <3>1. pad \in Int
      BY <1>0
    <3>2. QED
      BY <2>4, <2>10, <3>1, BoxHolds, Zenon
  <2>12. QED
    BY <1>3, <2>4, <2>11
<1>7. QED
  BY <1>5, <1>6

Risks == {"safe", "caution", "blocked"}

Scored(scored, n) ==
    /\ DOMAIN scored = 1..n
    /\ \A i \in 1..n : scored[i].risk \in Risks /\ scored[i].duration \in Nat

LEMMA RanksDiffer ==
    \A a, b \in Risks : /\ RiskRank[a] \in Nat
                        /\ RiskRank[a] = RiskRank[b] <=> a = b
BY DEF Risks, RiskRank

\* Before is a strict order in which any two candidates are comparable.
LEMMA BeforeIsOrder ==
    ASSUME NEW n \in Nat, NEW scored, Scored(scored, n),
           NEW i \in 1..n, NEW j \in 1..n
    PROVE  /\ ~Before(scored, i, i)
           /\ i # j => Before(scored, i, j) \/ Before(scored, j, i)
           /\ \A k \in 1..n : Before(scored, k, i) /\ Before(scored, i, j) => Before(scored, k, j)
<1> DEFINE rank(k) == RiskRank[scored[k].risk]
           time(k) == scored[k].duration
           same(k, m) == scored[k].risk = scored[m].risk
<1>1. \A k \in 1..n : rank(k) \in Nat /\ time(k) \in Nat
  BY RanksDiffer DEF Scored
<1>2. \A k, m \in 1..n : same(k, m) <=> rank(k) = rank(m)
  BY RanksDiffer DEF Scored
<1>3. \A k, m \in 1..n : Before(scored, k, m) <=>
          \/ rank(k) < rank(m)
          \/ rank(k) = rank(m) /\ (time(k) < time(m) \/ (time(k) = time(m) /\ k < m))
  BY <1>2 DEF Before
<1> HIDE DEF rank, time, same
<1>4. ~Before(scored, i, i)
  BY <1>1, <1>3
<1>5. i # j => Before(scored, i, j) \/ Before(scored, j, i)
  BY <1>1, <1>3
<1>6. ASSUME NEW k \in 1..n, Before(scored, k, i), Before(scored, i, j)
      PROVE  Before(scored, k, j)
  BY <1>1, <1>3, <1>6
<1>7. QED
  BY <1>4, <1>5, <1>6

\* Whoever comes before another has the lower place.
LEMMA PlacesFollowOrder ==
    ASSUME NEW n \in Nat, NEW scored, Scored(scored, n),
           NEW i \in 1..n, NEW j \in 1..n
    PROVE  /\ Place(scored, i) \in 1..n
           /\ Before(scored, i, j) => Place(scored, i) < Place(scored, j)
<1> DEFINE ahead(k) == {m \in 1..n : Before(scored, m, k)}
<1>1. \A k \in 1..n : Place(scored, k) = 1 + Cardinality(ahead(k))
  BY DEF Place, Scored
<1>2. IsFiniteSet(1..n) /\ Cardinality(1..n) = n
  BY FS_Interval
<1>3. \A k \in 1..n : IsFiniteSet(ahead(k)) /\ Cardinality(ahead(k)) \in Nat
  BY <1>2, FS_Subset, FS_CardinalityType
<1>4. Cardinality(ahead(i)) < n
  <2>1. ahead(i) \subseteq 1..n /\ i \notin ahead(i)
    BY BeforeIsOrder
  <2> HIDE DEF ahead
  <2>2. ahead(i) # 1..n
    BY <2>1
  <2>3. Cardinality(ahead(i)) <= n /\ Cardinality(ahead(i)) # n
    BY <1>2, <2>1, <2>2, FS_Subset
  <2>4. QED
    BY <1>3, <2>3
<1>5. ASSUME Before(scored, i, j)
      PROVE  Cardinality(ahead(i)) < Cardinality(ahead(j))
  <2>1. ahead(i) \subseteq ahead(j)
    BY <1>5, BeforeIsOrder
  <2>2. i \in ahead(j) /\ i \notin ahead(i)
    BY <1>5, BeforeIsOrder
  <2> HIDE DEF ahead
  <2>3. Cardinality(ahead(i)) <= Cardinality(ahead(j))
        /\ Cardinality(ahead(i)) # Cardinality(ahead(j))
    BY <1>3, <2>1, <2>2, FS_Subset
  <2>4. QED
    BY <1>3, <2>3
<1> HIDE DEF ahead
<1>6. QED
  BY <1>1, <1>3, <1>4, <1>5

\* InOrder is the candidates, each before those it comes before.
Arranges(routes, scored, n) ==
    /\ DOMAIN routes = 1..n
    /\ \A p \in 1..n : \E i \in 1..n : routes[p] = scored[i]
    /\ \A p, q \in 1..n : p < q =>
           \E i, j \in 1..n : /\ routes[p] = scored[i] /\ routes[q] = scored[j]
                              /\ Before(scored, i, j)

LEMMA OrderIsKept ==
    ASSUME NEW n \in Nat, NEW scored, Scored(scored, n)
    PROVE  Arranges(InOrder(scored), scored, n)
<1> DEFINE place == [i \in 1..n |-> Place(scored, i)]
           pick(p) == CHOOSE i \in 1..n : Place(scored, i) = p
<1>1. \A i, j \in 1..n : place[i] = place[j] => i = j
  <2>1. \A i, j \in 1..n : Before(scored, i, j) =>
            /\ Place(scored, i) \in Int /\ Place(scored, j) \in Int
            /\ Place(scored, i) < Place(scored, j)
    BY PlacesFollowOrder
  <2>2. \A i, j \in 1..n : i # j => Before(scored, i, j) \/ Before(scored, j, i)
    BY BeforeIsOrder
  <2>3. QED
    BY <2>1, <2>2
<1>2. \A i \in 1..n : place[i] \in 1..n
  BY PlacesFollowOrder
<1>3. place \in Injection(1..n, 1..n)
  <2>1. place \in [1..n -> 1..n] /\ DOMAIN place = 1..n
    BY <1>2
  <2> HIDE DEF place
  <2>2. QED
    BY <1>1, <2>1 DEF Injection, IsInjective
<1>4. place \in Surjection(1..n, 1..n)
  <2>1. IsFiniteSet(1..n)
    BY FS_Interval
  <2> HIDE DEF place
  <2>2. QED
    BY <1>3, <2>1, FS_Injection
<1>5. \A p \in 1..n : \E i \in 1..n : place[i] = p
  BY <1>4, Zenon DEF Surjection
<1>6. \A p \in 1..n : pick(p) \in 1..n /\ Place(scored, pick(p)) = p
  BY <1>5
<1>7. DOMAIN InOrder(scored) = 1..n /\ \A p \in 1..n : InOrder(scored)[p] = scored[pick(p)]
  BY DEF InOrder, Scored
<1> HIDE DEF pick, place
<1>8. ASSUME NEW p \in 1..n, NEW q \in 1..n, p < q
      PROVE  Before(scored, pick(p), pick(q))
  <2>1. pick(p) \in 1..n /\ pick(q) \in 1..n
    BY <1>6
  <2>2. Place(scored, pick(p)) = p /\ Place(scored, pick(q)) = q
    BY <1>6
  <2>3. pick(p) # pick(q)
    BY <1>8, <2>2
  <2>4. ~Before(scored, pick(q), pick(p))
    <3>1. Before(scored, pick(q), pick(p)) => q < p
      BY <2>1, <2>2, PlacesFollowOrder
    <3>2. QED
      BY <1>8, <3>1
  <2>5. QED
    BY <2>1, <2>3, <2>4, BeforeIsOrder
<1> DEFINE routes == InOrder(scored)
<1>9. DOMAIN routes = 1..n /\ \A p \in 1..n : routes[p] = scored[pick(p)]
  BY <1>7
<1> HIDE DEF routes
<1>10. \A p \in 1..n : \E i \in 1..n : routes[p] = scored[i]
  BY <1>6, <1>9
<1>11. \A p, q \in 1..n : p < q =>
           \E i, j \in 1..n : /\ routes[p] = scored[i] /\ routes[q] = scored[j]
                              /\ Before(scored, i, j)
  BY <1>6, <1>8, <1>9
<1>12. Arranges(routes, scored, n)
  BY <1>9, <1>10, <1>11, Zenon DEF Arranges
<1>13. QED
  BY <1>12 DEF routes

Levels == {"unknown", "passable", "caution", "not_recommended", "impassable"}

LEMMA LevelsAreKnown ==
    ASSUME NEW c \in ConditionRows, NEW v \in Vehicles
    PROVE  PassLevelFor(c, v) \in Levels
<1>1. c.level[v] \in Levels
  BY DEF ConditionRows, Levels
<1>2. \A depth : DepthPassability(depth)[v] \in Levels
  BY DEF DepthPassability, Unlevelled, Levels
<1>3. QED
  BY <1>1, <1>2 DEF PassLevelFor, Levels

\* The impact, of what the report says and how long it was confirmed ago.
LEMMA ImpactIsWhatItSays ==
    ASSUME NEW c \in ConditionRows, NEW v \in Vehicles, NEW status \in Visible
    PROVE  /\ ImpactOf(c, v, status) \in {"info", "caution", "blocked"}
           /\ ImpactOf(c, v, status) = "blocked" <=> Closes(c, v) /\ status = "active"
           /\ Closes(c, v) => ImpactOf(c, v, status) # "info"
<1> DEFINE stale == status = "possibly_stale"
           level == PassLevelFor(c, v)
           closedWay == \/ c.type = "road_closed" /\ c.detail # "partial"
                        \/ c.type \in {"accident", "construction"} /\ c.detail = "all"
<1>1. level \in Levels
  BY LevelsAreKnown
<1>2. /\ Block(stale) \in {"caution", "blocked"}
      /\ Block(stale) = "blocked" <=> status = "active"
  BY DEF Block, Visible
<1>3. /\ ImpactOfDetails(c, stale) \in {"info", "caution", "blocked"}
      /\ closedWay => ImpactOfDetails(c, stale) = Block(stale)
      /\ ~closedWay => ImpactOfDetails(c, stale) # "blocked"
  BY <1>2 DEF ImpactOfDetails
<1>4. closedWay => AffectsRoad(c.type)
  BY DEF AffectsRoad
<1>5. AffectsRoad(c.type) => c.type # "traffic_signal_issue"
  BY DEF AffectsRoad
<1>6. Closes(c, v) <=> \/ AffectsRoad(c.type) /\ level = "impassable"
                       \/ level = "unknown" /\ closedWay
  BY DEF Closes
<1> HIDE DEF closedWay, level, stale
<1>7. ImpactOf(c, v, status) =
          CASE c.type = "traffic_signal_issue" -> "caution"
            [] c.type # "traffic_signal_issue" /\ ~AffectsRoad(c.type) -> "info"
            [] AffectsRoad(c.type) /\ level = "impassable" -> Block(stale)
            [] AffectsRoad(c.type) /\ level \in {"not_recommended", "caution"} -> "caution"
            [] AffectsRoad(c.type) /\ level = "passable" -> "info"
            [] OTHER -> ImpactOfDetails(c, stale)
  BY DEF ImpactOf, level, stale
<1>8. CASE c.type = "traffic_signal_issue"
  BY <1>4, <1>5, <1>6, <1>7, <1>8
<1>9. CASE c.type # "traffic_signal_issue" /\ ~AffectsRoad(c.type)
  BY <1>4, <1>6, <1>7, <1>9
<1>10. CASE AffectsRoad(c.type) /\ level = "impassable"
  BY <1>2, <1>5, <1>6, <1>7, <1>10
<1>11. CASE AffectsRoad(c.type) /\ level \in {"not_recommended", "caution"}
  BY <1>5, <1>6, <1>7, <1>11
<1>12. CASE AffectsRoad(c.type) /\ level = "passable"
  BY <1>5, <1>6, <1>7, <1>12
<1>13. CASE AffectsRoad(c.type) /\ level = "unknown"
  <2>1. ImpactOf(c, v, status) = ImpactOfDetails(c, stale)
    BY <1>5, <1>7, <1>13
  <2>2. Closes(c, v) <=> closedWay
    BY <1>6, <1>13
  <2>3. QED
    BY <1>2, <1>3, <2>1, <2>2
<1>14. QED
  BY <1>1, <1>8, <1>9, <1>10, <1>11, <1>12, <1>13 DEF Levels

\* The worst of some risks is one of them.
LEMMA WorstRisk ==
    ASSUME NEW risks \in SUBSET Risks, "safe" \in risks
    PROVE  LET worst == CHOOSE x \in risks : \A y \in risks : RiskRank[y] <= RiskRank[x]
           IN  /\ worst \in risks
               /\ worst = "safe" => risks = {"safe"}
               /\ worst = "blocked" <=> "blocked" \in risks
<1> DEFINE tops(x) == \A y \in risks : RiskRank[y] <= RiskRank[x]
           worst == CHOOSE x \in risks : tops(x)
<1>1. /\ RiskRank["safe"] = 0 /\ RiskRank["caution"] = 1 /\ RiskRank["blocked"] = 2
  BY DEF RiskRank
<1>2. \A y \in risks : y = "safe" \/ y = "caution" \/ y = "blocked"
  BY DEF Risks
<1>3. \E x \in risks : tops(x)
  <2>1. CASE "blocked" \in risks
    BY <1>1, <1>2, <2>1
  <2>2. CASE "blocked" \notin risks /\ "caution" \in risks
    BY <1>1, <1>2, <2>2
  <2>3. CASE "blocked" \notin risks /\ "caution" \notin risks
    BY <1>1, <1>2, <2>3
  <2>4. QED
    BY <2>1, <2>2, <2>3
<1>4. worst \in risks /\ tops(worst)
  BY <1>3
<1>5. \A y \in risks : RiskRank[y] <= RiskRank[worst]
  BY <1>4
<1> HIDE DEF worst, tops
<1>6. worst = "safe" => risks = {"safe"}
  BY <1>1, <1>2, <1>5
<1>7. worst = "blocked" <=> "blocked" \in risks
  BY <1>1, <1>2, <1>4, <1>5
<1>8. QED
  BY <1>4, <1>6, <1>7 DEF worst, tops

RouteRows == [duration : Nat, path : Seq(Points)]

\* What the score of a candidate says of the reports that were loaded.
Judges(score, route, loaded, v) ==
    /\ score.path = route.path /\ score.duration = route.duration
    /\ score.risk \in Risks
    /\ DOMAIN score.impact =
           {r \in loaded : Open(r) /\ Affects(condition[r], route.path)}
    /\ LET says == {r \in DOMAIN score.impact : Closes(condition[r], v)}
       IN  /\ score.risk = "safe" => says = {}
           /\ score.risk = "blocked" <=> \E r \in says : clock < report[r].stale

LEMMA ScoresJudge ==
    ASSUME RowsSound, NEW route \in RouteRows, NEW loaded \in SUBSET Reports,
           NEW v \in Vehicles
    PROVE  Judges(Score(route, loaded, v, clock), route, loaded, v)
<1> DEFINE incidents == {r \in loaded :
                           /\ Status(report[r], clock) \in Visible /\ Shown(r)
                           /\ Affects(condition[r], route.path)}
           impact == [r \in incidents |->
                         ImpactOf(condition[r], v, Status(report[r], clock))]
           risks == {"safe"} \cup {RiskOf[impact[r]] : r \in incidents}
           worst == CHOOSE x \in risks : \A y \in risks : RiskRank[y] <= RiskRank[x]
           score == Score(route, loaded, v, clock)
           says == {r \in incidents : Closes(condition[r], v)}
<1>1. score = [duration |-> route.duration, path |-> route.path, impact |-> impact,
               risk |-> worst]
  BY DEF Score
<1>2. incidents = {r \in loaded : Open(r) /\ Affects(condition[r], route.path)}
  BY Zenon DEF Open
<1>3. \A r \in incidents : r \in Reports /\ Status(report[r], clock) \in Visible
  OBVIOUS
<1>4. ASSUME NEW r \in incidents
      PROVE  /\ impact[r] \in {"info", "caution", "blocked"}
             /\ impact[r] = "blocked" <=> Closes(condition[r], v) /\ clock < report[r].stale
             /\ Closes(condition[r], v) => impact[r] # "info"
  <2>1. r \in Reports /\ Status(report[r], clock) \in Visible
    BY <1>3
  <2>2. condition[r] \in ConditionRows
    BY <2>1 DEF RowsSound
  <2>3. Status(report[r], clock) = "active" <=> clock < report[r].stale
    <3>1. /\ report[r].stale \in Nat /\ report[r].expires \in Nat /\ clock \in Nat
          /\ report[r].stale <= report[r].expires
      BY <2>1 DEF RowsSound, ReportRows
    <3>2. QED
      BY <2>1, <3>1 DEF Status, Visible
  <2>4. impact[r] = ImpactOf(condition[r], v, Status(report[r], clock))
    OBVIOUS
  <2> HIDE DEF impact
  <2>5. QED
    BY <2>1, <2>2, <2>3, <2>4, ImpactIsWhatItSays
<1>5. DOMAIN impact = incidents
  OBVIOUS
<1> HIDE DEF incidents, impact
<1>6. \A r \in incidents : RiskOf[impact[r]] \in Risks
                           /\ (RiskOf[impact[r]] = "blocked" <=> impact[r] = "blocked")
                           /\ (RiskOf[impact[r]] = "safe" <=> impact[r] = "info")
  BY <1>4 DEF RiskOf, Risks
<1>7. risks \subseteq Risks /\ "safe" \in risks
  BY <1>6 DEF Risks
<1>8. "blocked" \in risks <=> \E r \in incidents : impact[r] = "blocked"
  BY <1>6
<1>9. risks = {"safe"} => \A r \in incidents : impact[r] = "info"
  BY <1>6
<1> HIDE DEF risks
<1>10. /\ worst \in risks
       /\ worst = "safe" => risks = {"safe"}
       /\ worst = "blocked" <=> "blocked" \in risks
  BY <1>7, WorstRisk
<1> HIDE DEF worst
<1>11. worst = "safe" => says = {}
  BY <1>4, <1>9, <1>10
<1>12. worst = "blocked" <=> \E r \in says : clock < report[r].stale
  BY <1>4, <1>8, <1>10
<1>13. says = {r \in DOMAIN score.impact : Closes(condition[r], v)}
  BY <1>1, <1>5
<1>14. /\ score.path = route.path /\ score.duration = route.duration
       /\ score.risk = worst /\ DOMAIN score.impact = incidents
  BY <1>1, <1>5
<1> HIDE DEF says, score
<1>15. worst \in Risks
  BY <1>7, <1>10
<1>16. QED
  BY <1>2, <1>11, <1>12, <1>13, <1>14, <1>15 DEF score, Judges

LEMMA TripRows ==
    ASSUME NEW trip \in Trips
    PROVE  /\ Len(trip) \in Nat /\ DOMAIN trip = 1..Len(trip)
           /\ \A i \in 1..Len(trip) : trip[i] \in RouteRows /\ trip[i].path \in Seq(Points)
           /\ trip # <<>> => Len(trip) > 0
           /\ trip = <<>> => Len(trip) = 0
<1>1. trip \in Seq(RouteRows)
  BY TripsAreTyped, Zenon DEF RouteRows
<1>2. \A row \in RouteRows : row.path \in Seq(Points)
  BY DEF RouteRows
<1> HIDE DEF RouteRows
<1>3. QED
  BY <1>1, <1>2

\* The one query for a trip misses no open report that is within the corridor
\* of a candidate.
LEMMA CorridorHoldsIncidents ==
    ASSUME RowsSound, NEW trip \in Trips, NEW i \in DOMAIN trip, NEW r \in Reports,
           Open(r), NearPath(condition[r].at, trip[i].path, Padded(MaxAffectRadius))
    PROVE  r \in Matches(Corridor(trip), Visible, clock)
<1> DEFINE boxes == Corridor(trip)
           share == MaxCorridorBoxes \div Len(trip)
           c == condition[r]
<1>1. /\ Len(trip) \in Nat /\ Len(trip) > 0
      /\ i \in 1..Len(trip) /\ trip[i].path \in Seq(Points)
  BY TripRows
<1>2. c.at \in Points /\ condition[r] \in ConditionRows
  BY DEF RowsSound, ConditionRows
<1>3. share \in Nat
  <2>1. \A n \in Nat, d \in Nat \ {0} : n \div d \in Nat
    OBVIOUS
  <2>2. QED
    BY <1>1, <2>1, PlannerBoundsAreNat
<1>4. boxes = UNION {CorridorBoxes(trip[k].path, MaxAffectRadius, share) : k \in DOMAIN trip}
  BY DEF Corridor
<1> HIDE DEF share, boxes
<1>5. boxes # {} => \E box \in boxes : InBox(c.at, box)
  <2>1. CASE share = 0
    <3>1. \A k \in DOMAIN trip : CorridorBoxes(trip[k].path, MaxAffectRadius, share) = {}
      BY <2>1 DEF CorridorBoxes
    <3>2. QED
      BY <1>4, <3>1
  <2>2. CASE share # 0
    <3>1. MaxAffectRadius \in Nat
      BY DEF MaxAffectRadius
    <3>2. Padded(MaxAffectRadius) \in Nat /\ Padded(MaxAffectRadius) <= Padded(MaxAffectRadius)
      BY <3>1, PadsFallShort
    <3>3. PICK box \in CorridorBoxes(trip[i].path, MaxAffectRadius, share) : InBox(c.at, box)
      BY <1>1, <1>2, <1>3, <2>2, <3>1, <3>2, CorridorCovers
    <3>4. box \in boxes
      BY <1>4, <3>3
    <3>5. QED
      BY <3>3, <3>4
  <2>3. QED
    BY <2>1, <2>2
<1>6. Visible \in SUBSET Statuses
  BY DEF Visible, Statuses
<1>7. Shown(r) /\ Status(report[r], clock) \in Visible
  BY DEF Open
<1>8. Matches(boxes, Visible, clock) =
          {q \in Reports : /\ Shown(q)
                           /\ Status(report[q], clock) \in Visible
                           /\ boxes # {} => \E box \in boxes : InBox(condition[q].at, box)}
  BY <1>6, MatchesByStatus
<1>9. QED
  BY <1>5, <1>7, <1>8 DEF boxes

\* An answer is the scores of the candidates, in order, over the reports of
\* one page.
LEMMA AnswersAreScores ==
    ASSUME RowsSound, NEW trip \in Trips, NEW v \in Vehicles,
           NEW answer \in Evaluate(trip, v, clock)
    PROVE  \E loaded, scored :
               /\ answer.routes = InOrder(scored)
               /\ Scored(scored, Len(trip))
               /\ \A i \in 1..Len(trip) :
                      Judges(scored[i], trip[i], loaded, v)
               /\ answer.complete /\ trip # <<>> =>
                      loaded = Matches(Corridor(trip), Visible, clock)
<1>1. /\ Len(trip) \in Nat /\ DOMAIN trip = 1..Len(trip)
      /\ \A i \in 1..Len(trip) : trip[i] \in RouteRows
  BY TripRows
<1>2. CASE trip = <<>>
  <2> DEFINE scored == [i \in 1..0 |-> 0]
  <2>1. answer = [complete |-> TRUE, routes |-> <<>>]
    BY <1>2 DEF Evaluate
  <2>2. Len(trip) = 0 /\ DOMAIN scored = 1..0 /\ 1..0 = {}
    BY <1>2
  <2>3. InOrder(scored) = <<>>
    <3>1. DOMAIN scored = {}
      BY <2>2
    <3>2. InOrder(scored) = [n \in {} |-> scored[CHOOSE i \in DOMAIN scored : Place(scored, i) = n]]
      BY <3>1, Zenon DEF InOrder
    <3> HIDE DEF scored
    <3>3. QED
      BY <3>2
  <2>4. Scored(scored, 0)
    BY <2>2 DEF Scored
  <2> HIDE DEF scored
  <2>5. QED
    BY <1>2, <2>1, <2>2, <2>3, <2>4
<1>3. CASE trip # <<>>
  <2>1. PICK page \in Page(Corridor(trip), Visible, CorridorReportLimit, clock) :
            answer = [complete |-> ~page.more,
                      routes |-> InOrder([i \in DOMAIN trip |->
                                             Score(trip[i], page.reports, v, clock)])]
    BY <1>3 DEF Evaluate
  <2> DEFINE scored == [i \in 1..Len(trip) |-> Score(trip[i], page.reports, v, clock)]
  <2>2. /\ page.reports \subseteq Matches(Corridor(trip), Visible, clock)
        /\ ~page.more => page.reports = Matches(Corridor(trip), Visible, clock)
    BY <2>1, PageIsWhole, PlannerBoundsAreNat
  <2>3. page.reports \in SUBSET Reports
    BY <2>2 DEF Matches
  <2>4. answer.routes = InOrder(scored) /\ answer.complete = ~page.more
    BY <1>1, <2>1
  <2>6. \A i \in 1..Len(trip) : Judges(scored[i], trip[i], page.reports, v)
    <3>1. ASSUME NEW i \in 1..Len(trip)
          PROVE  Judges(Score(trip[i], page.reports, v, clock), trip[i], page.reports, v)
      <4>1. trip[i] \in RouteRows
        BY <1>1
      <4>2. QED
        BY <2>3, <4>1, ScoresJudge
    <3>2. QED
      BY <3>1
  <2>5. Scored(scored, Len(trip))
    <3>1. ASSUME NEW i \in 1..Len(trip)
          PROVE  scored[i].risk \in Risks /\ scored[i].duration \in Nat
      <4>1. trip[i].duration \in Nat
        BY <1>1 DEF RouteRows
      <4>2. Judges(scored[i], trip[i], page.reports, v)
        BY <2>6
      <4> HIDE DEF scored
      <4>3. QED
        BY <4>1, <4>2 DEF Judges
    <3>2. QED
      BY <3>1, Zenon DEF Scored
  <2> HIDE DEF scored
  <2>7. QED
    BY <1>1, <2>2, <2>3, <2>4, <2>5, <2>6
<1>4. QED
  BY <1>2, <1>3

LEMMA IncidentsCount == RowsSound => EveryIncidentCounts
<1> SUFFICES ASSUME RowsSound, NEW trip \in Trips, NEW v \in Vehicles,
                    NEW answer \in Evaluate(trip, v, clock), answer.complete,
                    NEW n \in DOMAIN answer.routes
             PROVE  /\ SurelyAffecting(answer.routes[n].path) \subseteq DOMAIN answer.routes[n].impact
                    /\ DOMAIN answer.routes[n].impact \subseteq Affecting(answer.routes[n].path)
  BY Zenon DEF EveryIncidentCounts
<1>1. PICK loaded, scored :
          /\ answer.routes = InOrder(scored)
          /\ Scored(scored, Len(trip))
          /\ \A i \in 1..Len(trip) :
                 Judges(scored[i], trip[i], loaded, v)
          /\ answer.complete /\ trip # <<>> =>
                 loaded = Matches(Corridor(trip), Visible, clock)
  BY AnswersAreScores
<1>2. Len(trip) \in Nat /\ DOMAIN trip = 1..Len(trip)
  BY TripRows
<1>3. /\ n \in 1..Len(trip)
      /\ \E i \in 1..Len(trip) : answer.routes[n] = scored[i]
  <2>1. Arranges(answer.routes, scored, Len(trip))
    BY <1>1, <1>2, OrderIsKept
  <2>2. QED
    BY <2>1 DEF Arranges
<1> DEFINE score == answer.routes[n]
<1>4. PICK i \in 1..Len(trip) : Judges(score, trip[i], loaded, v)
  BY <1>1, <1>3
<1>5. /\ DOMAIN score.impact = {r \in loaded : Open(r) /\ Affects(condition[r], trip[i].path)}
      /\ score.path = trip[i].path
  <2> HIDE DEF score
  <2>1. QED
    BY <1>4 DEF Judges
<1>6. loaded = Matches(Corridor(trip), Visible, clock)
  BY <1>1, <1>3, TripRows
<1>7. i \in DOMAIN trip
  BY <1>2
<1>8. ASSUME NEW r \in Reports, Open(r),
             NearPath(condition[r].at, trip[i].path, Padded(MaxAffectRadius))
      PROVE  r \in loaded
  BY <1>6, <1>7, <1>8, CorridorHoldsIncidents
<1> DEFINE counted == {r \in loaded : Open(r) /\ Affects(condition[r], trip[i].path)}
<1>9. SurelyAffecting(trip[i].path) \subseteq counted
  BY <1>8, Zenon DEF SurelyAffecting, Affecting, OpenReports
<1>10. counted \subseteq Affecting(trip[i].path)
  <2>1. loaded \subseteq Reports
    BY <1>6 DEF Matches
  <2>2. QED
    BY <2>1, Zenon DEF Affecting, OpenReports
<1> HIDE DEF score, counted
<1>11. score.path = trip[i].path /\ DOMAIN score.impact = counted
  BY <1>5 DEF counted
<1>12. SurelyAffecting(score.path) \subseteq DOMAIN score.impact
       /\ DOMAIN score.impact \subseteq Affecting(score.path)
  BY <1>9, <1>10, <1>11
<1>13. QED
  BY <1>12 DEF score

LEMMA VerdictsAreHonest == RowsSound => VerdictIsHonest
<1> SUFFICES ASSUME RowsSound, NEW trip \in Trips, NEW v \in Vehicles,
                    NEW answer \in Evaluate(trip, v, clock)
             PROVE  LET at(n) == answer.routes[n]
                        says(n) == {r \in DOMAIN at(n).impact : Closes(condition[r], v)}
                    IN  /\ \A n \in DOMAIN answer.routes :
                               /\ at(n).risk = "safe" => says(n) = {}
                               /\ at(n).risk = "blocked" <=>
                                      \E r \in says(n) : clock < report[r].stale
                        /\ \A m, n \in DOMAIN answer.routes : m < n =>
                               \/ RiskRank[at(m).risk] < RiskRank[at(n).risk]
                               \/ at(m).risk = at(n).risk /\ at(m).duration <= at(n).duration
  BY DEF VerdictIsHonest
<1> DEFINE at(n) == answer.routes[n]
           says(n) == {r \in DOMAIN at(n).impact : Closes(condition[r], v)}
<1>1. PICK loaded, scored :
          /\ answer.routes = InOrder(scored)
          /\ Scored(scored, Len(trip))
          /\ \A i \in 1..Len(trip) :
                 Judges(scored[i], trip[i], loaded, v)
          /\ answer.complete /\ trip # <<>> =>
                 loaded = Matches(Corridor(trip), Visible, clock)
  BY AnswersAreScores
<1>2. Len(trip) \in Nat /\ DOMAIN trip = 1..Len(trip)
  BY TripRows
<1>3. Arranges(answer.routes, scored, Len(trip))
  BY <1>1, <1>2, OrderIsKept
<1>4. \A p \in 1..Len(trip) : \E i \in 1..Len(trip) : at(p) = scored[i]
  BY <1>3 DEF Arranges
<1>5. \A p, q \in 1..Len(trip) : p < q =>
          \E i, j \in 1..Len(trip) : at(p) = scored[i] /\ at(q) = scored[j]
                                      /\ Before(scored, i, j)
  BY <1>3 DEF Arranges
<1>6. ASSUME NEW n \in 1..Len(trip)
      PROVE  /\ at(n).risk = "safe" => says(n) = {}
             /\ at(n).risk = "blocked" <=> \E r \in says(n) : clock < report[r].stale
  <2>1. PICK i \in 1..Len(trip) : at(n) = scored[i]
    BY <1>4
  <2>2. Judges(at(n), trip[i], loaded, v)
    BY <1>1, <2>1
  <2> HIDE DEF at
  <2>3. QED
    BY <2>2 DEF Judges
<1>7. ASSUME NEW m \in 1..Len(trip), NEW n \in 1..Len(trip), m < n
      PROVE  \/ RiskRank[at(m).risk] < RiskRank[at(n).risk]
             \/ at(m).risk = at(n).risk /\ at(m).duration <= at(n).duration
  <2>1. PICK i \in 1..Len(trip), j \in 1..Len(trip) :
            at(m) = scored[i] /\ at(n) = scored[j] /\ Before(scored, i, j)
    BY <1>7, <1>5
  <2>2. scored[i].duration \in Nat /\ scored[j].duration \in Nat
    BY <1>1 DEF Scored
  <2> HIDE DEF at
  <2>3. QED
    BY <2>1, <2>2 DEF Before
<1> HIDE DEF at, says
<1>8. QED
  BY <1>3, <1>6, <1>7 DEF at, says, Arranges

\* What is open is what a query over everywhere answers.
LEMMA EverythingMatches ==
    ASSUME RowsSound, NEW statuses \in SUBSET Statuses
    PROVE  Matches({Everywhere}, statuses, clock) =
               {r \in Reports : Shown(r) /\ Status(report[r], clock) \in statuses}
<1>1. \A r \in Reports : \E box \in {Everywhere} : InBox(condition[r].at, box)
  BY EverywhereHoldsAll
<1>2. QED
  BY <1>1, MatchesByStatus, Zenon

LEMMA ListsShowAll == RowsSound => ListsAreWhole
<1> SUFFICES ASSUME RowsSound, NEW s \in Statuses,
                    NEW answer \in List(Everywhere, {s}, clock), ~answer.more
             PROVE  answer.reports = {r \in Reports : Shown(r) /\ Status(report[r], clock) = s}
  BY DEF ListsAreWhole
<1>1. answer.reports = Matches({Everywhere}, {s}, clock)
  <2>1. answer \in Page({Everywhere}, {s}, MaxListLimit, clock)
    BY DEF List
  <2>2. QED
    BY <2>1, PageIsWhole, LimitsAreNat
<1>2. {s} \in SUBSET Statuses
  OBVIOUS
<1>3. Matches({Everywhere}, {s}, clock) =
          {r \in Reports : Shown(r) /\ Status(report[r], clock) \in {s}}
  BY <1>2, EverythingMatches
<1>4. QED
  BY <1>1, <1>3

LEMMA SecondsAreFound == RowsSound => SecondsAreRecognised
<1> SUFFICES ASSUME RowsSound, NEW r \in OpenReports,
                    NEW found \in FindDuplicates(condition[r].at, condition[r].type, clock)
             PROVE  found # {}
  BY DEF SecondsAreRecognised
<1> DEFINE c == condition[r]
           near == {q \in Within(c.at, DuplicateRadius(c.type), Visible, clock) :
                        condition[q].type = c.type}
<1>1. r \in Reports /\ Shown(r) /\ Status(report[r], clock) \in Visible
  BY DEF OpenReports, Open
<1> DEFINE box == Square(c.at, Padded(DuplicateRadius(c.type)))
<1>2. r \in Matches({box}, Visible, clock)
  <2>1. Visible \in SUBSET Statuses
    BY DEF Visible, Statuses
  <2>2. InBox(c.at, box)
    <3>1. c.at[1] \in Int /\ c.at[2] \in Int
      BY <1>1 DEF RowsSound, ConditionRows, Points
    <3>2. DuplicateRadius(c.type) \in Nat
      BY DEF DuplicateRadius
    <3>3. Padded(DuplicateRadius(c.type)) \in Nat
      BY <3>2, PadsFallShort
    <3>4. QED
      BY <3>1, <3>3 DEF InBox, Square
  <2> HIDE DEF box
  <2>3. QED
    BY <1>1, <2>1, <2>2, MatchesByStatus
<1>3. DistanceSq(c.at, c.at) <= Sq(DuplicateRadius(c.type))
  <2>1. c.at[1] \in Int /\ c.at[2] \in Int
    BY <1>1 DEF RowsSound, ConditionRows, Points
  <2>2. DuplicateRadius(c.type) \in {2, 3, 4, 6}
    BY DEF DuplicateRadius
  <2>3. DistanceSq(c.at, c.at) = 0
    BY <2>1 DEF DistanceSq, Sq
  <2>4. QED
    BY <2>2, <2>3 DEF Sq
<1>4. r \in near
  BY <1>2, <1>3 DEF Within
<1>5. IsFiniteSet(near)
  <2>1. near \subseteq Reports
    BY DEF Within, Matches
  <2>2. QED
    BY <2>1, ReportsAreFinite, FS_Subset
<1>6. PICK before : found \in Cut(near, MaxDuplicates, before)
  BY DEF FindDuplicates
<1> HIDE DEF near
<1>7. QED
  BY <1>4, <1>5, <1>6, CutKeeps, LimitsAreNat

\* Every report has a number of its own among those of its cell.
LEMMA CellsCountOnce ==
    ASSUME NEW shown, IsFiniteSet(shown), NEW size
    PROVE  Cardinality(UNION {{row.cell} \X (1..row.count) : row \in Cells(shown, size)})
               = Cardinality(shown)
<1> DEFINE of(r) == Cell(condition[r].at, size)
           occupied == {of(r) : r \in shown}
           inCell(cell) == {r \in shown : of(r) = cell}
           count(cell) == Cardinality(inCell(cell))
           severe(cell) == Cardinality({r \in inCell(cell) : Rank(condition[r].severity) >= 3})
           numbers == UNION {{row.cell} \X (1..row.count) : row \in Cells(shown, size)}
           pairs == UNION {{cell} \X (1..count(cell)) : cell \in occupied}
           number == [cell \in occupied |->
                         CHOOSE f : f \in Bijection(inCell(cell), 1..count(cell))]
           pair == [r \in shown |-> <<of(r), number[of(r)][r]>>]
<1>1. Cells(shown, size) =
          {[cell |-> cell, count |-> count(cell), severe |-> severe(cell)] : cell \in occupied}
  BY DEF Cells
<1>2. numbers = pairs
  <2> DEFINE rows_ == Cells(shown, size)
  <2> HIDE DEF occupied, count, severe
  <2>1. \A row \in rows_ : \E cell \in occupied : row.cell = cell /\ row.count = count(cell)
    BY <1>1
  <2>2. ASSUME NEW cell \in occupied
        PROVE  \E row \in rows_ : row.cell = cell /\ row.count = count(cell)
    <3> DEFINE row == [cell |-> cell, count |-> count(cell), severe |-> severe(cell)]
    <3>1. row \in rows_
      BY <1>1
    <3>2. row.cell = cell /\ row.count = count(cell)
      OBVIOUS
    <3> HIDE DEF row, rows_
    <3>3. QED
      BY <3>1, <3>2
  <2> HIDE DEF rows_
  <2>3. numbers = UNION {{row.cell} \X (1..row.count) : row \in rows_}
    BY DEF rows_
  <2>4. \A p : p \in pairs <=> \E cell \in occupied : p \in {cell} \X (1..count(cell))
    OBVIOUS
  <2>5. \A p : p \in numbers <=> \E row \in rows_ : p \in {row.cell} \X (1..row.count)
    BY <2>3
  <2> HIDE DEF numbers, pairs
  <2>6. \A p : p \in numbers <=> p \in pairs
    <3>1. ASSUME NEW p, NEW row \in rows_, p \in {row.cell} \X (1..row.count)
          PROVE  p \in pairs
      <4>1. PICK cell \in occupied : row.cell = cell /\ row.count = count(cell)
        BY <2>1
      <4>2. p \in {cell} \X (1..count(cell))
        BY <3>1, <4>1, Zenon
      <4>3. QED
        BY <2>4, <4>2
    <3>2. ASSUME NEW p, NEW cell \in occupied, p \in {cell} \X (1..count(cell))
          PROVE  p \in numbers
      <4>1. PICK row \in rows_ : row.cell = cell /\ row.count = count(cell)
        BY <2>2
      <4>2. p \in {row.cell} \X (1..row.count)
        BY <3>2, <4>1, Zenon
      <4>3. QED
        BY <2>5, <4>2
    <3>3. QED
      BY <2>4, <2>5, <3>1, <3>2
  <2>7. QED
    BY <2>6
<1>3. ASSUME NEW cell \in occupied
      PROVE  /\ count(cell) \in Nat
             /\ number[cell] \in Bijection(inCell(cell), 1..count(cell))
  <2>1. IsFiniteSet(inCell(cell)) /\ count(cell) \in Nat
    BY FS_Subset, FS_CardinalityType
  <2>2. IsFiniteSet(1..count(cell)) /\ Cardinality(1..count(cell)) = count(cell)
    BY <2>1, FS_Interval
  <2> HIDE DEF inCell
  <2>3. ExistsBijection(inCell(cell), 1..count(cell))
    BY <2>1, <2>2, FS_SameCardinalityBij
  <2>4. \E f : f \in Bijection(inCell(cell), 1..count(cell))
    BY <2>3, Zenon DEF ExistsBijection
  <2> HIDE DEF count, occupied
  <2>5. QED
    BY <2>1, <2>4
<1> HIDE DEF number, count
<1>4. ASSUME NEW r \in shown
      PROVE  of(r) \in occupied /\ r \in inCell(of(r))
  OBVIOUS
<1>5. ASSUME NEW cell \in occupied
      PROVE  /\ \A r \in inCell(cell) : number[cell][r] \in 1..count(cell)
             /\ \A r, q \in inCell(cell) : number[cell][r] = number[cell][q] => r = q
             /\ \A i \in 1..count(cell) : \E r \in inCell(cell) : number[cell][r] = i
  <2> HIDE DEF occupied, inCell
  <2> DEFINE f == number[cell]
  <2>1. f \in Bijection(inCell(cell), 1..count(cell))
    BY <1>3
  <2> HIDE DEF f
  <2>2. f \in Injection(inCell(cell), 1..count(cell)) /\ f \in Surjection(inCell(cell), 1..count(cell))
    BY <2>1, Zenon DEF Bijection
  <2>3. f \in [inCell(cell) -> 1..count(cell)] /\ IsInjective(f)
    BY <2>2, Zenon DEF Injection
  <2>4. \A i \in 1..count(cell) : \E r \in inCell(cell) : f[r] = i
    BY <2>2, Zenon DEF Surjection
  <2>5. \A r, q \in inCell(cell) : f[r] = f[q] => r = q
    BY <2>3, Zenon DEF IsInjective
  <2>6. \A r \in inCell(cell) : f[r] \in 1..count(cell)
    BY <2>3
  <2>7. QED
    BY <2>4, <2>5, <2>6 DEF f
<1>7. ASSUME NEW r \in shown
      PROVE  pair[r] \in pairs
  <2>1. number[of(r)][r] \in 1..count(of(r))
    BY <1>4, <1>5
  <2>2. pair[r] = <<of(r), number[of(r)][r]>>
    OBVIOUS
  <2>3. pair[r] \in {of(r)} \X (1..count(of(r)))
    BY <2>1, <2>2
  <2> HIDE DEF pair
  <2>4. QED
    BY <1>4, <2>3
<1>8. ASSUME NEW r \in shown, NEW q \in shown, pair[r] = pair[q]
      PROVE  r = q
  <2>1. of(r) = of(q) /\ number[of(r)][r] = number[of(q)][q]
    BY <1>8
  <2>2. r \in inCell(of(r)) /\ q \in inCell(of(r)) /\ of(r) \in occupied
    BY <2>1
  <2>3. QED
    BY <1>5, <2>1, <2>2
<1>9. ASSUME NEW p \in pairs
      PROVE  \E r \in shown : pair[r] = p
  <2>1. PICK cell \in occupied : p \in {cell} \X (1..count(cell))
    OBVIOUS
  <2>2. p = <<cell, p[2]>> /\ p[2] \in 1..count(cell)
    BY <2>1
  <2>3. PICK r \in inCell(cell) : number[cell][r] = p[2]
    BY <1>5, <2>2
  <2>4. r \in shown /\ of(r) = cell
    BY <2>3
  <2>5. pair[r] = <<of(r), number[of(r)][r]>>
    BY <2>4
  <2>6. pair[r] = p
    BY <2>2, <2>3, <2>4, <2>5
  <2>7. QED
    BY <2>4, <2>6
<1>10. DOMAIN pair = shown /\ pair = [r \in shown |-> pair[r]]
  OBVIOUS
<1> HIDE DEF pair, pairs
<1>11. pair \in [shown -> pairs]
  BY <1>7, <1>10
<1>12. pair \in Bijection(shown, pairs)
  <2>1. pair \in Injection(shown, pairs)
    BY <1>8, <1>10, <1>11, Zenon DEF Injection, IsInjective
  <2>2. pair \in Surjection(shown, pairs)
    BY <1>9, <1>11, Zenon DEF Surjection
  <2>3. QED
    BY <2>1, <2>2, Zenon DEF Bijection
<1>13. Cardinality(pairs) = Cardinality(shown)
  BY <1>12, FS_Bijection DEF ExistsBijection
<1>14. QED
  BY <1>2, <1>13

LEMMA GridsCountOnce == RowsSound => GridCountsOnce
<1> SUFFICES ASSUME RowsSound,
                    Cardinality({Cell(condition[r].at, 4) : r \in OpenReports}) <= MaxCells,
                    NEW rows_ \in Aggregate(Everywhere, 4, clock)
             PROVE  Cardinality(UNION {{row.cell} \X (1..row.count) : row \in rows_})
                        = Cardinality(OpenReports)
  BY DEF GridCountsOnce
<1> DEFINE shown == Matches({Everywhere}, Visible, clock)
           cells == Cells(shown, 4)
           occupied == {Cell(condition[r].at, 4) : r \in OpenReports}
           inCell(cell) == {r \in OpenReports : Cell(condition[r].at, 4) = cell}
           row == [cell \in occupied |->
                     [cell |-> cell, count |-> Cardinality(inCell(cell)),
                      severe |-> Cardinality({r \in inCell(cell) :
                                                Rank(condition[r].severity) >= 3})]]
<1>1. shown = OpenReports
  <2>1. Visible \in SUBSET Statuses
    BY DEF Visible, Statuses
  <2>2. QED
    BY <2>1, EverythingMatches, Zenon DEF OpenReports, Open
<1>2. IsFiniteSet(OpenReports)
  BY ReportsAreFinite, FS_Subset DEF OpenReports
<1>3. IsFiniteSet(occupied)
  <2> DEFINE of == [r \in OpenReports |-> Cell(condition[r].at, 4)]
  <2>1. IsFiniteSet({of[r] : r \in OpenReports})
    BY <1>2, ImagesAreFinite
  <2>2. {of[r] : r \in OpenReports} = occupied
    OBVIOUS
  <2>3. QED
    BY <2>1, <2>2
<1>4. cells = {row[cell] : cell \in occupied}
  BY <1>1 DEF Cells
<1>5. PICK before : rows_ \in Cut(cells, MaxCells, before)
  BY DEF Aggregate
<1> HIDE DEF cells, row, occupied, shown
<1>6. DOMAIN row = occupied /\ row = [cell \in occupied |-> row[cell]]
  BY DEF row
<1>7. IsFiniteSet(cells) /\ Cardinality(cells) <= Cardinality(occupied)
  BY <1>3, <1>4, <1>6, ImagesAreFinite
<1>8. Cardinality(cells) <= MaxCells
  <2>1. Cardinality(cells) \in Nat /\ Cardinality(occupied) \in Nat /\ MaxCells \in Nat
    BY <1>3, <1>7, FS_CardinalityType, LimitsAreNat
  <2>2. Cardinality(occupied) <= MaxCells
    BY DEF occupied
  <2>3. QED
    BY <1>7, <2>1, <2>2
<1>9. rows_ = cells
  BY <1>5, <1>7, <1>8, CutKeeps, LimitsAreNat
<1>10. QED
  BY <1>1, <1>2, <1>9, CellsCountOnce DEF cells

LEMMA StartsSound == RouteInit => RowsSound
<1> SUFFICES ASSUME RouteInit PROVE RowsSound
  OBVIOUS
<1>1. condition \in [Reports -> ConditionRows]
  <2>1. \A r \in Reports : condition[r] \in Conditions[r] /\ Conditions[r] \subseteq ConditionRows
    BY ConditionsAreTyped DEF RouteInit
  <2>2. condition \in [Reports -> UNION {Conditions[r] : r \in Reports}]
    BY DEF RouteInit
  <2> HIDE DEF ConditionRows
  <2>3. \A r \in Reports : condition[r] \in ConditionRows
    BY <2>1
  <2>4. QED
    BY <2>2, <2>3
<1>2. NoReport \in ReportRows /\ NoReport.stale <= NoReport.expires
  BY DEF NoReport, ReportRows
<1>3. report = [r \in Reports |-> NoReport] /\ clock = 0
  BY DEF RouteInit, Init
<1>4. QED
  BY <1>1, <1>2, <1>3 DEF RowsSound

\* A row that is replaced by a sound one leaves the others as they are.
LEMMA ReplacedIsSound ==
    ASSUME RowsSound, NEW r \in Reports, NEW row \in ReportRows, row.stale <= row.expires,
           report' = [report EXCEPT ![r] = row], UNCHANGED <<clock, condition>>
    PROVE  RowsSound'
<1>1. \A q \in Reports : report'[q] = IF q = r THEN row ELSE report[q]
  BY DEF RowsSound
<1>2. report' \in [Reports -> ReportRows]
  BY DEF RowsSound
<1>3. \A q \in Reports : report'[q].stale <= report'[q].expires
  BY <1>1 DEF RowsSound
<1>4. QED
  BY <1>2, <1>3 DEF RowsSound

LEMMA RowsStaySound == RowsSound /\ [RouteNext]_mapVars => RowsSound'
<1> SUFFICES ASSUME RowsSound, [RouteNext]_mapVars PROVE RowsSound'
  OBVIOUS
<1>1. ASSUME NEW r \in Reports, Create(r, None), UNCHANGED condition
      PROVE  RowsSound'
  <2> DEFINE row == [exists |-> TRUE, verified |-> clock, stale |-> Window(r, clock).stale,
                     expires |-> Window(r, clock).expires, resolved |-> None,
                     hidden |-> None, image |-> None]
  <2>1. report' = [report EXCEPT ![r] = row] /\ UNCHANGED clock
    BY <1>1 DEF Create
  <2>2. clock \in Nat
    BY DEF RowsSound
  <2>3. row \in ReportRows /\ row.stale <= row.expires
    BY <2>2, WindowIsOrdered DEF ReportRows
  <2> HIDE DEF row
  <2>4. QED
    BY <1>1, <2>1, <2>3, ReplacedIsSound
<1>2. ASSUME NEW r \in Reports, NEW d \in Devices, NEW status \in Votes,
             ConfirmAtOnce(r, d, status), UNCHANGED condition
      PROVE  RowsSound'
  <2> DEFINE c == [op |-> "confirm", req |-> r, device |-> d, status |-> status,
                   now |-> clock, image |-> None]
             cast == [vote[r] EXCEPT ![d] = status]
             resolved == NextResolvedAt(report[r].resolved, Count(cast, "still_active"),
                                        Count(cast, "cleared"), clock)
             kept == Refreshed(report[r], c)
             row == [kept EXCEPT !.resolved = resolved]
  <2>1. report' = [report EXCEPT ![r] = row] /\ UNCHANGED clock
    BY <1>2 DEF ConfirmAtOnce, Confirmed
  <2>2. clock \in Nat /\ report[r] \in ReportRows /\ report[r].stale <= report[r].expires
    BY DEF RowsSound
  <2>3. kept \in ReportRows /\ kept.stale <= kept.expires
    BY <2>2, WindowIsOrdered DEF Refreshed, ReportRows
  <2>4. resolved \in Nat \cup {None}
    <3>1. report[r].resolved \in Nat \cup {None}
      BY <2>2 DEF ReportRows
    <3>2. QED
      BY <2>2, <3>1 DEF NextResolvedAt
  <2> HIDE DEF kept, resolved
  <2>5. row \in ReportRows /\ row.stale <= row.expires
    BY <2>3, <2>4 DEF ReportRows
  <2> HIDE DEF row
  <2>6. QED
    BY <1>2, <2>1, <2>5, ReplacedIsSound
<1>3. ASSUME NEW r \in Reports, NEW action \in Actions, Apply(r, action), UNCHANGED condition
      PROVE  RowsSound'
  <2> DEFINE row == [report[r] EXCEPT !.hidden = IF Outcome(action).hide THEN "admin" ELSE None]
  <2>1. UNCHANGED clock
        /\ (UNCHANGED report \/ report' = [report EXCEPT ![r] = row])
    BY <1>3 DEF Apply, RowsSound
  <2>2. report[r] \in ReportRows /\ report[r].stale <= report[r].expires
    BY DEF RowsSound
  <2>3. row \in ReportRows /\ row.stale <= row.expires
    BY <2>2 DEF ReportRows
  <2> HIDE DEF row
  <2>4. CASE UNCHANGED report
    BY <1>3, <2>1, <2>4 DEF RowsSound
  <2>5. QED
    BY <1>3, <2>1, <2>3, <2>4, ReplacedIsSound
<1>4. ASSUME Tick, UNCHANGED condition
      PROVE  RowsSound'
  BY <1>4 DEF Tick, rows, RowsSound
<1>5. CASE UNCHANGED mapVars
  BY <1>5 DEF mapVars, vars, rows, RowsSound
<1>6. QED
  BY <1>1, <1>2, <1>3, <1>4, <1>5 DEF RouteNext

LEMMA AlwaysSound == RouteSpec => []RowsSound
<1>1. QED
  BY StartsSound, RowsStaySound, PTL DEF RouteSpec

\* Whatever the reports, the routes and the limits, and however short the pads
\* fall: a complete answer weighs every open report that affects a route and is
\* within what a pad is sure to cover, and nothing that does not affect it.
THEOREM NoReportStaysUnseen == RouteSpec => []NoReportIsMissed
<1>1. RowsSound => NoReportIsMissed
  BY IncidentsCount, ListsShowAll, GridsCountOnce, SecondsAreFound DEF NoReportIsMissed
<1>2. QED
  BY <1>1, AlwaysSound, PTL

\* Whatever the reports and the routes: "safe" means that nothing loaded closes
\* the route, "blocked" that something confirmed of late does, and the safest
\* and then the fastest come first.
THEOREM VerdictsStayHonest == RouteSpec => []VerdictIsHonest
<1>1. QED
  BY VerdictsAreHonest, AlwaysSound, PTL
=============================================================================
