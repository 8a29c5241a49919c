----------------------------- MODULE ReportMap -----------------------------
(***************************************************************************)
(* What the maps show of the reports of Reports: the list of a viewport,   *)
(* the reports near a point, the likely duplicates of a new report and the *)
(* grid of a zoomed-out map.                                               *)
(*                                                                         *)
(* A report's status is derived twice, by Status in Go and by predicates   *)
(* over its timestamps in SQL.  Places are points of a plane in units of   *)
(* 25 m; a query that LIMIT cuts returns any answer its ORDER BY allows.   *)
(* A box around a place is drawn in degrees, at 111 320 m to one of them,  *)
(* while distances are measured on a sphere where one is 111 195 m and     *)
(* less of longitude: the box comes out narrower than the distance it is   *)
(* drawn for, by PadShort at most, and the model draws the narrowest.      *)
(***************************************************************************)
EXTENDS Reports

CONSTANTS
    Conditions,      \* what each report may say: [Reports -> sets of conditions]
    Vehicles,
    PadShort,        \* how far a pad in degrees falls short of its meters
    MaxListLimit,    \* rows of a list
    MaxDuplicates,   \* maxDuplicateCandidates
    MaxCells         \* maxAggregateCells

VARIABLE condition   \* each report's category, place, severity and details

Points == Int \X Int

\* The reporter may have assessed the road for some vehicles, and may have
\* given the depth of a flood or the lanes that are closed.
ConditionRows ==
    [type : STRING, at : Points, severity : STRING, depth : STRING, detail : STRING,
     level : [Vehicles -> {"unknown", "passable", "caution", "not_recommended", "impassable"}]]

ASSUME ReportsAreFinite == IsFiniteSet(Reports)
ASSUME LimitsAreNat ==
    MaxListLimit \in Nat /\ MaxDuplicates \in Nat \ {0} /\ MaxCells \in Nat
ASSUME PadShortIsNat == PadShort \in Nat
ASSUME ConditionsAreTyped == Conditions \in [Reports -> SUBSET ConditionRows]

\* A confirmation that no other call overtakes.
ConfirmAtOnce(r, d, status) ==
    /\ Shown(r)
    /\ Confirmed([op |-> "confirm", req |-> r, device |-> d, status |-> status,
                  now |-> clock, image |-> None])
    /\ UNCHANGED <<complaint, call, clock>>

Sq(n) == n * n
DistanceSq(a, b) == Sq(a[1] - b[1]) + Sq(a[2] - b[2])

\* typeRules: whether passability applies, and how close a duplicate is.
AffectsRoad(t) == t \in {"flooded", "road_closed", "accident", "vehicle_stalled",
                         "obstruction", "road_damage", "construction"}
DuplicateRadius(t) ==
    CASE t \in {"flooded", "construction", "power_outage"} -> 6
      [] t \in {"road_closed", "shelter", "aid_point"} -> 4
      [] t \in {"accident", "traffic_signal_issue"} -> 3
      [] OTHER -> 2

Rank(severity) ==
    CASE severity = "critical" -> 4
      [] severity = "high" -> 3
      [] severity = "moderate" -> 2
      [] OTHER -> 1

-----------------------------------------------------------------------------
(* The status, in Go and in SQL.                                           *)

Statuses == {"active", "possibly_stale", "resolved", "expired"}
Visible == {"active", "possibly_stale"}

Status(row, now) ==
    CASE row.resolved # None -> "resolved"
      [] row.resolved = None /\ now >= row.expires -> "expired"
      [] row.resolved = None /\ now < row.expires /\ now >= row.stale -> "possibly_stale"
      [] OTHER -> "active"

\* queryBuilder.statuses.
HasStatus(row, s, now) ==
    \/ s = "active" /\ row.resolved = None /\ row.stale > now /\ row.expires > now
    \/ s = "possibly_stale" /\ row.resolved = None /\ row.stale <= now /\ row.expires > now
    \/ s = "expired" /\ row.resolved = None /\ row.expires <= now
    \/ s = "resolved" /\ row.resolved # None

-----------------------------------------------------------------------------
(* The queries.                                                            *)

\* A box is the square between two corners; no boxes means everywhere.
InBox(p, box) ==
    /\ box.min[1] <= p[1] /\ p[1] <= box.max[1]
    /\ box.min[2] <= p[2] /\ p[2] <= box.max[2]

Padded(meters) == IF meters > PadShort THEN meters - PadShort ELSE 0

Square(point, pad) ==
    [min |-> <<point[1] - pad, point[2] - pad>>, max |-> <<point[1] + pad, point[2] + pad>>]

Matches(boxes, statuses, now) ==
    {r \in Reports :
        /\ Shown(r)
        /\ \E s \in statuses : HasStatus(report[r], s, now)
        /\ boxes # {} => \E box \in boxes : InBox(condition[r].at, box)}

\* ORDER BY ... LIMIT: any choice that leaves out nothing that comes before it;
\* before is a set of pairs.
Cut(rows_, limit, before) ==
    {kept \in SUBSET rows_ :
        /\ Cardinality(kept) = IF Cardinality(rows_) < limit
                               THEN Cardinality(rows_) ELSE limit
        /\ \A in \in kept, out \in rows_ \ kept : <<out, in>> \notin before}

Newer == {p \in Reports \X Reports : report[p[1]].verified > report[p[2]].verified}

\* ReportRepository.List, newest first.
ListQuery(boxes, statuses, limit, now) ==
    Cut(Matches(boxes, statuses, now), limit, Newer)

\* Both services ask for one row more than they show, to tell whether the
\* answer was cut.
Page(boxes, statuses, limit, now) ==
    UNION {{[reports |-> kept, more |-> Cardinality(loaded) > limit] :
                kept \in Cut(loaded, limit, Newer)} :
              loaded \in ListQuery(boxes, statuses, limit + 1, now)}

List(box, statuses, now) == Page({box}, statuses, MaxListLimit, now)

\* ReportRepository.Nearby: the exact distance, among the rows of a box that
\* is drawn for the index.
Within(point, radius, statuses, now) ==
    {r \in Matches({Square(point, Padded(radius))}, statuses, now) :
        DistanceSq(condition[r].at, point) <= Sq(radius)}

FindDuplicates(point, type, now) ==
    LET closer == {p \in Reports \X Reports :
            DistanceSq(condition[p[1]].at, point) < DistanceSq(condition[p[2]].at, point)}
    IN  Cut({r \in Within(point, DuplicateRadius(type), Visible, now) :
                 condition[r].type = type},
            MaxDuplicates, closer)

\* Aggregate: one row per occupied cell of the grid, the fullest first.
Cell(p, size) == <<p[1] \div size, p[2] \div size>>

Cells(shown, size) ==
    LET inCell(cell) == {r \in shown : Cell(condition[r].at, size) = cell}
    IN  {[cell |-> cell,
          count |-> Cardinality(inCell(cell)),
          severe |-> Cardinality({r \in inCell(cell) : Rank(condition[r].severity) >= 3})] :
             cell \in {Cell(condition[r].at, size) : r \in shown}}

Aggregate(box, size, now) ==
    LET cells == Cells(Matches({box}, Visible, now), size)
    IN  Cut(cells, MaxCells, {p \in cells \X cells : p[1].count > p[2].count})
=============================================================================
