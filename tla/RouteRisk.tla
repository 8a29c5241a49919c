----------------------------- MODULE RouteRisk -----------------------------
(***************************************************************************)
(* The safe-route planner: the routes a provider offers for a trip, scored *)
(* by the open reports along them.  The reports come from one query over   *)
(* boxes around the routes; which of them matter, and how much, is decided *)
(* afterwards from the distance to the line and the vehicle.  The routes   *)
(* of a trip run along the grid.                                           *)
(***************************************************************************)
EXTENDS ReportMap, Sequences, FiniteSetsExt

CONSTANTS
    Trips,          \* the answers a provider may give: sequences of routes,
                    \* each with its duration and its path
    MaxCorridorBoxes,
    CorridorReportLimit

ASSUME PlannerBoundsAreNat ==
    MaxCorridorBoxes \in Nat /\ CorridorReportLimit \in Nat \ {0}
ASSUME TripsAreTyped == Trips \subseteq Seq([duration : Nat, path : Seq(Points)])

MaxAffectRadius == 4
AffectRadius(t) == IF t = "flooded" THEN MaxAffectRadius ELSE 2

-----------------------------------------------------------------------------
(* Geometry.                                                               *)

\* How far n lies outside the interval between a and b.
Outside(n, a, b) == Max({0, Min({a, b}) - n, n - Max({a, b})})

\* DistanceToPathM is at most the radius: segments run along the grid, and
\* everything is far from a path without points.
NearPath(p, path, radius) ==
    IF Len(path) = 1 THEN DistanceSq(p, path[1]) <= Sq(radius)
    ELSE \E i \in 1..Len(path) - 1 :
            Sq(Outside(p[1], path[i][1], path[i + 1][1]))
            + Sq(Outside(p[2], path[i][2], path[i + 1][2])) <= Sq(radius)

\* A report near enough to matter to a route.
Affects(c, path) == NearPath(c.at, path, AffectRadius(c.type))

Box(points, pad) ==
    [min |-> <<Min({p[1] : p \in points}) - pad, Min({p[2] : p \in points}) - pad>>,
     max |-> <<Max({p[1] : p \in points}) + pad, Max({p[2] : p \in points}) + pad>>]

\* The points of the chunk that begins at start: one more than its length, so
\* that a segment crossing chunks is covered.
ChunkAlone(path, start, chunk) ==
    {path[i] : i \in start..Min({start + chunk - 1, Len(path)})}
Chunk(path, start, chunk) ==
    {path[i] : i \in start..Min({start + chunk, Len(path)})}

CorridorBoxes(path, pad, maxBoxes) ==
    IF path = <<>> \/ maxBoxes < 1 THEN {}
    ELSE LET chunk == (Len(path) + maxBoxes - 1) \div maxBoxes
         IN  {Box(Chunk(path, start, chunk), Padded(pad)) :
                 start \in {n \in 1..Len(path) : (n - 1) % chunk = 0}}

-----------------------------------------------------------------------------
(* What one report means for one vehicle.                                  *)

Unlevelled == [v \in Vehicles |-> "unknown"]

DepthPassability(depth) ==
    CASE depth = "ankle" -> [v \in Vehicles |-> "passable"]
      [] depth = "shin" ->
             [v \in Vehicles |-> IF v = "suv_pickup" THEN "passable" ELSE "caution"]
      [] depth = "knee" ->
             [v \in Vehicles |->
                 CASE v = "motorcycle" -> "impassable"
                   [] v = "suv_pickup" -> "caution"
                   [] OTHER -> "not_recommended"]
      [] depth = "above_knee" ->
             [v \in Vehicles |-> IF v = "suv_pickup" THEN "not_recommended"
                                 ELSE "impassable"]
      [] OTHER -> Unlevelled

\* The reporter's own assessment, else the flood's depth.
PassLevelFor(c, v) ==
    CASE c.level[v] # "unknown" -> c.level[v]
      [] c.level[v] = "unknown" /\ c.type = "flooded" -> DepthPassability(c.depth)[v]
      [] OTHER -> "unknown"

BlockAnyway(stale) == "blocked"
Block(stale) == IF stale THEN "caution" ELSE "blocked"

\* Without a passability the category and its details decide.
ImpactOfDetails(c, stale) ==
    CASE c.type = "road_closed" ->
             IF c.detail = "partial" THEN "caution" ELSE Block(stale)
      [] c.type \in {"accident", "construction"} /\ c.detail = "all" -> Block(stale)
      [] c.type \in {"accident", "construction"} /\ c.detail \notin {"", "none", "all"} ->
             "caution"
      [] c.type = "construction" /\ c.detail = "" -> "caution"
      [] c.type = "road_damage" /\ Rank(c.severity) >= Rank("moderate") -> "caution"
      [] OTHER -> IF Rank(c.severity) >= 3 THEN "caution" ELSE "info"

ImpactOf(c, v, status) ==
    LET stale == status = "possibly_stale"
    IN  CASE c.type = "traffic_signal_issue" -> "caution"
          [] c.type # "traffic_signal_issue" /\ ~AffectsRoad(c.type) -> "info"
          [] AffectsRoad(c.type) /\ PassLevelFor(c, v) = "impassable" -> Block(stale)
          [] AffectsRoad(c.type) /\ PassLevelFor(c, v) \in {"not_recommended", "caution"} ->
                 "caution"
          [] AffectsRoad(c.type) /\ PassLevelFor(c, v) = "passable" -> "info"
          [] OTHER -> ImpactOfDetails(c, stale)

RiskOf == [info |-> "safe", caution |-> "caution", blocked |-> "blocked"]
RiskRank == [safe |-> 0, caution |-> 1, blocked |-> 2]

-----------------------------------------------------------------------------
(* Evaluate.                                                               *)

\* The domain's: one candidate against the reports that were loaded.
Score(route, loaded, v, now) ==
    LET incidents == {r \in loaded :
            /\ Status(report[r], now) \in Visible /\ Shown(r)
            /\ Affects(condition[r], route.path)}
        impact == [r \in incidents |->
                      ImpactOf(condition[r], v, Status(report[r], now))]
        risks == {"safe"} \cup {RiskOf[impact[r]] : r \in incidents}
    IN  [duration |-> route.duration, path |-> route.path, impact |-> impact,
         risk |-> CHOOSE worst \in risks : \A risk \in risks : RiskRank[risk] <= RiskRank[worst]]

\* Safest first, then fastest, and as the provider had them.
Before(scored, i, j) ==
    \/ RiskRank[scored[i].risk] < RiskRank[scored[j].risk]
    \/ /\ scored[i].risk = scored[j].risk
       /\ \/ scored[i].duration < scored[j].duration
          \/ scored[i].duration = scored[j].duration /\ i < j

Place(scored, i) == 1 + Cardinality({j \in DOMAIN scored : Before(scored, j, i)})

InOrder(scored) ==
    [n \in DOMAIN scored |-> scored[CHOOSE i \in DOMAIN scored : Place(scored, i) = n]]

\* The service's: one corridor query for all the candidates.
Corridor(trip) ==
    UNION {CorridorBoxes(trip[i].path, MaxAffectRadius, MaxCorridorBoxes \div Len(trip)) :
               i \in DOMAIN trip}

Evaluate(trip, v, now) ==
    IF trip = <<>> THEN {[complete |-> TRUE, routes |-> <<>>]}
    ELSE {[complete |-> ~page.more,
           routes |-> InOrder([i \in DOMAIN trip |-> Score(trip[i], page.reports, v, now)])] :
             page \in Page(Corridor(trip), Visible, CorridorReportLimit, now)}

-----------------------------------------------------------------------------

mapVars == <<vars, condition>>

RouteInit ==
    /\ Init
    /\ condition \in {c \in [Reports -> UNION {Conditions[r] : r \in Reports}] :
                          \A r \in Reports : c[r] \in Conditions[r]}

\* The reports as Reports moves them, one call at a time and complaints aside.
RouteNext ==
    /\ \/ \E r \in Reports : Create(r, None)
       \/ \E r \in Reports, d \in Devices, status \in Votes : ConfirmAtOnce(r, d, status)
       \/ \E r \in Reports, action \in Actions : Apply(r, action)
       \/ Tick
    /\ UNCHANGED condition

RouteSpec == RouteInit /\ [][RouteNext]_mapVars

Everywhere == Box({condition[r].at : r \in Reports}, 0)
Open(r) == Shown(r) /\ Status(report[r], clock) \in Visible

OpenReports == {r \in Reports : Open(r)}

Affecting(path) == {r \in OpenReports : Affects(condition[r], path)}

\* Those that also lie within what a corridor's box is sure to hold.
SurelyAffecting(path) ==
    {r \in Affecting(path) : NearPath(condition[r].at, path, Padded(MaxAffectRadius))}

EveryIncidentCounts ==
    \A trip \in Trips : \A v \in Vehicles : \A answer \in Evaluate(trip, v, clock) :
        answer.complete =>
            \A n \in DOMAIN answer.routes :
                LET path == answer.routes[n].path
                    counted == DOMAIN answer.routes[n].impact
                IN  SurelyAffecting(path) \subseteq counted /\ counted \subseteq Affecting(path)

ListsAreWhole ==
    \A s \in Statuses : \A answer \in List(Everywhere, {s}, clock) :
        ~answer.more => answer.reports =
            {r \in Reports : Shown(r) /\ Status(report[r], clock) = s}

GridCountsOnce ==
    Cardinality({Cell(condition[r].at, 4) : r \in OpenReports}) <= MaxCells =>
        \A rows_ \in Aggregate(Everywhere, 4, clock) :
            Cardinality(UNION {{row.cell} \X (1..row.count) : row \in rows_})
                = Cardinality(OpenReports)

SecondsAreRecognised ==
    \A r \in OpenReports :
        \A found \in FindDuplicates(condition[r].at, condition[r].type, clock) : found # {}

\* A complete answer weighs only reports that are open and affect the route,
\* and each of them that is not in the last PadShort of the widest corridor,
\* whatever box it fell in and whichever of the two derivations of its status
\* was asked (application/route/service.go:60-89); the map lists a report under
\* its status, a grid that is not cut counts it once and a second report of it
\* is recognised.
NoReportIsMissed ==
    EveryIncidentCounts /\ ListsAreWhole /\ GridCountsOnce /\ SecondsAreRecognised

\* "MaxAffectRadiusM is the widest corridor any category uses; the repository
\* query pads route bounding boxes by it" (route.go:176-178): a complete answer
\* weighs every open report that affects the route.  A pad that falls short
\* leaves out a flood at the edge of its radius.
CorridorsAreWideEnough ==
    \A trip \in Trips : \A v \in Vehicles : \A answer \in Evaluate(trip, v, clock) :
        answer.complete =>
            \A n \in DOMAIN answer.routes :
                Affecting(answer.routes[n].path) \subseteq DOMAIN answer.routes[n].impact

\* What a report says, without the rules that weigh it.
Closes(c, v) ==
    \/ AffectsRoad(c.type) /\ PassLevelFor(c, v) = "impassable"
    \/ /\ PassLevelFor(c, v) = "unknown"
       /\ \/ c.type = "road_closed" /\ c.detail # "partial"
          \/ c.type \in {"accident", "construction"} /\ c.detail = "all"

\* "safe only ever means no open community report says something obstructs
\* this route" (route.go:55), a route is blocked only by a report that somebody
\* confirmed of late, and the traveller is offered the safest first, then the
\* fastest.
VerdictIsHonest ==
    \A trip \in Trips : \A v \in Vehicles : \A answer \in Evaluate(trip, v, clock) :
        LET at(n) == answer.routes[n]
            says(n) == {r \in DOMAIN at(n).impact : Closes(condition[r], v)}
        IN  /\ \A n \in DOMAIN answer.routes :
                   /\ at(n).risk = "safe" => says(n) = {}
                   /\ at(n).risk = "blocked" <=>
                          \E r \in says(n) : clock < report[r].stale
            /\ \A m, n \in DOMAIN answer.routes : m < n =>
                   \/ RiskRank[at(m).risk] < RiskRank[at(n).risk]
                   \/ at(m).risk = at(n).risk /\ at(m).duration <= at(n).duration
=============================================================================
