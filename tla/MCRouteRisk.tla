---------------------------- MODULE MCRouteRisk ----------------------------
(* Two reports of the kinds that are weighed differently, and routes that  *)
(* pass them in the middle of a segment, at an end, beside and far away.   *)
EXTENDS RouteRisk, TLC

CONSTANTS d1, r1, r2, s1

MCReports == {r1, r2}
MCLongLived == {r2}
MCDevices == {d1}
MCSessions == {s1}
Nobody == {}
MCVehicles == {"motorcycle", "suv_pickup"}

Said(type, at, severity, depth, detail) ==
    [type |-> type, at |-> at, severity |-> severity, depth |-> depth,
     detail |-> detail, level |-> Unlevelled]
Assessed(c, level) == [c EXCEPT !.level = [v \in Vehicles |-> level]]

MCConditions ==
    (r1 :> { Said("flooded", <<0, 12>>, "high", "knee", ""),
             Said("flooded", <<4, 24>>, "low", "above_knee", ""),
             Assessed(Said("flooded", <<4, 12>>, "low", "knee", ""), "passable"),
             Said("road_closed", <<0, 12>>, "low", "unknown", ""),
             Said("accident", <<2, 12>>, "critical", "unknown", ""),
             Assessed(Said("obstruction", <<3, 0>>, "low", "unknown", ""), "impassable") })
    @@
    (r2 :> { Said("construction", <<0, 13>>, "low", "unknown", "all"),
             Said("construction", <<12, 2>>, "low", "unknown", ""),
             Assessed(Said("road_damage", <<1, 24>>, "moderate", "unknown", ""),
                      "not_recommended"),
             Said("traffic_signal_issue", <<0, 12>>, "high", "unknown", "") })

\* Straight on over long segments, alone with its boxes, or around the corner;
\* the last answer has more routes than there are boxes.
Straight == [duration |-> 10, path |-> <<<<0, 0>>, <<0, 2>>, <<0, 22>>, <<0, 24>>>>]
Around == [duration |-> 10, path |-> <<<<0, 0>>, <<12, 0>>, <<12, 24>>, <<0, 24>>>>]
Slower == [duration |-> 20, path |-> <<<<0, 0>>, <<12, 0>>, <<12, 12>>>>]
Point == [duration |-> 5, path |-> <<<<0, 12>>>>]
MCTrips == {<<>>, <<Straight>>, <<Around, Straight>>, <<Slower, Point>>,
            <<Slower, Around, Slower, Around, Straight>>}
=============================================================================
