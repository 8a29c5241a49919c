------------------------------- MODULE MCSos -------------------------------
(* Two requesters and two helpers, for TLC.                                *)
EXTENDS Sos, TLC

CONSTANTS d1, d2, h1, h2, r1, r2, s1, s2, near

MCDevices == {d1, d2, h1, h2}
MCRequests == {r1, r2}
MCVolunteers == {h1, h2}
MCDeviceOf == (r1 :> d1 @@ r2 :> d2)
MCTypeOf == (r1 :> "need_boat" @@ r2 :> "need_boat")
OnePlace == {near}
Boats == {[caps |-> {"boat"}, radius |-> 1]}
MCSessions == {s1, s2}
\* Each request goes with its requester.
SwapRequesters == (r1 :> r2 @@ r2 :> r1 @@ d1 :> d2 @@ d2 :> d1)
MCSymmetry ==
    Permutations(MCSessions) \cup Permutations(MCVolunteers) \cup {SwapRequesters}
=============================================================================
