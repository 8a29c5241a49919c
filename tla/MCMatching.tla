----------------------------- MODULE MCMatching -----------------------------
(* Small instances of Matching for TLC.                                    *)
EXTENDS MatchViews, TLC

CONSTANTS cust, p1, p2, r1, s1, s2

MCProviders == {p1, p2}
MCUsers == {cust, p1, p2}
MCSessions == {s1, s2}
OneRequest == {r1}
OneCustomer == (r1 :> cust)
Charging == {[credit |-> TRUE, fee |-> 1, welcome |-> 1]}
ChargingOrFree == {[credit |-> TRUE, fee |-> 1, welcome |-> 1],
                   [credit |-> FALSE, fee |-> 1, welcome |-> 0]}
Covering == {{r1}}
NoAdjustments == {}
AlwaysAvailable == {TRUE}
OnAndOff == BOOLEAN
Nobody == {}
UpAndDown == {-1, 1}
CustomerAndFirst == {cust, p1}
FirstProvider == {p1}

OneSession == {s1}
MCSymmetry == Permutations(MCProviders) \cup Permutations(MCSessions)
=============================================================================
