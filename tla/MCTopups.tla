------------------------------ MODULE MCTopups ------------------------------
(* Two top-ups of one provider, for TLC.                                   *)
EXTENDS Topups, TLC

CONSTANTS p1, t1, t2

MCTopupIds == {t1, t2}
MCProviders == {p1}
OneWallet == (t1 :> p1 @@ t2 :> p1)
Packages == (t1 :> 1 @@ t2 :> 2)
=============================================================================
