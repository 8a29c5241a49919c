----------------------------- MODULE MCReports -----------------------------
(* One report, three devices and two concurrent calls, for TLC.            *)
EXTENDS Reports, TLC

CONSTANTS d1, d2, d3, r1, s1, s2

MCDevices == {d1, d2, d3}
MCComplainers == {d1, d2}
MCReports == {r1}
MCSessions == {s1, s2}
NoImages == {}
MCSymmetry == Permutations(MCSessions) \cup Permutations(MCComplainers)
=============================================================================
