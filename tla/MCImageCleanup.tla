--------------------------- MODULE MCImageCleanup ---------------------------
(* One report, one device, two images and one or two replicas, for TLC.    *)
EXTENDS ImageCleanup, TLC

CONSTANTS d1, r1, s1, k1, k2, w1, w2

MCDevices == {d1}
MCReports == {r1}
MCSessions == {s1}
MCImages == {k1, k2}
MCWorkers == {w1, w2}
OneWorker == {w1}
MCSymmetry == Permutations(MCWorkers) \cup Permutations(MCImages)
=============================================================================
