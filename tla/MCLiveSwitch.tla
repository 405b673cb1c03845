----------------------------- MODULE MCLiveSwitch -----------------------------
(* Small instances of LiveSwitch for TLC.                                  *)
EXTENDS LiveSwitch, TLC

CONSTANTS r1, r2, r3, t1, t2

TwoRuns == {r1, r2}
ThreeRuns == {r1, r2, r3}
OneTail == {t1}
TwoTails == {t1, t2}

(* Runs differ only in name, and so do paths.                              *)
Symmetry == Permutations(Runs) \union Permutations(Tails)
=============================================================================
