--------------------------- MODULE MCFileDbPublish ---------------------------
(* Small instances of FileDbPublish for TLC.                               *)
EXTENDS FileDbPublish, TLC

CONSTANTS w1, w2, u1

OneWriter == {w1}
TwoWriters == {w1, w2}
OneUser == {u1}

(* Writers differ only in name.                                            *)
Symmetry == Permutations(Writers)
=============================================================================
