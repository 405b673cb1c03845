---------------------------- MODULE MCManagedWorker ----------------------------
(* A small instance of ManagedWorker for TLC.                              *)
EXTENDS ManagedWorker, TLC

CONSTANTS w1, w2, w3

ThreeWorkers == {w1, w2, w3}

(* Workers differ only in name.                                            *)
Symmetry == Permutations(Workers)
=============================================================================
