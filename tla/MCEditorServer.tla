--------------------------- MODULE MCEditorServer ---------------------------
(* Small instances of EditorServer for TLC.                                *)
EXTENDS EditorServer, TLC

CONSTANTS i1, i2, b1, b2

OneId == {i1}
TwoIds == {i1, i2}
OneBase == {b1}
TwoBases == {b1, b2}

ThreadMethods == {"initialize", "shutdown", "read"}
ImportMethods == {"initialize", "shutdown", "connect", "prepare", "import",
                  "apply"}
Symmetry == Permutations(Ids) \cup Permutations(Bases)
=============================================================================
