----------------------------- MODULE InfobaseStore -----------------------------
(***************************************************************************)
(* What a file infobase promises its users, whoever writes it: its content *)
(* changes in single steps; an import replaces the version it was made     *)
(* from, and only once that version is kept as a backup; and the version   *)
(* the latest import replaced stays kept until the next import.            *)
(***************************************************************************)
EXTENDS Naturals

CONSTANT Versions   (* the versions of the database; 0 is none of them     *)

VARIABLES
    db,      (* the version a reader of the infobase gets                   *)
    needed,  (* the version the latest import replaced, 0 for none          *)
    kept     (* the versions kept beside the database                       *)

vars == <<db, needed, kept>>

TypeOK ==
    /\ db \in Versions
    /\ needed \in Versions \cup {0}
    /\ kept \subseteq Versions

Init ==
    /\ db \in Versions
    /\ needed = 0
    /\ kept = {}

(* An import: the replaced version is kept before it is replaced.          *)
Import ==
    /\ db \in kept
    /\ db' \in Versions \ {db}
    /\ needed' = db
    /\ UNCHANGED kept

(* The platform changes the database it has open, and with it a copy an     *)
(* interrupted import left that is only another name of the same file.      *)
Edit ==
    /\ db' \in Versions \ {db}
    /\ kept' \in {kept, (kept \ {db}) \cup {db'}}
    /\ UNCHANGED needed

(* The copies beside the database come and go; the needed one stays.       *)
Rotate ==
    /\ kept' \in SUBSET Versions
    /\ needed # 0 => needed \in kept'
    /\ UNCHANGED <<db, needed>>

Next == Import \/ Edit \/ Rotate

Spec == Init /\ [][Next]_vars
===============================================================================
