---------------------------- MODULE LiveOperations ----------------------------
(***************************************************************************)
(* What `mssql-live-continue` promises an operator, whatever runs, fails or *)
(* dies meanwhile: of the operations published with a checkpoint at most    *)
(* one waits for its second cycle, nothing else is published while it does, *)
(* it is begun once and completed once, and only a completed operation      *)
(* whose configuration is in the database is reported complete.             *)
(*                                                                         *)
(* LiveSwitch implements it.                                               *)
(***************************************************************************)
CONSTANT Versions    (* contents of the configuration; 0: as it was found  *)

VARIABLES
    config,       (* what the database holds                               *)
    published,    (* the operations whose promotion was committed          *)
    unfinished,   (* those with their first cycle done only                *)
    complete,     (* those with both                                       *)
    told          (* those that were reported complete                     *)

vars == <<config, published, unfinished, complete, told>>

(* An operation replaces one content by another.                           *)
Operations == [old : Versions, new : Versions]

Init ==
    /\ config = 0
    /\ published = {} /\ unfinished = {} /\ complete = {} /\ told = {}

Publish(op) ==
    /\ unfinished = {} /\ config = op.old
    /\ config' = op.new
    /\ published' = published \cup {op}
    /\ UNCHANGED <<unfinished, complete, told>>

Begin(op) ==
    /\ unfinished = {} /\ op \in published \ complete
    /\ unfinished' = {op}
    /\ UNCHANGED <<config, published, complete, told>>

Complete(op) ==
    /\ unfinished = {op}
    /\ unfinished' = {} /\ complete' = complete \cup {op}
    /\ UNCHANGED <<config, published, told>>

Report(op) ==
    /\ op \in complete /\ config = op.new
    /\ told' = told \cup {op}
    /\ UNCHANGED <<config, published, unfinished, complete>>

(* A program outside the tool.                                             *)
Replace ==
    /\ config' \in Versions
    /\ UNCHANGED <<published, unfinished, complete, told>>

Next ==
    \/ \E op \in Operations :
          Publish(op) \/ Begin(op) \/ Complete(op) \/ Report(op)
    \/ Replace

Spec == Init /\ [][Next]_vars
=============================================================================
