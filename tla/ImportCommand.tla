---------------------------- MODULE ImportCommand ----------------------------
(***************************************************************************)
(* Importing files into the infobase selected: importFiles of              *)
(* editors/vscode/src/extension.ts and runImport of import.ts, beside the  *)
(* commands of Connections that select, reload and lose the connection.    *)
(*                                                                         *)
(* The import has its files checked by the server, asks the user to        *)
(* confirm them and has them published.  Before each of these steps, and   *)
(* before it shows anything, it checks that the connection and the         *)
(* settings are still those it began with; the check itself is suspended   *)
(* while the settings file is read.  What the server does with the two     *)
(* requests is EditorServer.                                               *)
(***************************************************************************)
EXTENDS Connections

VARIABLES
    stage,      (* what the import waits for                               *)
    next,       (* what it does when the check in progress passes          *)
    began,      (* the connection it began with                            *)
    text,       (* the settings the check in progress read                 *)
    expanded    (* missing references were added to the files once         *)

import == <<stage, next, began, text, expanded>>
allVars == <<vars, import>>

NoConnection == [rpc |-> 0, stamp |-> 0, selected |-> Nothing, active |-> 0]
Connection == [rpc |-> client, stamp |-> generation, selected |-> selected,
               active |-> active]

ImportInit ==
    /\ Init
    /\ stage = "none" /\ next = "none" /\ began = NoConnection
    /\ text = 0 /\ expanded = FALSE

(* The check, `current`: the connection before and after the settings are  *)
(* read, and the settings read.                                            *)

Unchanged == Connection = began /\ began.active # 0

(* Mutant: the settings are not compared.                                  *)
PassesByConnection == Connection = began

Passes == Connection = began /\ text = began.active

(* The import is over, and with it what it remembers.                      *)
Over ==
    /\ stage' = "done" /\ next' = "none" /\ began' = NoConnection
    /\ text' = 0 /\ expanded' = FALSE

(* The check before `what`, suspended at once; `added` is the value of     *)
(* `expanded` from then on.                                                *)
CheckBefore(what, added) ==
    IF Unchanged
    THEN /\ stage' = "checking" /\ next' = what /\ expanded' = added
         /\ UNCHANGED <<began, text>>
    ELSE Over

ImportBegins ==
    /\ stage = "none"
    /\ client # 0 /\ selected # Nothing
    /\ IF active # 0
       THEN /\ began' = Connection
            /\ stage' = "checking" /\ next' = "prepare"
            /\ UNCHANGED <<text, expanded>>
       ELSE Over
    /\ UNCHANGED vars

CheckReads ==
    /\ stage = "checking"
    /\ stage' = "checked" /\ text' = disk
    /\ UNCHANGED <<vars, next, began, expanded>>

(* A document of the workspace that is not saved fails the check too.      *)
CheckFails ==
    /\ stage = "checked"
    /\ Over
    /\ UNCHANGED vars

(* The request of the server or the question to the user is on its way.    *)
CheckPasses ==
    /\ stage = "checked" /\ next # "show" /\ Passes
    /\ stage' = next
    /\ UNCHANGED <<vars, next, began, text, expanded>>

Answers == rpc[began.rpc] = "live"

(* The files are checked, and what they refer to is there or can be added. *)
Prepared ==
    /\ stage = "prepare" /\ Answers
    /\ \/ CheckBefore("confirm", expanded)
       \/ ~expanded /\ CheckBefore("expand", expanded)
    /\ UNCHANGED vars

(* The user lets the missing objects be added: the files are checked again.*)
Expanded ==
    /\ stage = "expand"
    /\ CheckBefore("prepare", TRUE)
    /\ UNCHANGED vars

(* Mutant: the import is not checked again after the user confirmed it.    *)
ConfirmedUnchecked ==
    /\ stage = "confirm"
    /\ stage' = "publish" /\ next' = "none"
    /\ UNCHANGED <<vars, began, text, expanded>>

Confirmed ==
    /\ stage = "confirm"
    /\ CheckBefore("publish", expanded)
    /\ UNCHANGED vars

Published ==
    /\ stage = "publish" /\ Answers
    /\ CheckBefore("pending", expanded)
    /\ UNCHANGED vars

(* The pending state, known or not, is shown with the connection.          *)
PendingAnswered ==
    /\ stage = "pending" /\ Answers
    /\ CheckBefore("show", expanded)
    /\ UNCHANGED vars

(* A request failed, timed out or was cancelled, or the user declined.     *)
ImportFails ==
    /\ stage \in {"prepare", "expand", "confirm", "publish"}
    /\ Over
    /\ UNCHANGED vars

ShowImported ==
    /\ status' = Shows("connected", began.selected.base)
    /\ UNCHANGED <<generation, client, selected, active, command, servers,
                   rest>>

(* The pending state could not be learned: only the connection, never the  *)
(* settings, is compared.                                                  *)
PendingFails ==
    /\ stage = "pending"
    /\ Over
    /\ IF [Connection EXCEPT !.active = began.active] = began
       THEN ShowImported ELSE UNCHANGED vars

ImportEnds ==
    /\ stage = "checked" /\ next = "show" /\ Passes
    /\ Over
    /\ ShowImported

ImportStep ==
    \/ ImportBegins \/ CheckReads \/ CheckFails \/ CheckPasses
    \/ Prepared \/ Expanded \/ Confirmed \/ Published \/ PendingAnswered
    \/ ImportFails \/ PendingFails \/ ImportEnds

ImportNext == ImportStep \/ (Next /\ UNCHANGED import)

ImportSpec == ImportInit /\ [][ImportNext]_allVars

-----------------------------------------------------------------------------
(* The import stays within its stages, and one that runs has a connection  *)
(* and settings to compare with.                                           *)
ImportTypeOK ==
    /\ stage \in {"none", "checking", "checked", "prepare", "expand",
                  "confirm", "publish", "pending", "done"}
    /\ next \in {"none", "prepare", "expand", "confirm", "publish", "pending",
                 "show"}
    /\ began.rpc \in 0 .. MaxEvents /\ began.stamp <= generation
    /\ text \in {0} \cup Texts /\ expanded \in BOOLEAN
    /\ stage \notin {"none", "done"} => began.rpc # 0 /\ began.active # 0

Publishing == stage # "publish" /\ stage' = "publish"

(* Files are published only over the connection in use, which is still the *)
(* one the user saw when confirming them: to the infobase selected, with   *)
(* no selection, reload or loss in between (import.ts, check; extension.ts,*)
(* current).                                                               *)
PublishesToSelection ==
    [][Publishing =>
         /\ client = began.rpc /\ Current(client) /\ rpc[client] = "live"
         /\ target[client] = selected.base
         /\ selected = began.selected]_allVars

(* The server that publishes works under the settings the import was begun *)
(* and confirmed under (extension.ts, activeSettings; import.ts, check).   *)
PublishesUnderItsSettings ==
    [][Publishing => served[began.rpc] = began.active]_allVars
=============================================================================
