------------------------------ MODULE Connections ------------------------------
(***************************************************************************)
(* The connections of the VS Code extension (editors/vscode/src/           *)
(* extension.ts): choosing an infobase of the workspace starts an editor   *)
(* server for it, reloading starts it anew, and a change of the settings   *)
(* file ends it.                                                           *)
(*                                                                         *)
(* Commands overlap: each one is suspended at its awaits while others run, *)
(* and a generation number tells it afterwards whether it was superseded.  *)
(* Commands are numbered as the user gives them; the server a command      *)
(* starts has its number.  A server and its client behave as RpcContract   *)
(* says; the settings file is the number of its text.                      *)
(***************************************************************************)
EXTENDS Naturals, FiniteSets

CONSTANTS
    Bases,            (* infobases bound to the workspace folder           *)
    MaxEvents,        (* bound: what the user does: commands, changes of   *)
                      (* the configuration and of the settings file        *)
    SettingsReturn    (* whether a change may bring an earlier text back   *)

ASSUME ConnectionsAssumption ==
    MaxEvents \in Nat /\ SettingsReturn \in BOOLEAN

VARIABLES
    generation,    (* counts selections, reloads and losses                *)
    client,        (* the server in use, 0 when undefined                  *)
    selected,      (* the infobase in use and the command that chose it    *)
    active,        (* the settings it was chosen under, 0 when undefined   *)
    status,        (* the status bar                                       *)
    at,            (* command -> where it is suspended                     *)
    target,        (* command -> its infobase                              *)
    stamp,         (* command -> the generation it started                 *)
    previous,      (* command -> the server whose end it awaits            *)
    seen,          (* command -> the settings it read                      *)
    rpc,           (* command -> the phase of its server, "none" before    *)
    served,        (* command -> the settings its server read              *)
    disk,          (* the text of the settings file                        *)
    changed,       (* a change the watcher has not reported                *)
    reports,       (* reports of the watcher in progress                   *)
    events         (* what the user did so far                             *)

view == <<generation, client, selected, active, status>>
command == <<at, target, stamp, previous, seen>>
servers == <<rpc, served>>
settings == <<disk, changed, reports>>
rest == <<settings, events>>
vars == <<view, command, servers, rest>>

Commands == 1 .. MaxEvents
Texts == 1 .. MaxEvents + 1
NoBase == "none"
Nothing == [base |-> NoBase, by |-> 0, bound |-> FALSE]
Shows(what, b) == [what |-> what, base |-> b]

Current(c) == generation = stamp[c]
To(c, place) == at' = [at EXCEPT ![c] = place]

(* `dispose` does nothing to a server that was lost already.               *)
Disposing(r) ==
    IF r \in Commands /\ rpc[r] = "live" THEN [rpc EXCEPT ![r] = "ending"] ELSE rpc

Init ==
    /\ generation = 0 /\ client = 0 /\ selected = Nothing /\ active = 0
    /\ status = Shows("idle", NoBase)
    /\ at = [c \in Commands |-> "none"]
    /\ target = [c \in Commands |-> NoBase]
    /\ stamp = [c \in Commands |-> 0]
    /\ previous = [c \in Commands |-> 0]
    /\ seen = [c \in Commands |-> 0]
    /\ rpc = [c \in Commands |-> "none"] /\ served = [c \in Commands |-> 0]
    /\ disk = 1 /\ changed = FALSE /\ reports = {}
    /\ events = 0

UserActs == events < MaxEvents /\ events' = events + 1

-----------------------------------------------------------------------------
(* Selecting an infobase.                                                  *)

(* The start of switchTo, up to its first await: the server in use is let  *)
(* go and disposed of.                                                     *)
SwitchTo(c, b) ==
    /\ generation' = generation + 1
    /\ stamp' = [stamp EXCEPT ![c] = generation + 1]
    /\ client' = 0 /\ active' = 0
    /\ selected' = [base |-> b, by |-> c, bound |-> FALSE]
    /\ status' = Shows("connecting", b)
    /\ rpc' = Disposing(client)
    /\ previous' = [previous EXCEPT ![c] = client]
    /\ target' = [target EXCEPT ![c] = b]
    /\ To(c, "ending")
    /\ UNCHANGED <<seen, served, settings>>

Given == {c \in Commands : at[c] # "none"}
NextCommand == Cardinality(Given) + 1

Select(b) ==
    /\ UserActs
    /\ SwitchTo(NextCommand, b)

Ended(r) == r \in Commands => rpc[r] = "dead"

PreviousEnded(c) ==
    /\ at[c] = "ending" /\ Ended(previous[c])
    /\ To(c, IF Current(c) THEN "reading" ELSE "done")
    /\ UNCHANGED <<view, target, stamp, previous, seen, servers, rest>>

ReadsSettings(c) ==
    /\ at[c] = "reading"
    /\ seen' = [seen EXCEPT ![c] = disk]
    /\ To(c, "read")
    /\ UNCHANGED <<view, target, stamp, previous, servers, rest>>

Spawn(c) == To(c, "starting") /\ rpc' = [rpc EXCEPT ![c] = "live"]

(* A SQL login may have to be asked for.                                   *)
SettingsRead(c) ==
    /\ at[c] = "read"
    /\ IF Current(c)
       THEN /\ active' = seen[c]
            /\ Spawn(c) \/ (To(c, "asking") /\ UNCHANGED rpc)
       ELSE To(c, "done") /\ UNCHANGED <<active, rpc>>
    /\ UNCHANGED <<generation, client, selected, status, target, stamp,
                   previous, seen, served, rest>>

Asked(c) ==
    /\ at[c] = "asking"
    /\ IF Current(c) THEN Spawn(c) ELSE To(c, "done") /\ UNCHANGED rpc
    /\ UNCHANGED <<view, target, stamp, previous, seen, served, rest>>

(* The server reads the settings when it handles `initialize`.             *)
ServerReads(c) ==
    /\ at[c] = "starting" /\ rpc[c] = "live" /\ served[c] = 0
    /\ served' = [served EXCEPT ![c] = disk]
    /\ UNCHANGED <<view, command, rpc, rest>>

(* Mutant: the server a superseded command started is kept.                *)
StartedKeeping(c) ==
    /\ at[c] = "starting" /\ rpc[c] = "live" /\ served[c] # 0
    /\ IF Current(c)
       THEN client' = c /\ To(c, "connecting")
       ELSE To(c, "done") /\ UNCHANGED client
    /\ UNCHANGED <<generation, selected, active, status, target, stamp,
                   previous, seen, servers, rest>>

(* Initialized: a superseded command disposes of its server.               *)
Started(c) ==
    /\ at[c] = "starting" /\ rpc[c] = "live" /\ served[c] # 0
    /\ IF Current(c)
       THEN client' = c /\ To(c, "connecting") /\ UNCHANGED rpc
       ELSE To(c, "done") /\ rpc' = Disposing(c) /\ UNCHANGED client
    /\ UNCHANGED <<generation, selected, active, status, target, stamp,
                   previous, seen, served, rest>>

(* `initialize` failed: the server is ended before that is reported.       *)
StartFails(c) ==
    /\ at[c] = "starting"
    /\ rpc' = Disposing(c)
    /\ To(c, "failing")
    /\ UNCHANGED <<view, target, stamp, previous, seen, served, rest>>

(* The connection is made: the selection takes the platform it reported.   *)
Bind(c) ==
    IF Current(c)
    THEN /\ selected' = [base |-> target[c], by |-> c, bound |-> TRUE]
         /\ To(c, "pending")
    ELSE To(c, "done") /\ UNCHANGED selected

Connected(c) ==
    /\ at[c] = "connecting" /\ rpc[c] = "live"
    /\ Bind(c)
    /\ UNCHANGED <<generation, client, active, status, target, stamp,
                   previous, seen, servers, rest>>

(* A password the user was asked for is stored first.                      *)
Storing(c) ==
    /\ at[c] = "connecting" /\ rpc[c] = "live" /\ Current(c)
    /\ To(c, "storing")
    /\ UNCHANGED <<view, target, stamp, previous, seen, servers, rest>>

Stored(c) ==
    /\ at[c] = "storing"
    /\ Bind(c)
    /\ UNCHANGED <<generation, client, active, status, target, stamp,
                   previous, seen, servers, rest>>

(* Mutant: the status is shown without asking whether it is still wanted.  *)
ShowConnectedAnyway(c) == status' = Shows("connected", target[c])

ShowConnected(c) ==
    IF Current(c) THEN status' = Shows("connected", target[c])
                  ELSE UNCHANGED status

(* The pending state was asked for, successfully or not.                   *)
Done(c) ==
    /\ at[c] = "pending"
    /\ ShowConnected(c)
    /\ To(c, "done")
    /\ UNCHANGED <<generation, client, selected, active, target, stamp,
                   previous, seen, servers, rest>>

(* Mutant: a failure is not shown.                                         *)
CatchSilently(c) ==
    /\ client' = IF client = c THEN 0 ELSE client
    /\ rpc' = Disposing(c)
    /\ To(c, "done")
    /\ UNCHANGED <<generation, selected, active, status, target, stamp,
                   previous, seen, served, rest>>

(* The command failed, or the user cancelled it.                           *)
Catch(c) ==
    /\ status' = IF Current(c) THEN Shows("disconnected", target[c]) ELSE status
    /\ client' = IF client = c THEN 0 ELSE client
    /\ rpc' = Disposing(c)
    /\ To(c, "done")
    /\ UNCHANGED <<generation, selected, active, target, stamp, previous,
                   seen, served, rest>>

(* The settings cannot be read, the prompt is left, the server does not    *)
(* start or connect; once it connected, only the user's cancellation.      *)
Throws(c) ==
    /\ at[c] \in {"reading", "asking", "connecting", "storing", "pending"}
       \/ (at[c] = "failing" /\ rpc[c] = "dead")
    /\ Catch(c)

-----------------------------------------------------------------------------
(* Losing and reloading the connection.                                    *)

(* Mutant: the loss of a server is always taken for that of the selection. *)
CrashUnstamped(c) ==
    /\ generation' = generation + 1
    /\ status' = Shows("disconnected", target[c])

OnCrash(c) ==
    IF Current(c)
    THEN /\ generation' = generation + 1
         /\ status' = Shows("disconnected", target[c])
    ELSE UNCHANGED <<generation, status>>

(* The server was lost, which is reported to the command that started it.  *)
Lost(c) ==
    /\ rpc[c] = "live"
    /\ rpc' = [rpc EXCEPT ![c] = "dead"]
    /\ OnCrash(c)
    /\ UNCHANGED <<client, selected, active, command, served, rest>>

(* A server that was disposed of has ended.                                *)
Ends(c) ==
    /\ rpc[c] = "ending"
    /\ rpc' = [rpc EXCEPT ![c] = "dead"]
    /\ UNCHANGED <<view, command, served, rest>>

Invalidate ==
    /\ generation' = generation + 1
    /\ client' = 0
    /\ status' = Shows("reload", NoBase)
    /\ rpc' = Disposing(client)

(* Another change of the extension's configuration, an edited connection.  *)
ConfigurationChanges ==
    /\ UserActs
    /\ Invalidate
    /\ UNCHANGED <<selected, active, command, served, settings>>

Reload ==
    /\ UserActs
    /\ selected # Nothing
    /\ Invalidate
    /\ stamp' = [stamp EXCEPT ![NextCommand] = generation + 1]
    /\ previous' = [previous EXCEPT ![NextCommand] = client]
    /\ target' = [target EXCEPT ![NextCommand] = selected.base]
    /\ To(NextCommand, "reloading")
    /\ UNCHANGED <<selected, active, seen, served, settings>>

Wanted(c) == Current(c) /\ selected.base = target[c]

ReloadGoesOn(c) ==
    /\ at[c] = "reloading" /\ Ended(previous[c])
    /\ To(c, IF Wanted(c) THEN "listing" ELSE "done")
    /\ UNCHANGED <<view, target, stamp, previous, seen, servers, rest>>

(* Mutant: the reload goes on whatever was selected meanwhile.             *)
ListedAnyway(c) ==
    /\ at[c] = "listing"
    /\ SwitchTo(c, target[c])
    /\ UNCHANGED events

(* The infobase is still among those the settings list.                    *)
Listed(c) ==
    /\ at[c] = "listing" /\ Wanted(c)
    /\ SwitchTo(c, target[c])
    /\ UNCHANGED events

(* It is not, the listing failed, or the reload was superseded.            *)
NotListed(c) ==
    /\ at[c] = "listing"
    /\ To(c, "done")
    /\ UNCHANGED <<view, target, stamp, previous, seen, servers, rest>>

-----------------------------------------------------------------------------
(* The settings file.                                                      *)

Edit ==
    /\ UserActs
    /\ disk' \in IF SettingsReturn THEN Texts \ {disk} ELSE {disk + 1}
    /\ changed' = TRUE
    /\ UNCHANGED <<view, command, servers, reports>>

(* Several changes may be reported at once.                                *)
Reported ==
    /\ changed
    /\ changed' = FALSE
    /\ reports' = reports \cup {[stamp |-> generation, text |-> disk]}
    /\ UNCHANGED <<view, command, servers, disk, events>>

(* Mutant: the report of a change is dropped.                              *)
CompareNothing(r) == UNCHANGED <<generation, client, status, rpc>>

(* The connection is ended when it was made under other settings.          *)
Compare(r) ==
    IF r.stamp = generation /\ active # 0 /\ r.text # active
    THEN Invalidate
    ELSE UNCHANGED <<generation, client, status, rpc>>

ReportRead(r) ==
    /\ reports' = reports \ {r}
    /\ Compare(r)
    /\ UNCHANGED <<selected, active, command, served, disk, events, changed>>

(* It could not be read, which ends the connection as well.                *)
ReportFails(r) ==
    /\ reports' = reports \ {r}
    /\ r.stamp = generation /\ selected # Nothing
    /\ Invalidate
    /\ UNCHANGED <<selected, active, command, served, disk, events, changed>>

-----------------------------------------------------------------------------
Step(c) ==
    \/ PreviousEnded(c) \/ ReadsSettings(c) \/ SettingsRead(c) \/ Asked(c)
    \/ ServerReads(c) \/ Started(c) \/ StartFails(c)
    \/ Connected(c) \/ Storing(c) \/ Stored(c) \/ Done(c) \/ Throws(c)
    \/ ReloadGoesOn(c) \/ Listed(c) \/ NotListed(c)

Next ==
    \/ \E b \in Bases : Select(b)
    \/ \E c \in Commands : Step(c) \/ Lost(c) \/ Ends(c)
    \/ ConfigurationChanges \/ Reload \/ Edit \/ Reported
    \/ \E r \in reports : ReportRead(r) \/ ReportFails(r)

Spec == Init /\ [][Next]_vars

(* Awaited promises are settled, as RpcContract promises for those of a    *)
(* server; only a prompt may stay open as long as the user leaves it.      *)
Fairness ==
    \A c \in Commands : WF_vars(at[c] # "asking" /\ Step(c)) /\ WF_vars(Ends(c))

LiveSpec == Spec /\ Fairness

-----------------------------------------------------------------------------
Place == {"none", "ending", "reading", "read", "asking", "starting", "failing",
          "connecting", "storing", "pending", "done", "reloading", "listing"}

(* Every variable within its domain; only a command that read the settings *)
(* has a server, and only a server that was started reads them.            *)
TypeOK ==
    /\ generation \in Nat /\ client \in 0 .. MaxEvents
    /\ selected \in [base: Bases \cup {NoBase}, by: 0 .. MaxEvents, bound: BOOLEAN]
    /\ active \in {0} \cup Texts
    /\ status \in [what: {"idle", "connecting", "connected", "disconnected",
                          "reload"}, base: Bases \cup {NoBase}]
    /\ at \in [Commands -> Place]
    /\ target \in [Commands -> Bases \cup {NoBase}]
    /\ stamp \in [Commands -> Nat]
    /\ previous \in [Commands -> 0 .. MaxEvents]
    /\ seen \in [Commands -> {0} \cup Texts]
    /\ rpc \in [Commands -> {"none", "live", "ending", "dead"}]
    /\ served \in [Commands -> {0} \cup Texts]
    /\ \A c \in Commands : rpc[c] = "none" => served[c] = 0
    /\ \A c \in Commands : seen[c] = 0 => rpc[c] = "none"
    /\ disk \in Texts /\ events \in 0 .. MaxEvents /\ changed \in BOOLEAN
    /\ reports \subseteq [stamp: Nat, text: Texts]

(* The status bar shows a connection only while there is one: to that      *)
(* infobase, with a server in use that was not lost, under the selection   *)
(* in force (extension.ts, the late continuations of switchTo, onCrash,    *)
(* invalidate).                                                            *)
ShownIsConnected ==
    status.what = "connected" =>
        /\ client # 0 /\ rpc[client] = "live" /\ Current(client)
        /\ target[client] = status.base /\ selected.base = status.base
        /\ selected.by = client

(* What the status bar says is about the infobase selected: the loss of a  *)
(* server of an earlier selection is not taken for that of the present one *)
(* (extension.ts, the callback switchTo gives to start).                   *)
StatusOfSelection == status.base \in {NoBase, selected.base}

(* What the status bar shows is so, and of the selection in force.         *)
StatusTrue == ShownIsConnected /\ StatusOfSelection

(* A server runs for the connection in use or for the command that is just *)
(* starting it; no interleaving of selections leaves one behind, with its  *)
(* lock on an infobase (extension.ts, the disposals of switchTo, start and *)
(* invalidate).                                                            *)
NoStrayServer ==
    \A c \in Commands : rpc[c] = "live" => c = client \/ at[c] = "starting"

(* What the user selected last is what is selected: neither a slow reload  *)
(* nor a late connection brings an earlier choice back (extension.ts,      *)
(* switchTo and ibcmd.refresh).                                            *)
LastChoiceWins == [][selected'.by >= selected.by]_selected

(* At rest a connection shown was made with the settings that are on the   *)
(* disk (extension.ts, the file watcher; the extension's README: "Settings *)
(* changes close the current server").                                     *)
SettingsFollowed ==
    status.what = "connected" /\ ~changed /\ reports = {}
        => served[client] = disk

(* Connecting comes to an end unless the user is being asked something     *)
(* (extension.ts, switchTo).                                               *)
ConnectingEnds ==
    status.what = "connecting" ~>
        status.what # "connecting" \/ \E c \in Commands : at[c] = "asking"
=============================================================================
