------------------------ MODULE ImportCommand_proofs ------------------------
(***************************************************************************)
(* Theorems about ImportCommand for any number of infobases and events,    *)
(* checked by TLAPS; they rest on the invariant of Connections_proofs,     *)
(* which the steps of the import keep.                                     *)
(***************************************************************************)
EXTENDS ImportCommand, Connections_proofs

Asking == {"prepare", "expand", "confirm", "publish", "pending"}
Running == Asking \cup {"checking", "checked"}

(* What the import remembers is a connection there was, made before now.   *)
Remembers ==
    /\ began \in [rpc : 0 .. MaxEvents, stamp : Nat, selected : Selections,
                  active : {0} \cup Texts]
    /\ began.stamp <= generation
    /\ stage \in Running =>
            /\ began.rpc \in Commands /\ began.active # 0
            /\ at[began.rpc] \in Joined \cup {"done"}
            /\ served[began.rpc] # 0

Stages ==
    /\ stage \in Running \cup {"none", "done"}
    /\ next \in Asking \cup {"none", "show"}
    /\ text \in {0} \cup Texts /\ expanded \in BOOLEAN
    /\ stage \in Asking => next = stage
    /\ stage \in {"none", "done"} <=> next = "none"

(* Once the server answered it was the one of the generation remembered.   *)
Answered ==
    next \in {"confirm", "publish", "pending", "show"} =>
        stamp[began.rpc] = began.stamp

(* The settings a check reads are no older than those the server read.     *)
ReadLater ==
    SettingsReturn \/ (stage = "checked" => served[began.rpc] <= text)

ImportIInv == IInv /\ Remembers /\ Stages /\ Answered /\ ReadLater

-----------------------------------------------------------------------------
(* What the import asks for before each step.                              *)

(* A connection that is still the one remembered, and that the server      *)
(* answered over, is the connection in force.                              *)
LEMMA InForce ==
    ASSUME ImportIInv, stage \in Running, client = began.rpc,
           generation = began.stamp, stamp[began.rpc] = began.stamp
    PROVE  /\ client \in Commands /\ Current(client) /\ rpc[client] = "live"
           /\ selected.by = client /\ target[client] = selected.base
           /\ active = seen[client]
<1>1. client \in Commands /\ client # 0 /\ Current(client)
  BY CommandNumbers DEF ImportIInv, Remembers, Current
<1>2. /\ rpc[client] = "live" /\ selected.by = client
      /\ active = seen[client] /\ at[client] \in Joined \cup {"done"}
  BY <1>1 DEF ImportIInv, IInv, InUse
<1>3. target[client] = selected.base
  BY <1>1, <1>2 DEF ImportIInv, IInv, Chosen, Joined
<1>. QED
  BY <1>1, <1>2, <1>3

(* A server in use that answers is that of the connection in force.        *)
LEMMA AnsweredInForce ==
    ASSUME ImportIInv, stage \in Running, Unchanged, Answers
    PROVE  stamp[began.rpc] = began.stamp
<1>1. client = began.rpc /\ generation = began.stamp
  BY DEF Unchanged, Connection
<1>2. client \in Commands /\ client # 0 /\ rpc[client] = "live"
  BY <1>1, CommandNumbers DEF ImportIInv, Remembers, Answers
<1>. QED
  BY <1>1, <1>2 DEF ImportIInv, IInv, InUse, Current

(* The generation only counts up.                                          *)
LEMMA GenerationGrows ==
    ASSUME IInv, [Next]_vars
    PROVE  generation' \in {generation, generation + 1}
<1>1. CASE \/ \E b \in Bases : Select(b)
           \/ \E c \in Commands : Lost(c) \/ Ends(c)
           \/ ConfigurationChanges \/ Reload \/ Edit \/ Reported
           \/ \E r \in reports : ReportRead(r) \/ ReportFails(r)
  BY <1>1 DEF Select, SwitchTo, Lost, OnCrash, Ends, ConfigurationChanges,
     Reload, Edit, Reported, ReportRead, ReportFails, Compare, Invalidate,
     view
<1>2. ASSUME NEW c \in Commands, Step(c)
      PROVE  generation' \in {generation, generation + 1}
  BY <1>2 DEF Step, PreviousEnded, ReadsSettings, SettingsRead, Asked,
     ServerReads, Started, StartFails, Connected, Storing, Stored, Done,
     Throws, Catch, ReloadGoesOn, Listed, SwitchTo, NotListed, view
<1>. QED
  BY <1>1, <1>2 DEF Next, vars, view

(* Nothing the connections do touches a server that was started.           *)
LEMMA StartedStays ==
    ASSUME IInv, [Next]_vars, NEW c \in Commands,
           at[c] \in Joined \cup {"done"}
    PROVE  /\ at'[c] \in Joined \cup {"done"}
           /\ stamp'[c] = stamp[c] /\ served'[c] = served[c]
<1>. USE DEF IInv, CommandTypes, ServerTypes, Joined
<1>1. ASSUME NEW b \in Bases, Select(b)
      PROVE  /\ at'[c] \in Joined \cup {"done"}
             /\ stamp'[c] = stamp[c] /\ served'[c] = served[c]
  <2>1. NextCommand \in Commands /\ at[NextCommand] = "none"
    BY <1>1, FreeCommand DEF Select
  <2>2. NextCommand # c
    BY <2>1
  <2>. QED
    BY <1>1, <2>2 DEF Select, SwitchTo, To
<1>2. CASE Reload
  <2>1. NextCommand \in Commands /\ at[NextCommand] = "none"
    BY <1>2, FreeCommand DEF Reload
  <2>2. NextCommand # c
    BY <2>1
  <2>. QED
    BY <1>2, <2>2 DEF Reload, Invalidate, To
<1>3. ASSUME NEW d \in Commands, Step(d)
      PROVE  /\ at'[c] \in Joined \cup {"done"}
             /\ stamp'[c] = stamp[c] /\ served'[c] = served[c]
  <2>1. CASE PreviousEnded(d) \/ ReadsSettings(d) \/ SettingsRead(d)
    BY <2>1 DEF PreviousEnded, ReadsSettings, SettingsRead, Spawn, To, view,
                servers
  <2>2. CASE Asked(d) \/ ServerReads(d) \/ Started(d) \/ StartFails(d)
    BY <2>2 DEF Asked, ServerReads, Started, StartFails, Spawn, To, view,
                command, servers
  <2>3. CASE Connected(d) \/ Storing(d) \/ Stored(d)
    BY <2>3 DEF Connected, Storing, Stored, Bind, To, view, servers
  <2>4. CASE Done(d) \/ Throws(d)
    BY <2>4 DEF Done, Throws, Catch, To, servers
  <2>5. CASE ReloadGoesOn(d) \/ NotListed(d)
    BY <2>5 DEF ReloadGoesOn, NotListed, To, view, servers
  <2>6. CASE Listed(d)
    BY <2>6 DEF Listed, SwitchTo, To
  <2>. QED
    BY <1>3, <2>1, <2>2, <2>3, <2>4, <2>5, <2>6 DEF Step
<1>4. ASSUME NEW d \in Commands, Lost(d) \/ Ends(d)
      PROVE  /\ at'[c] \in Joined \cup {"done"}
             /\ stamp'[c] = stamp[c] /\ served'[c] = served[c]
  BY <1>4 DEF Lost, OnCrash, Ends, view, command
<1>5. CASE ConfigurationChanges \/ Edit \/ Reported
  BY <1>5 DEF ConfigurationChanges, Invalidate, Edit, Reported, view,
              command, servers
<1>6. ASSUME NEW r \in reports, ReportRead(r) \/ ReportFails(r)
      PROVE  /\ at'[c] \in Joined \cup {"done"}
             /\ stamp'[c] = stamp[c] /\ served'[c] = served[c]
  BY <1>6 DEF ReportRead, Compare, ReportFails, Invalidate, command
<1>7. CASE UNCHANGED vars
  BY <1>7 DEF vars, view, command, servers
<1>. QED
  BY <1>1, <1>2, <1>3, <1>4, <1>5, <1>6, <1>7 DEF Next

-----------------------------------------------------------------------------
(* The steps of the import keep the invariant.                             *)

(* A step that ends the import, whatever it does to the connections.       *)
LEMMA OverKeeps ==
    ASSUME ImportIInv, Over, IInv', generation' = generation
    PROVE  ImportIInv'
<1>. USE DEF Over
<1>1. Remembers'
  <2>1. NoConnection \in [rpc : 0 .. MaxEvents, stamp : Nat,
                          selected : Selections, active : {0} \cup Texts]
    BY ConnectionsAssumption DEF NoConnection, Nothing, Selections
  <2>2. NoConnection.stamp <= generation
    BY DEF NoConnection, ImportIInv, IInv, ViewTypes
  <2>. QED
    BY <2>1, <2>2 DEF Remembers, Running, Asking
<1>2. Stages' /\ Answered' /\ ReadLater'
  BY DEF Stages, Running, Asking, Answered, ReadLater
<1>. QED
  BY <1>1, <1>2 DEF ImportIInv

(* A step of the import that starts another check.                         *)
LEMMA CheckBeforeKeeps ==
    ASSUME ImportIInv, stage \in Running, NEW what \in Asking \cup {"show"},
           NEW added \in BOOLEAN, CheckBefore(what, added), UNCHANGED vars,
           Answers \/ stamp[began.rpc] = began.stamp
                   \/ what \in {"prepare", "expand"}
    PROVE  ImportIInv'
<1>1. IInv' /\ generation' = generation
  BY StutterKeeps DEF ImportIInv, vars, view
<1>2. CASE ~Unchanged
  BY <1>1, <1>2, OverKeeps DEF CheckBefore
<1>3. CASE Unchanged
  <2>. USE <1>3 DEF CheckBefore, vars, view, command, servers
  <2>1. Remembers'
    BY DEF ImportIInv, Remembers, Running
  <2>2. Stages' /\ ReadLater'
    BY DEF ImportIInv, Stages, Running, Asking, ReadLater
  <2>3. Answered'
    BY AnsweredInForce DEF Answered
  <2>. QED
    BY <1>1, <2>1, <2>2, <2>3 DEF ImportIInv
<1>. QED
  BY <1>2, <1>3

LEMMA ImportBeginsKeeps ==
    ASSUME ImportIInv, ImportBegins
    PROVE  ImportIInv'
<1>1. IInv' /\ generation' = generation
  BY StutterKeeps DEF ImportIInv, ImportBegins, vars, view
<1>2. CASE active = 0
  BY <1>1, <1>2, OverKeeps DEF ImportBegins
<1>3. CASE active # 0
  <2>. USE <1>3 DEF ImportBegins, vars, view, command, servers
  <2>1. client \in Commands
    BY CommandNumbers DEF ImportIInv, IInv, ViewTypes
  <2>2. /\ at[client] \in Joined \cup {"done"} /\ served[client] # 0
    BY <2>1, CommandNumbers DEF ImportIInv, IInv, InUse
  <2>3. Connection \in [rpc : 0 .. MaxEvents, stamp : Nat,
                        selected : Selections, active : {0} \cup Texts]
    BY DEF Connection, ImportIInv, IInv, ViewTypes
  <2>4. began' = Connection /\ Connection.stamp <= generation
    BY DEF Connection, ImportIInv, IInv, ViewTypes
  <2>5. Remembers'
    BY <2>1, <2>2, <2>3, <2>4 DEF Remembers, Connection
  <2>6. Stages' /\ Answered' /\ ReadLater'
    BY DEF ImportIInv, Stages, Running, Asking, Answered, ReadLater
  <2>. QED
    BY <1>1, <2>5, <2>6 DEF ImportIInv
<1>. QED
  BY <1>2, <1>3

LEMMA CheckReadsKeeps ==
    ASSUME ImportIInv, CheckReads
    PROVE  ImportIInv'
<1>. USE DEF CheckReads, vars, view, command, servers, rest, settings
<1>1. IInv'
  BY StutterKeeps DEF ImportIInv
<1>2. Remembers' /\ Answered'
  BY DEF ImportIInv, Remembers, Running, Answered
<1>3. Stages'
  BY DEF ImportIInv, IInv, RestTypes, Stages, Running, Asking
<1>4. ReadLater'
  BY DEF ImportIInv, IInv, Follows, Newer, Remembers, Running, ReadLater
<1>. QED
  BY <1>1, <1>2, <1>3, <1>4 DEF ImportIInv

LEMMA CheckPassesKeeps ==
    ASSUME ImportIInv, CheckPasses
    PROVE  ImportIInv'
<1>. USE DEF CheckPasses, vars, view, command, servers
<1>1. IInv'
  BY StutterKeeps DEF ImportIInv
<1>2. next \in Asking \/ next = "none"
  BY DEF ImportIInv, Stages
<1>3. next # "none"
  BY DEF ImportIInv, Stages
<1>4. Remembers' /\ Answered'
  BY DEF ImportIInv, Remembers, Running, Answered
<1>5. Stages' /\ ReadLater'
  BY <1>2, <1>3 DEF ImportIInv, Stages, Running, Asking, ReadLater
<1>. QED
  BY <1>1, <1>4, <1>5 DEF ImportIInv

(* The status bar may show the connection the import was made over.        *)
LEMMA ShowImportedKeeps ==
    ASSUME ImportIInv, stage \in Running, client = began.rpc,
           generation = began.stamp, stamp[began.rpc] = began.stamp,
           selected = began.selected, ShowImported
    PROVE  IInv' /\ generation' = generation
<1>. USE DEF ImportIInv, IInv, ShowImported, view, command, servers, rest,
         settings, Current, Shows
<1>1. /\ client \in Commands /\ Current(client) /\ rpc[client] = "live"
      /\ selected.by = client /\ target[client] = selected.base
  BY InForce
<1>2. ViewTypes' /\ CommandTypes' /\ ServerTypes' /\ RestTypes'
  BY DEF ViewTypes, Shown, Selections, CommandTypes, ServerTypes, RestTypes
<1>3. Numbered' /\ Stamped' /\ ReadFirst' /\ InUse' /\ Chosen'
  BY DEF Numbered, Given, Stamped, ReadFirst, InUse, Chosen
<1>4. StatusTrue'
  BY <1>1, CommandNumbers DEF StatusTrue, ShownIsConnected, StatusOfSelection
<1>5. NoStrayServer' /\ Follows'
  BY DEF NoStrayServer, Follows, Newer, Announced
<1>. QED
  BY <1>2, <1>3, <1>4, <1>5

LEMMA PendingFailsKeeps ==
    ASSUME ImportIInv, PendingFails
    PROVE  ImportIInv'
<1>1. stage \in Running /\ stamp[began.rpc] = began.stamp /\ Over
  BY DEF PendingFails, ImportIInv, Stages, Running, Asking, Answered
<1>2. CASE [Connection EXCEPT !.active = began.active] = began
  <2>1. /\ client = began.rpc /\ generation = began.stamp
        /\ selected = began.selected
    BY <1>2 DEF Connection
  <2>2. IInv' /\ generation' = generation
    BY <1>1, <1>2, <2>1, ShowImportedKeeps DEF PendingFails
  <2>. QED
    BY <1>1, <2>2, OverKeeps
<1>3. CASE UNCHANGED vars
  <2>1. IInv' /\ generation' = generation
    BY <1>3, StutterKeeps DEF ImportIInv, vars, view
  <2>. QED
    BY <1>1, <2>1, OverKeeps
<1>. QED
  BY <1>2, <1>3 DEF PendingFails

LEMMA ImportEndsKeeps ==
    ASSUME ImportIInv, ImportEnds
    PROVE  ImportIInv'
<1>1. stage \in Running /\ stamp[began.rpc] = began.stamp
  BY DEF ImportEnds, ImportIInv, Running, Answered
<1>2. /\ client = began.rpc /\ generation = began.stamp
      /\ selected = began.selected
  BY DEF ImportEnds, Passes, Connection
<1>3. IInv' /\ generation' = generation
  BY <1>1, <1>2, ShowImportedKeeps DEF ImportEnds
<1>. QED
  BY <1>3, OverKeeps DEF ImportEnds

(* The steps that are followed by another check.                           *)
LEMMA AskedKeepsImport ==
    ASSUME ImportIInv, Prepared \/ Expanded \/ Confirmed \/ Published
                       \/ PendingAnswered
    PROVE  ImportIInv'
<1>1. stage \in Running /\ expanded \in BOOLEAN
  BY DEF ImportIInv, Stages, Prepared, Expanded, Confirmed, Published,
         PendingAnswered, Running, Asking
<1>2. CASE Prepared
  BY <1>1, <1>2, CheckBeforeKeeps DEF Prepared, Asking
<1>3. CASE Expanded
  BY <1>1, <1>3, CheckBeforeKeeps DEF Expanded, Asking
<1>4. CASE Confirmed
  <2>1. stamp[began.rpc] = began.stamp
    BY <1>4 DEF Confirmed, ImportIInv, Stages, Asking, Answered
  <2>. QED
    BY <1>1, <1>4, <2>1, CheckBeforeKeeps DEF Confirmed, Asking
<1>5. CASE Published
  BY <1>1, <1>5, CheckBeforeKeeps DEF Published, Asking
<1>6. CASE PendingAnswered
  BY <1>1, <1>6, CheckBeforeKeeps DEF PendingAnswered
<1>. QED
  BY <1>2, <1>3, <1>4, <1>5, <1>6

LEMMA ImportStepKeeps ==
    ASSUME ImportIInv, ImportStep
    PROVE  ImportIInv'
<1>1. CASE CheckFails \/ ImportFails
  <2>1. Over /\ UNCHANGED vars
    BY <1>1 DEF CheckFails, ImportFails
  <2>2. IInv' /\ generation' = generation
    BY <2>1, StutterKeeps DEF ImportIInv, vars, view
  <2>. QED
    BY <2>1, <2>2, OverKeeps
<1>. QED
  BY <1>1, ImportBeginsKeeps, CheckReadsKeeps, CheckPassesKeeps,
     AskedKeepsImport, PendingFailsKeeps, ImportEndsKeeps DEF ImportStep

(* So does a step of the connections.                                      *)
LEMMA ConnectionsKeep ==
    ASSUME ImportIInv, [Next]_vars, UNCHANGED import
    PROVE  ImportIInv'
<1>. USE DEF import
<1>1. IInv'
  BY NextKeeps DEF ImportIInv
<1>2. CASE stage \in Running
  <2>1. began.rpc \in Commands /\ at[began.rpc] \in Joined \cup {"done"}
    BY <1>2 DEF ImportIInv, Remembers
  <2>2. /\ at'[began.rpc] \in Joined \cup {"done"}
        /\ stamp'[began.rpc] = stamp[began.rpc]
        /\ served'[began.rpc] = served[began.rpc]
    BY <2>1, StartedStays DEF ImportIInv
  <2>3. began.stamp <= generation'
    BY GenerationGrows DEF ImportIInv, IInv, ViewTypes, Remembers
  <2>4. Remembers'
    BY <2>1, <2>2, <2>3 DEF ImportIInv, Remembers
  <2>5. Stages' /\ Answered' /\ ReadLater'
    BY <1>2, <2>2 DEF ImportIInv, Stages, Answered, ReadLater
  <2>. QED
    BY <1>1, <2>4, <2>5 DEF ImportIInv
<1>3. CASE stage \notin Running
  <2>1. generation' \in {generation, generation + 1}
    BY GenerationGrows DEF ImportIInv
  <2>2. began.stamp <= generation'
    BY <2>1 DEF ImportIInv, IInv, ViewTypes, Remembers
  <2>3. Remembers'
    BY <1>3, <2>2 DEF ImportIInv, Remembers
  <2>4. Stages' /\ Answered' /\ ReadLater'
    BY <1>3 DEF ImportIInv, Stages, Running, Answered, ReadLater
  <2>. QED
    BY <1>1, <2>3, <2>4 DEF ImportIInv
<1>. QED
  BY <1>2, <1>3

LEMMA ImportInvariant == ImportSpec => []ImportIInv
<1>1. ImportInit => ImportIInv
  <2>. SUFFICES ASSUME ImportInit
                PROVE  ImportIInv
    OBVIOUS
  <2>. USE DEF ImportInit
  <2>1. IInv
    BY InitIInv
  <2>2. Remembers
    <3>1. NoConnection \in [rpc : 0 .. MaxEvents, stamp : Nat,
                            selected : Selections, active : {0} \cup Texts]
      BY ConnectionsAssumption DEF NoConnection, Nothing, Selections
    <3>. QED
      BY <3>1 DEF Remembers, Running, Asking, NoConnection, Init
  <2>3. Stages /\ Answered /\ ReadLater
    BY DEF Stages, Running, Asking, Answered, ReadLater
  <2>. QED
    BY <2>1, <2>2, <2>3 DEF ImportIInv
<1>2. ImportIInv /\ [ImportNext]_allVars => ImportIInv'
  BY ImportStepKeeps, ConnectionsKeep DEF ImportNext, allVars
<1>. QED
  BY <1>1, <1>2, PTL DEF ImportSpec

-----------------------------------------------------------------------------
(* The import stays within its stages, and while it runs it has a          *)
(* connection to compare with (extension.ts, importFiles).                 *)
THEOREM ImportTyping == ImportSpec => []ImportTypeOK
<1>1. ImportIInv => ImportTypeOK
  BY CommandNumbers DEF ImportIInv, Remembers, Stages, Running, Asking,
                        ImportTypeOK
<1>. QED
  BY <1>1, ImportInvariant, PTL

(* The import, which sets the status bar itself, never shows a connection  *)
(* that is not in force either (extension.ts, importFiles).                *)
THEOREM ImportStatusIsTrue == ImportSpec => []StatusTrue
<1>1. ImportIInv => StatusTrue
  BY DEF ImportIInv, IInv
<1>. QED
  BY <1>1, ImportInvariant, PTL

(* Beside an import too, a connection shown at rest was made with the      *)
(* settings on the disk (extension.ts, the watcher).                       *)
THEOREM ImportFollowsSettings ==
    ASSUME ~SettingsReturn
    PROVE  ImportSpec => []SettingsFollowed
<1>1. ImportIInv => SettingsFollowed
  BY FollowsSettings DEF ImportIInv
<1>. QED
  BY <1>1, ImportInvariant, PTL

(* Only a check that passes leads to publication.                          *)
LEMMA PublishingPasses ==
    ASSUME ImportIInv, [ImportNext]_allVars, Publishing
    PROVE  stage = "checked" /\ next = "publish" /\ Passes
<1>1. stage' = "publish" /\ stage # "publish"
  BY DEF Publishing
<1>2. CASE ImportStep
  BY <1>1, <1>2 DEF ImportStep, ImportBegins, CheckReads, CheckFails,
     CheckPasses, Prepared, Expanded, Confirmed, Published, PendingAnswered,
     ImportFails, PendingFails, ImportEnds, CheckBefore, Over
<1>3. CASE UNCHANGED import
  BY <1>1, <1>3 DEF import
<1>. QED
  BY <1>2, <1>3 DEF ImportNext, allVars

(* Whatever is selected, reloaded or lost while the import waits for the   *)
(* server, the user or the settings file, files are published only over    *)
(* the connection in force and to the infobase the user saw (import.ts,    *)
(* check; extension.ts, current).                                          *)
THEOREM PublishesWhereConfirmed == ImportSpec => PublishesToSelection
<1>1. ImportIInv /\ [ImportNext]_allVars =>
        [Publishing =>
            /\ client = began.rpc /\ Current(client) /\ rpc[client] = "live"
            /\ target[client] = selected.base
            /\ selected = began.selected]_allVars
  <2>. SUFFICES ASSUME ImportIInv, [ImportNext]_allVars, Publishing
                PROVE  /\ client = began.rpc /\ Current(client)
                       /\ rpc[client] = "live"
                       /\ target[client] = selected.base
                       /\ selected = began.selected
    OBVIOUS
  <2>1. stage = "checked" /\ next = "publish" /\ Passes
    BY PublishingPasses
  <2>2. /\ client = began.rpc /\ generation = began.stamp
        /\ selected = began.selected
    BY <2>1 DEF Passes, Connection
  <2>3. stage \in Running /\ stamp[began.rpc] = began.stamp
    BY <2>1 DEF ImportIInv, Running, Answered
  <2>. QED
    BY <2>2, <2>3, InForce
<1>. QED
  BY <1>1, ImportInvariant, PTL DEF ImportSpec, PublishesToSelection

(* When no text of the settings returns, the server that publishes read    *)
(* the very settings the import was begun and confirmed under, although it *)
(* reads the file by itself and at another time (extension.ts,             *)
(* activeSettings; import.ts, check).                                      *)
THEOREM PublishesUnderSettings ==
    ASSUME ~SettingsReturn
    PROVE  ImportSpec => PublishesUnderItsSettings
<1>1. ImportIInv /\ [ImportNext]_allVars =>
        [Publishing => served[began.rpc] = began.active]_allVars
  <2>. SUFFICES ASSUME ImportIInv, [ImportNext]_allVars, Publishing
                PROVE  served[began.rpc] = began.active
    OBVIOUS
  <2>1. stage = "checked" /\ next = "publish" /\ Passes
    BY PublishingPasses
  <2>2. /\ client = began.rpc /\ generation = began.stamp
        /\ active = began.active /\ text = began.active
    BY <2>1 DEF Passes, Connection
  <2>3. stage \in Running /\ stamp[began.rpc] = began.stamp
    BY <2>1 DEF ImportIInv, Running, Answered
  <2>4. client \in Commands /\ active = seen[client]
    BY <2>2, <2>3, InForce
  <2>5. served[client] # 0 /\ served[client] <= text
    BY <2>1, <2>2, <2>3 DEF ImportIInv, Remembers, ReadLater
  <2>6. seen[client] <= served[client]
    BY <2>4, <2>5 DEF ImportIInv, IInv, Follows, Newer
  <2>7. served[client] \in Nat /\ seen[client] \in Nat
    BY <2>4 DEF ImportIInv, IInv, CommandTypes, ServerTypes, Texts
  <2>. QED
    BY <2>2, <2>4, <2>5, <2>6, <2>7
<1>. QED
  BY <1>1, ImportInvariant, PTL DEF ImportSpec, PublishesUnderItsSettings
=============================================================================
