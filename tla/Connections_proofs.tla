-------------------------- MODULE Connections_proofs --------------------------
(***************************************************************************)
(* Theorems about Connections for any number of infobases and events,      *)
(* checked by TLAPS.                                                       *)
(***************************************************************************)
EXTENDS Connections, FiniteSetTheorems, TLAPS

Shown == {"idle", "connecting", "connected", "disconnected", "reload"}
Phases == {"none", "live", "ending", "dead"}
Selections == [base : Bases \cup {NoBase}, by : 0 .. MaxEvents,
               bound : BOOLEAN]

ViewTypes ==
    /\ generation \in Nat /\ client \in 0 .. MaxEvents
    /\ selected \in Selections /\ active \in {0} \cup Texts
    /\ status \in [what : Shown, base : Bases \cup {NoBase}]

CommandTypes ==
    /\ at \in [Commands -> Place]
    /\ target \in [Commands -> Bases \cup {NoBase}]
    /\ stamp \in [Commands -> Nat]
    /\ previous \in [Commands -> 0 .. MaxEvents]
    /\ seen \in [Commands -> {0} \cup Texts]

ServerTypes ==
    /\ rpc \in [Commands -> Phases]
    /\ served \in [Commands -> {0} \cup Texts]

RestTypes ==
    /\ disk \in Texts /\ events \in 0 .. MaxEvents /\ changed \in BOOLEAN
    /\ reports \subseteq [stamp : Nat, text : Texts]

(* Commands are numbered in order, one for each event at most.             *)
Numbered == \E k \in 0 .. events : Given = 1 .. k

(* No two commands have one generation.                                    *)
Stamped ==
    /\ \A c \in Commands :
            /\ stamp[c] <= generation
            /\ at[c] = "none" <=> stamp[c] = 0
    /\ \A c, d \in Commands : stamp[c] # 0 /\ stamp[c] = stamp[d] => c = d

Before == {"none", "ending", "reading", "read", "asking", "reloading",
           "listing"}
Switching == {"ending", "reading", "read", "asking", "starting", "failing",
              "connecting", "storing", "pending"}
Joined == {"connecting", "storing", "pending"}

(* A server is started after the settings were read.                       *)
ReadFirst ==
    \A c \in Commands :
        /\ at[c] \in Before => rpc[c] = "none"
        /\ rpc[c] = "none" => served[c] = 0
        /\ at[c] \in {"read", "asking"} \/ rpc[c] # "none" => seen[c] # 0
        /\ Current(c) /\ (at[c] = "asking" \/ rpc[c] # "none")
                => active = seen[c]

(* The server in use runs for the command in force, or was lost and no     *)
(* command is in force.                                                    *)
InUse ==
    client # 0 =>
        /\ at[client] \in Joined \cup {"done"} /\ served[client] # 0
        /\ active = seen[client]
        /\ \/ rpc[client] = "live" /\ Current(client) /\ selected.by = client
           \/ rpc[client] = "dead" /\ \A c \in Commands : ~Current(c)

(* The command in force is about the infobase selected.                    *)
Chosen ==
    /\ selected.by \in {0} \cup Given
    /\ \A c \in Commands :
        Current(c) /\ at[c] # "none" =>
            /\ selected.base = target[c] /\ selected.by <= c
            /\ at[c] \in Switching => selected.by = c
            /\ at[c] \in Joined => client = c

(* Texts grow, and a server that reads them later reads a later one.       *)
Newer ==
    /\ disk <= events + 1
    /\ \A c \in Commands :
            /\ seen[c] <= disk /\ served[c] <= disk
            /\ served[c] # 0 => seen[c] <= served[c]

(* A change the server in force has not read is on its way to the watcher. *)
Announced(c) ==
    \/ served[c] = 0 \/ served[c] = disk
    \/ changed \/ \E r \in reports : r.stamp = generation /\ r.text # active

Follows ==
    /\ SettingsReturn \/ Newer
    /\ SettingsReturn \/ \A c \in Commands : Current(c) => Announced(c)

IInv ==
    /\ ViewTypes /\ CommandTypes /\ ServerTypes /\ RestTypes
    /\ Numbered /\ Stamped /\ ReadFirst /\ InUse /\ Chosen
    /\ StatusTrue /\ NoStrayServer /\ Follows


LEMMA CommandNumbers ==
    /\ Commands \subseteq Nat /\ Commands \subseteq 0 .. MaxEvents
    /\ 0 \notin Commands /\ 0 \in 0 .. MaxEvents
    /\ \A r \in 0 .. MaxEvents : r # 0 => r \in Commands
  BY ConnectionsAssumption DEF Commands

(* A command the user gives takes a number no command had.                 *)
LEMMA FreeCommand ==
    ASSUME IInv, UserActs
    PROVE  /\ NextCommand \in Commands /\ at[NextCommand] = "none"
           /\ stamp[NextCommand] = 0 /\ rpc[NextCommand] = "none"
           /\ served[NextCommand] = 0
           /\ \A c \in Given : c < NextCommand
           /\ Given \cup {NextCommand} = 1 .. NextCommand
           /\ NextCommand \in 0 .. events' /\ events' \in 0 .. MaxEvents
           /\ events' = events + 1
<1>1. PICK k \in 0 .. events : Given = 1 .. k
  BY DEF IInv, Numbered
<1>2. events \in 0 .. MaxEvents /\ events < MaxEvents /\ events' = events + 1
  BY DEF IInv, RestTypes, UserActs
<1>3. MaxEvents \in Nat /\ k \in Nat /\ k <= events
  BY <1>2, ConnectionsAssumption
<1>4. Cardinality(Given) = k
  <2>1. Cardinality(1 .. k) = IF 1 > k THEN 0 ELSE k - 1 + 1
    BY <1>3, FS_Interval
  <2>. QED
    BY <1>1, <1>3, <2>1
<1>5. NextCommand = k + 1
  BY <1>4 DEF NextCommand
<1>6. NextCommand \in Commands /\ NextCommand \notin Given
  BY <1>1, <1>2, <1>3, <1>5 DEF Commands
<1>7. at[NextCommand] = "none"
  BY <1>6 DEF Given
<1>8. /\ stamp[NextCommand] = 0 /\ rpc[NextCommand] = "none"
      /\ served[NextCommand] = 0
  BY <1>6, <1>7 DEF IInv, Stamped, ReadFirst, Before
<1>9. /\ \A c \in Given : c < NextCommand
      /\ Given \cup {NextCommand} = 1 .. NextCommand
      /\ NextCommand \in 0 .. events' /\ events' \in 0 .. MaxEvents
  BY <1>1, <1>2, <1>3, <1>5
<1>. QED
  BY <1>2, <1>6, <1>7, <1>8, <1>9


-----------------------------------------------------------------------------
(* Each action keeps the invariant.                                        *)

LEMMA SwitchToKeeps ==
    ASSUME IInv, NEW c \in Commands, NEW b \in Bases \cup {NoBase},
           at[c] \in {"none", "listing"}, selected.by <= c,
           events' \in 0 .. MaxEvents, events' \in {events, events + 1},
           \E k \in 0 .. events' : Given \cup {c} = 1 .. k,
           SwitchTo(c, b)
    PROVE  IInv'
<1>. USE DEF IInv, SwitchTo, To, Disposing, Shows, settings, view, command,
        servers, settings, rest, Current
<1>1. ViewTypes'
  BY CommandNumbers DEF ViewTypes, Shown, Selections
<1>2. CommandTypes'
  <2>1. previous' \in [Commands -> 0 .. MaxEvents]
    BY DEF CommandTypes, ViewTypes
  <2>2. stamp' \in [Commands -> Nat]
    BY DEF CommandTypes, ViewTypes
  <2>. QED
    BY <2>1, <2>2 DEF CommandTypes, Place
<1>3. ServerTypes'
  BY CommandNumbers DEF ServerTypes, Phases
<1>4. RestTypes'
  BY CommandNumbers DEF RestTypes
<1>5. Numbered'
  BY CommandNumbers DEF Numbered, Given
<1>6. Stamped'
  BY CommandNumbers DEF Stamped, ViewTypes, Shown, Selections, CommandTypes,
     Place
<1>7. ReadFirst'
  BY CommandNumbers DEF ReadFirst, Before, Stamped, ViewTypes, Shown,
     Selections, CommandTypes, Place, ServerTypes, Phases
<1>8. InUse'
  BY CommandNumbers DEF InUse, Joined
<1>9. Chosen'
  BY CommandNumbers DEF Chosen, Given, Switching, Joined, InUse, Stamped,
     NoStrayServer, ViewTypes, Shown, Selections, CommandTypes, Place,
     ServerTypes, Phases
<1>10. StatusTrue'
  BY CommandNumbers DEF StatusTrue, ShownIsConnected, StatusOfSelection
<1>11. NoStrayServer'
  BY CommandNumbers DEF NoStrayServer, InUse, Joined, Chosen, Given, Switching,
     Stamped, ReadFirst, Before, ViewTypes, Shown, Selections, CommandTypes,
     Place, ServerTypes, Phases
<1>12. Follows'
  <2>. SUFFICES ASSUME ~SettingsReturn
                PROVE  /\ Newer'
                       /\ \A d \in Commands :
                              Current(d)' => Announced(d)'
    BY DEF Follows
  <2>. Newer /\ \A d \in Commands : Current(d) => Announced(d)
    BY DEF Follows
  <2>1. Newer'
    <3>1. disk \in Nat /\ events \in Nat /\ events' \in Nat
      BY ConnectionsAssumption DEF RestTypes, Texts
    <3>2. disk <= events + 1
      BY DEF Newer
    <3>3. disk' = disk /\ seen' = seen /\ served' = served
      OBVIOUS
    <3>4. CASE events' = events
      BY <3>2, <3>3, <3>4 DEF Newer
    <3>5. CASE events' = events + 1
      BY <3>1, <3>2, <3>3, <3>5 DEF Newer
    <3>. QED
      BY <3>4, <3>5
  <2>2. ASSUME NEW d \in Commands, Current(d)'
        PROVE  Announced(d)'
    <3>1. d = c
      BY <2>2 DEF Stamped, CommandTypes, ViewTypes
    <3>2. served[c] = 0
      BY DEF ReadFirst, Before
    <3>. QED
      BY <3>1, <3>2 DEF Announced
  <2>. QED
    BY <2>1, <2>2
<1>. QED
  BY <1>1, <1>2, <1>3, <1>4, <1>5, <1>6, <1>7, <1>8, <1>9, <1>10, <1>11, <1>12

LEMMA PreviousEndedKeeps ==
    ASSUME IInv, NEW c \in Commands, PreviousEnded(c)
    PROVE  IInv'
<1>. USE DEF IInv, PreviousEnded, To, view, command, servers, settings, rest,
        Current
<1>1. ViewTypes' /\ ServerTypes' /\ RestTypes' /\ StatusTrue' /\ Follows'
  BY DEF ViewTypes, Shown, Selections, ServerTypes, Phases, RestTypes,
     StatusTrue, ShownIsConnected, StatusOfSelection, Follows, Newer, Announced
<1>2. CommandTypes'
  BY CommandNumbers DEF CommandTypes, Place
<1>3. Numbered'
  BY CommandNumbers DEF Numbered, Given
<1>4. Stamped'
  BY CommandNumbers DEF Stamped
<1>5. ReadFirst'
  BY CommandNumbers DEF ReadFirst, Before
<1>6. InUse'
  BY CommandNumbers DEF InUse, Joined
<1>7. Chosen'
  BY CommandNumbers DEF Chosen, Given, Switching, Joined
<1>8. NoStrayServer'
  BY CommandNumbers DEF NoStrayServer
<1>. QED
  BY <1>1, <1>2, <1>3, <1>4, <1>5, <1>6, <1>7, <1>8

LEMMA ReadsSettingsKeeps ==
    ASSUME IInv, NEW c \in Commands, ReadsSettings(c)
    PROVE  IInv'
<1>. USE DEF IInv, ReadsSettings, To, view, command, servers, settings, rest,
        Current
<1>1. ViewTypes' /\ ServerTypes' /\ RestTypes' /\ StatusTrue'
  BY DEF ViewTypes, Shown, Selections, ServerTypes, Phases, RestTypes,
     StatusTrue, ShownIsConnected, StatusOfSelection
<1>2. CommandTypes'
  BY DEF CommandTypes, RestTypes, Place
<1>3. Numbered'
  BY CommandNumbers DEF Numbered, Given
<1>4. Stamped'
  BY CommandNumbers DEF Stamped
<1>5. ReadFirst'
  <2>1. seen'[c] # 0 /\ \A d \in Commands : d # c => seen'[d] = seen[d]
    BY CommandNumbers DEF RestTypes, CommandTypes, Texts
  <2>2. at'[c] = "read" /\ \A d \in Commands : d # c => at'[d] = at[d]
    BY DEF CommandTypes
  <2>3. rpc[c] = "none"
    BY DEF ReadFirst, Before
  <2>. QED
    BY <2>1, <2>2, <2>3 DEF ReadFirst, Before
<1>6. InUse'
  BY CommandNumbers DEF InUse, Joined
<1>7. Chosen'
  BY CommandNumbers DEF Chosen, Given, Switching, Joined
<1>8. NoStrayServer'
  BY CommandNumbers DEF NoStrayServer
<1>9. Follows'
  <2>. SUFFICES ASSUME ~SettingsReturn
                PROVE  /\ Newer'
                       /\ \A d \in Commands :
                              Current(d)' => Announced(d)'
    BY DEF Follows
  <2>. Newer /\ \A d \in Commands : Current(d) => Announced(d)
    BY DEF Follows
  <2>1. Newer'
    <3>1. \A d \in Commands : seen'[d] = IF d = c THEN disk ELSE seen[d]
      BY DEF CommandTypes
    <3>2. served[c] = 0
      BY DEF ReadFirst, Before
    <3>. QED
      BY <3>1, <3>2 DEF Newer, RestTypes, Texts
  <2>2. ASSUME NEW d \in Commands, Current(d)'
        PROVE  Announced(d)'
    BY <2>2 DEF Announced
  <2>. QED
    BY <2>1, <2>2
<1>. QED
  BY <1>1, <1>2, <1>3, <1>4, <1>5, <1>6, <1>7, <1>8, <1>9

LEMMA SettingsReadKeeps ==
    ASSUME IInv, NEW c \in Commands, SettingsRead(c)
    PROVE  IInv'
<1>. USE DEF IInv, SettingsRead, To, Spawn, view, command, servers, settings,
        rest, Current
<1>1. RestTypes'
  BY DEF RestTypes
<1>2. ViewTypes'
  BY CommandNumbers DEF ViewTypes, Shown, Selections, CommandTypes, Place
<1>3. CommandTypes'
  BY CommandNumbers DEF CommandTypes, Place
<1>4. ServerTypes'
  BY CommandNumbers DEF ServerTypes, Phases
<1>5. Numbered'
  <2>1. Given' = Given
    BY DEF Given, CommandTypes
  <2>. QED
    BY <2>1 DEF Numbered
<1>6. Stamped'
  BY CommandNumbers DEF Stamped, ViewTypes, Shown, Selections, CommandTypes,
     Place
<1>7. ReadFirst'
  BY CommandNumbers DEF ReadFirst, Before, Stamped, ViewTypes, Shown,
     Selections, CommandTypes, Place, ServerTypes, Phases
<1>8. InUse'
  BY CommandNumbers DEF InUse, Joined, ReadFirst, Before, Stamped, Chosen,
     Given, Switching, ViewTypes, Shown, Selections, CommandTypes, Place,
     ServerTypes, Phases
<1>9. Chosen'
  BY CommandNumbers DEF Chosen, Given, Switching, Joined, InUse, Stamped,
     NoStrayServer, ViewTypes, Shown, Selections, CommandTypes, Place,
     ServerTypes, Phases
<1>10. StatusTrue'
  BY CommandNumbers DEF StatusTrue, ShownIsConnected, StatusOfSelection, InUse,
     Joined, Chosen, Given, Switching, Stamped, ViewTypes, Shown, Selections,
     CommandTypes, Place, ServerTypes, Phases
<1>11. NoStrayServer'
  BY CommandNumbers DEF NoStrayServer, InUse, Joined, Chosen, Given, Switching,
     Stamped, ReadFirst, Before, ViewTypes, Shown, Selections, CommandTypes,
     Place, ServerTypes, Phases
<1>12. Follows'
  BY CommandNumbers DEF Follows, Newer, Announced, RestTypes, Stamped,
     ReadFirst, Before, ViewTypes, Shown, Selections, CommandTypes, Place,
     ServerTypes, Phases
<1>. QED
  BY <1>1, <1>2, <1>3, <1>4, <1>5, <1>6, <1>7, <1>8, <1>9, <1>10, <1>11, <1>12

LEMMA AskedKeeps ==
    ASSUME IInv, NEW c \in Commands, Asked(c)
    PROVE  IInv'
<1>. USE DEF IInv, Asked, To, Spawn, view, command, servers, settings, rest,
        Current
<1>1. ViewTypes' /\ RestTypes' /\ Follows'
  BY DEF ViewTypes, Shown, Selections, RestTypes, Follows, Newer, Announced
<1>2. CommandTypes'
  BY CommandNumbers DEF CommandTypes, Place
<1>3. ServerTypes'
  BY CommandNumbers DEF ServerTypes, Phases
<1>4. Numbered'
  <2>1. Given' = Given
    BY DEF Given, CommandTypes
  <2>. QED
    BY <2>1 DEF Numbered
<1>5. Stamped'
  BY CommandNumbers DEF Stamped, ViewTypes, Shown, Selections, CommandTypes,
     Place
<1>6. ReadFirst'
  BY CommandNumbers DEF ReadFirst, Before, Stamped, ViewTypes, Shown,
     Selections, CommandTypes, Place, ServerTypes, Phases
<1>7. InUse'
  BY CommandNumbers DEF InUse, Joined, ReadFirst, Before, Stamped, Chosen,
     Given, Switching, ViewTypes, Shown, Selections, CommandTypes, Place,
     ServerTypes, Phases
<1>8. Chosen'
  BY CommandNumbers DEF Chosen, Given, Switching, Joined, InUse, Stamped,
     NoStrayServer, ViewTypes, Shown, Selections, CommandTypes, Place,
     ServerTypes, Phases
<1>9. StatusTrue'
  BY CommandNumbers DEF StatusTrue, ShownIsConnected, StatusOfSelection, InUse,
     Joined, Chosen, Given, Switching, Stamped, ViewTypes, Shown, Selections,
     CommandTypes, Place, ServerTypes, Phases
<1>10. NoStrayServer'
  BY CommandNumbers DEF NoStrayServer, InUse, Joined, Chosen, Given, Switching,
     Stamped, ReadFirst, Before, ViewTypes, Shown, Selections, CommandTypes,
     Place, ServerTypes, Phases
<1>. QED
  BY <1>1, <1>2, <1>3, <1>4, <1>5, <1>6, <1>7, <1>8, <1>9, <1>10

LEMMA ServerReadsKeeps ==
    ASSUME IInv, NEW c \in Commands, ServerReads(c)
    PROVE  IInv'
<1>. USE DEF IInv, ServerReads, view, command, servers, settings, rest, Current
<1>1. ViewTypes' /\ CommandTypes' /\ RestTypes' /\ Numbered' /\ Stamped' /\
      Chosen' /\ StatusTrue' /\ NoStrayServer'
  BY DEF ViewTypes, Shown, Selections, CommandTypes, Place, RestTypes,
     Numbered, Given, Stamped, Chosen, Switching, Joined, StatusTrue,
     ShownIsConnected, StatusOfSelection, NoStrayServer
<1>2. ServerTypes'
  BY DEF ServerTypes, RestTypes
<1>3. ReadFirst'
  BY CommandNumbers DEF ReadFirst, Before
<1>4. InUse'
  BY CommandNumbers DEF InUse, Joined
<1>5. Follows'
  <2>. SUFFICES ASSUME ~SettingsReturn
                PROVE  /\ Newer'
                       /\ \A d \in Commands :
                              Current(d)' => Announced(d)'
    BY DEF Follows
  <2>. Newer /\ \A d \in Commands : Current(d) => Announced(d)
    BY DEF Follows
  <2>1. Newer'
    BY DEF Newer, RestTypes, ServerTypes, Texts
  <2>2. ASSUME NEW d \in Commands, Current(d)'
        PROVE  Announced(d)'
    BY <2>2 DEF Announced, ServerTypes
  <2>. QED
    BY <2>1, <2>2
<1>. QED
  BY <1>1, <1>2, <1>3, <1>4, <1>5

LEMMA StartedKeeps ==
    ASSUME IInv, NEW c \in Commands, Started(c)
    PROVE  IInv'
<1>. USE DEF IInv, Started, To, Disposing, view, command, servers, settings,
        rest, Current
<1>1. RestTypes' /\ Follows'
  BY DEF RestTypes, Follows, Newer, Announced
<1>2. ViewTypes'
  BY CommandNumbers DEF ViewTypes, Shown, Selections
<1>3. CommandTypes'
  BY CommandNumbers DEF CommandTypes, Place
<1>4. ServerTypes'
  BY CommandNumbers DEF ServerTypes, Phases
<1>5. Numbered'
  <2>1. Given' = Given
    BY DEF Given, CommandTypes
  <2>. QED
    BY <2>1 DEF Numbered
<1>6. Stamped'
  BY CommandNumbers DEF Stamped, ViewTypes, Shown, Selections, CommandTypes,
     Place
<1>7. ReadFirst'
  BY CommandNumbers DEF ReadFirst, Before, Stamped, ViewTypes, Shown,
     Selections, CommandTypes, Place, ServerTypes, Phases
<1>8. InUse'
  BY CommandNumbers DEF InUse, Joined, ReadFirst, Before, Stamped, Chosen,
     Given, Switching, ViewTypes, Shown, Selections, CommandTypes, Place,
     ServerTypes, Phases
<1>9. Chosen'
  BY CommandNumbers DEF Chosen, Given, Switching, Joined, InUse, Stamped,
     NoStrayServer, ViewTypes, Shown, Selections, CommandTypes, Place,
     ServerTypes, Phases
<1>10. StatusTrue'
  BY CommandNumbers DEF StatusTrue, ShownIsConnected, StatusOfSelection, InUse,
     Joined, Chosen, Given, Switching, Stamped, ViewTypes, Shown, Selections,
     CommandTypes, Place, ServerTypes, Phases
<1>11. NoStrayServer'
  BY CommandNumbers DEF NoStrayServer, InUse, Joined, Chosen, Given, Switching,
     Stamped, ReadFirst, Before, ViewTypes, Shown, Selections, CommandTypes,
     Place, ServerTypes, Phases
<1>. QED
  BY <1>1, <1>2, <1>3, <1>4, <1>5, <1>6, <1>7, <1>8, <1>9, <1>10, <1>11

LEMMA StartFailsKeeps ==
    ASSUME IInv, NEW c \in Commands, StartFails(c)
    PROVE  IInv'
<1>. USE DEF IInv, StartFails, To, Disposing, view, command, servers, settings,
        rest, Current
<1>1. ViewTypes' /\ RestTypes' /\ Follows'
  BY DEF ViewTypes, Shown, Selections, RestTypes, Follows, Newer, Announced
<1>2. CommandTypes'
  BY CommandNumbers DEF CommandTypes, Place
<1>3. ServerTypes'
  BY CommandNumbers DEF ServerTypes, Phases
<1>4. Numbered'
  BY CommandNumbers DEF Numbered, Given
<1>5. Stamped'
  BY CommandNumbers DEF Stamped
<1>6. ReadFirst'
  BY CommandNumbers DEF ReadFirst, Before
<1>7. InUse'
  BY CommandNumbers DEF InUse, Joined
<1>8. Chosen'
  BY CommandNumbers DEF Chosen, Given, Switching, Joined
<1>9. StatusTrue'
  BY CommandNumbers DEF StatusTrue, ShownIsConnected, StatusOfSelection, InUse,
     Joined, Chosen, Given, Switching, Stamped, ViewTypes, Shown, Selections,
     CommandTypes, Place, ServerTypes, Phases
<1>10. NoStrayServer'
  BY CommandNumbers DEF NoStrayServer, InUse, Joined, Chosen, Given, Switching,
     Stamped, ReadFirst, Before, ViewTypes, Shown, Selections, CommandTypes,
     Place, ServerTypes, Phases
<1>. QED
  BY <1>1, <1>2, <1>3, <1>4, <1>5, <1>6, <1>7, <1>8, <1>9, <1>10

LEMMA ConnectedKeeps ==
    ASSUME IInv, NEW c \in Commands, Connected(c)
    PROVE  IInv'
<1>. USE DEF IInv, Connected, To, Bind, view, command, servers, settings, rest,
        Current
<1>1. ServerTypes' /\ RestTypes' /\ Follows'
  BY DEF ServerTypes, Phases, RestTypes, Follows, Newer, Announced
<1>2. ViewTypes'
  <2>1. [base |-> target[c], by |-> c, bound |-> TRUE] \in Selections
    BY CommandNumbers DEF Selections, CommandTypes
  <2>. QED
    BY <2>1 DEF ViewTypes
<1>3. CommandTypes'
  BY CommandNumbers DEF CommandTypes, Place
<1>4. Numbered'
  <2>1. Given' = Given
    BY DEF Given, CommandTypes
  <2>. QED
    BY <2>1 DEF Numbered
<1>5. Stamped'
  BY CommandNumbers DEF Stamped, ViewTypes, Shown, Selections, CommandTypes,
     Place
<1>6. ReadFirst'
  BY CommandNumbers DEF ReadFirst, Before, Stamped, ViewTypes, Shown,
     Selections, CommandTypes, Place, ServerTypes, Phases
<1>7. InUse'
  BY CommandNumbers DEF InUse, Joined, ReadFirst, Before, Stamped, Chosen,
     Given, Switching, ViewTypes, Shown, Selections, CommandTypes, Place,
     ServerTypes, Phases
<1>8. Chosen'
  BY CommandNumbers DEF Chosen, Given, Switching, Joined, InUse, Stamped,
     NoStrayServer, ViewTypes, Shown, Selections, CommandTypes, Place,
     ServerTypes, Phases
<1>9. StatusTrue'
  BY CommandNumbers DEF StatusTrue, ShownIsConnected, StatusOfSelection, InUse,
     Joined, Chosen, Given, Switching, Stamped, ViewTypes, Shown, Selections,
     CommandTypes, Place, ServerTypes, Phases
<1>10. NoStrayServer'
  BY CommandNumbers DEF NoStrayServer, InUse, Joined, Chosen, Given, Switching,
     Stamped, ReadFirst, Before, ViewTypes, Shown, Selections, CommandTypes,
     Place, ServerTypes, Phases
<1>. QED
  BY <1>1, <1>2, <1>3, <1>4, <1>5, <1>6, <1>7, <1>8, <1>9, <1>10

LEMMA StoringKeeps ==
    ASSUME IInv, NEW c \in Commands, Storing(c)
    PROVE  IInv'
<1>. USE DEF IInv, Storing, To, view, command, servers, settings, rest, Current
<1>1. ViewTypes' /\ ServerTypes' /\ RestTypes' /\ StatusTrue' /\ Follows'
  BY DEF ViewTypes, Shown, Selections, ServerTypes, Phases, RestTypes,
     StatusTrue, ShownIsConnected, StatusOfSelection, Follows, Newer, Announced
<1>2. CommandTypes'
  BY CommandNumbers DEF CommandTypes, Place
<1>3. Numbered'
  BY CommandNumbers DEF Numbered, Given
<1>4. Stamped'
  BY CommandNumbers DEF Stamped
<1>5. ReadFirst'
  BY CommandNumbers DEF ReadFirst, Before
<1>6. InUse'
  BY CommandNumbers DEF InUse, Joined
<1>7. Chosen'
  BY CommandNumbers DEF Chosen, Given, Switching, Joined
<1>8. NoStrayServer'
  BY CommandNumbers DEF NoStrayServer
<1>. QED
  BY <1>1, <1>2, <1>3, <1>4, <1>5, <1>6, <1>7, <1>8

LEMMA StoredKeeps ==
    ASSUME IInv, NEW c \in Commands, Stored(c)
    PROVE  IInv'
<1>. USE DEF IInv, Stored, To, Bind, view, command, servers, settings, rest,
        Current
<1>1. ServerTypes' /\ RestTypes' /\ Follows'
  BY DEF ServerTypes, Phases, RestTypes, Follows, Newer, Announced
<1>2. ViewTypes'
  <2>1. [base |-> target[c], by |-> c, bound |-> TRUE] \in Selections
    BY CommandNumbers DEF Selections, CommandTypes
  <2>. QED
    BY <2>1 DEF ViewTypes
<1>3. CommandTypes'
  BY CommandNumbers DEF CommandTypes, Place
<1>4. Numbered'
  <2>1. Given' = Given
    BY DEF Given, CommandTypes
  <2>. QED
    BY <2>1 DEF Numbered
<1>5. Stamped'
  BY CommandNumbers DEF Stamped, ViewTypes, Shown, Selections, CommandTypes,
     Place
<1>6. ReadFirst'
  BY CommandNumbers DEF ReadFirst, Before, Stamped, ViewTypes, Shown,
     Selections, CommandTypes, Place, ServerTypes, Phases
<1>7. InUse'
  BY CommandNumbers DEF InUse, Joined, ReadFirst, Before, Stamped, Chosen,
     Given, Switching, ViewTypes, Shown, Selections, CommandTypes, Place,
     ServerTypes, Phases
<1>8. Chosen'
  BY CommandNumbers DEF Chosen, Given, Switching, Joined, InUse, Stamped,
     NoStrayServer, ViewTypes, Shown, Selections, CommandTypes, Place,
     ServerTypes, Phases
<1>9. StatusTrue'
  BY CommandNumbers DEF StatusTrue, ShownIsConnected, StatusOfSelection, InUse,
     Joined, Chosen, Given, Switching, Stamped, ViewTypes, Shown, Selections,
     CommandTypes, Place, ServerTypes, Phases
<1>10. NoStrayServer'
  BY CommandNumbers DEF NoStrayServer, InUse, Joined, Chosen, Given, Switching,
     Stamped, ReadFirst, Before, ViewTypes, Shown, Selections, CommandTypes,
     Place, ServerTypes, Phases
<1>. QED
  BY <1>1, <1>2, <1>3, <1>4, <1>5, <1>6, <1>7, <1>8, <1>9, <1>10

LEMMA DoneKeeps ==
    ASSUME IInv, NEW c \in Commands, Done(c)
    PROVE  IInv'
<1>. USE DEF IInv, Done, To, ShowConnected, Shows, view, command, servers,
        settings, rest, Current
<1>1. ServerTypes' /\ RestTypes' /\ Follows'
  BY DEF ServerTypes, Phases, RestTypes, Follows, Newer, Announced
<1>2. ViewTypes'
  BY CommandNumbers DEF ViewTypes, Shown, Selections, CommandTypes, Place
<1>3. CommandTypes'
  BY CommandNumbers DEF CommandTypes, Place
<1>4. Numbered'
  BY CommandNumbers DEF Numbered, Given
<1>5. Stamped'
  BY CommandNumbers DEF Stamped
<1>6. ReadFirst'
  BY CommandNumbers DEF ReadFirst, Before
<1>7. InUse'
  BY CommandNumbers DEF InUse, Joined
<1>8. Chosen'
  BY CommandNumbers DEF Chosen, Given, Switching, Joined
<1>9. StatusTrue'
  BY CommandNumbers DEF StatusTrue, ShownIsConnected, StatusOfSelection, InUse,
     Joined, Chosen, Given, Switching, Stamped, ViewTypes, Shown, Selections,
     CommandTypes, Place, ServerTypes, Phases
<1>10. NoStrayServer'
  BY CommandNumbers DEF NoStrayServer
<1>. QED
  BY <1>1, <1>2, <1>3, <1>4, <1>5, <1>6, <1>7, <1>8, <1>9, <1>10

LEMMA ThrowsKeeps ==
    ASSUME IInv, NEW c \in Commands, Throws(c)
    PROVE  IInv'
<1>. USE DEF IInv, Throws, To, Catch, Disposing, Shows, view, command, servers,
        settings, rest, Current
<1>1. RestTypes' /\ Follows'
  BY DEF RestTypes, Follows, Newer, Announced
<1>2. ViewTypes'
  BY CommandNumbers DEF ViewTypes, Shown, Selections, CommandTypes, Place
<1>3. CommandTypes'
  BY CommandNumbers DEF CommandTypes, Place
<1>4. ServerTypes'
  BY CommandNumbers DEF ServerTypes, Phases
<1>5. Numbered'
  BY CommandNumbers DEF Numbered, Given
<1>6. Stamped'
  BY CommandNumbers DEF Stamped
<1>7. ReadFirst'
  BY CommandNumbers DEF ReadFirst, Before
<1>8. InUse'
  BY CommandNumbers DEF InUse, Joined
<1>9. Chosen'
  BY CommandNumbers DEF Chosen, Given, Switching, Joined, InUse, Stamped,
     NoStrayServer, ViewTypes, Shown, Selections, CommandTypes, Place,
     ServerTypes, Phases
<1>10. StatusTrue'
  BY CommandNumbers DEF StatusTrue, ShownIsConnected, StatusOfSelection, InUse,
     Joined, Chosen, Given, Switching, Stamped, ViewTypes, Shown, Selections,
     CommandTypes, Place, ServerTypes, Phases
<1>11. NoStrayServer'
  BY CommandNumbers DEF NoStrayServer, InUse, Joined, Chosen, Given, Switching,
     Stamped, ReadFirst, Before, ViewTypes, Shown, Selections, CommandTypes,
     Place, ServerTypes, Phases
<1>. QED
  BY <1>1, <1>2, <1>3, <1>4, <1>5, <1>6, <1>7, <1>8, <1>9, <1>10, <1>11

LEMMA LostKeeps ==
    ASSUME IInv, NEW c \in Commands, Lost(c)
    PROVE  IInv'
<1>. USE DEF IInv, Lost, OnCrash, Shows, view, command, servers, settings,
        rest, Current
<1>1. CommandTypes' /\ RestTypes' /\ Numbered'
  BY DEF CommandTypes, Place, RestTypes, Numbered, Given
<1>2. ViewTypes'
  BY CommandNumbers DEF ViewTypes, Shown, Selections, CommandTypes, Place
<1>3. ServerTypes'
  BY CommandNumbers DEF ServerTypes, Phases
<1>4. Stamped'
  BY CommandNumbers DEF Stamped, ViewTypes, Shown, Selections, CommandTypes,
     Place
<1>5. ReadFirst'
  BY CommandNumbers DEF ReadFirst, Before, Stamped, ViewTypes, Shown,
     Selections, CommandTypes, Place, ServerTypes, Phases
<1>6. InUse'
  BY CommandNumbers DEF InUse, Joined, ReadFirst, Before, Stamped, Chosen,
     Given, Switching, ViewTypes, Shown, Selections, CommandTypes, Place,
     ServerTypes, Phases
<1>7. Chosen'
  BY CommandNumbers DEF Chosen, Given, Switching, Joined, InUse, Stamped,
     NoStrayServer, ViewTypes, Shown, Selections, CommandTypes, Place,
     ServerTypes, Phases
<1>8. StatusTrue'
  <2>. USE DEF StatusTrue, ShownIsConnected, StatusOfSelection
  <2>1. CASE Current(c)
    BY <2>1, CommandNumbers DEF Chosen, ReadFirst, Before, ServerTypes,
                                   ViewTypes
  <2>2. CASE ~Current(c)
    BY <2>2, CommandNumbers DEF ServerTypes, ViewTypes
  <2>. QED
    BY <2>1, <2>2
<1>9. NoStrayServer'
  BY CommandNumbers DEF NoStrayServer
<1>10. Follows'
  BY CommandNumbers DEF Follows, Newer, Announced, RestTypes, Stamped,
     ReadFirst, Before, ViewTypes, Shown, Selections, CommandTypes, Place,
     ServerTypes, Phases
<1>. QED
  BY <1>1, <1>2, <1>3, <1>4, <1>5, <1>6, <1>7, <1>8, <1>9, <1>10

LEMMA EndsKeeps ==
    ASSUME IInv, NEW c \in Commands, Ends(c)
    PROVE  IInv'
<1>. USE DEF IInv, Ends, view, command, servers, settings, rest, Current
<1>1. ViewTypes' /\ CommandTypes' /\ RestTypes' /\ Numbered' /\ Stamped' /\
      Chosen' /\ Follows'
  BY DEF ViewTypes, Shown, Selections, CommandTypes, Place, RestTypes,
     Numbered, Given, Stamped, Chosen, Switching, Joined, Follows, Newer,
     Announced
<1>2. ServerTypes'
  BY CommandNumbers DEF ServerTypes, Phases
<1>3. ReadFirst'
  BY CommandNumbers DEF ReadFirst, Before
<1>4. InUse'
  BY CommandNumbers DEF InUse, Joined
<1>5. StatusTrue'
  BY CommandNumbers DEF StatusTrue, ShownIsConnected, StatusOfSelection
<1>6. NoStrayServer'
  BY CommandNumbers DEF NoStrayServer
<1>. QED
  BY <1>1, <1>2, <1>3, <1>4, <1>5, <1>6

LEMMA ReloadGoesOnKeeps ==
    ASSUME IInv, NEW c \in Commands, ReloadGoesOn(c)
    PROVE  IInv'
<1>. USE DEF IInv, ReloadGoesOn, To, view, command, servers, settings, rest,
        Current
<1>1. ViewTypes' /\ ServerTypes' /\ RestTypes' /\ StatusTrue' /\ Follows'
  BY DEF ViewTypes, Shown, Selections, ServerTypes, Phases, RestTypes,
     StatusTrue, ShownIsConnected, StatusOfSelection, Follows, Newer, Announced
<1>2. CommandTypes'
  BY CommandNumbers DEF CommandTypes, Place
<1>3. Numbered'
  BY CommandNumbers DEF Numbered, Given
<1>4. Stamped'
  BY CommandNumbers DEF Stamped
<1>5. ReadFirst'
  BY CommandNumbers DEF ReadFirst, Before
<1>6. InUse'
  BY CommandNumbers DEF InUse, Joined
<1>7. Chosen'
  BY CommandNumbers DEF Chosen, Given, Switching, Joined
<1>8. NoStrayServer'
  BY CommandNumbers DEF NoStrayServer
<1>. QED
  BY <1>1, <1>2, <1>3, <1>4, <1>5, <1>6, <1>7, <1>8

LEMMA NotListedKeeps ==
    ASSUME IInv, NEW c \in Commands, NotListed(c)
    PROVE  IInv'
<1>. USE DEF IInv, NotListed, To, view, command, servers, settings, rest,
        Current
<1>1. ViewTypes' /\ ServerTypes' /\ RestTypes' /\ StatusTrue' /\ Follows'
  BY DEF ViewTypes, Shown, Selections, ServerTypes, Phases, RestTypes,
     StatusTrue, ShownIsConnected, StatusOfSelection, Follows, Newer, Announced
<1>2. CommandTypes'
  BY CommandNumbers DEF CommandTypes, Place
<1>3. Numbered'
  BY CommandNumbers DEF Numbered, Given
<1>4. Stamped'
  BY CommandNumbers DEF Stamped
<1>5. ReadFirst'
  BY CommandNumbers DEF ReadFirst, Before
<1>6. InUse'
  BY CommandNumbers DEF InUse, Joined
<1>7. Chosen'
  BY CommandNumbers DEF Chosen, Given, Switching, Joined
<1>8. NoStrayServer'
  BY CommandNumbers DEF NoStrayServer
<1>. QED
  BY <1>1, <1>2, <1>3, <1>4, <1>5, <1>6, <1>7, <1>8

LEMMA ConfigurationChangesKeeps ==
    ASSUME IInv, ConfigurationChanges
    PROVE  IInv'
<1>. USE DEF IInv, ConfigurationChanges, UserActs, Invalidate, Disposing,
        Shows, settings, view, command, servers, settings, rest, Current
<1>1. CommandTypes'
  BY DEF CommandTypes, Place
<1>2. ViewTypes'
  BY CommandNumbers DEF ViewTypes, Shown, Selections
<1>3. ServerTypes'
  BY CommandNumbers DEF ServerTypes, Phases
<1>4. RestTypes'
  BY ConnectionsAssumption DEF RestTypes
<1>5. Numbered'
  <2>. Given' = Given
    BY DEF Given
  <2>1. PICK k \in 0 .. events : Given = 1 .. k
    BY DEF Numbered
  <2>2. k \in 0 .. events'
    BY <2>1 DEF RestTypes
  <2>. QED
    BY <2>1, <2>2 DEF Numbered
<1>6. Stamped'
  BY CommandNumbers DEF Stamped, ViewTypes, Shown, Selections, CommandTypes,
     Place
<1>7. ReadFirst'
  BY CommandNumbers DEF ReadFirst, Before, Stamped, ViewTypes, Shown,
     Selections, CommandTypes, Place, ServerTypes, Phases
<1>8. InUse'
  BY CommandNumbers DEF InUse, Joined
<1>9. Chosen'
  BY CommandNumbers DEF Chosen, Given, Switching, Joined, InUse, Stamped,
     NoStrayServer, ViewTypes, Shown, Selections, CommandTypes, Place,
     ServerTypes, Phases
<1>10. StatusTrue'
  BY CommandNumbers DEF StatusTrue, ShownIsConnected, StatusOfSelection
<1>11. NoStrayServer'
  BY CommandNumbers DEF NoStrayServer, InUse, Joined, Chosen, Given, Switching,
     Stamped, ReadFirst, Before, ViewTypes, Shown, Selections, CommandTypes,
     Place, ServerTypes, Phases
<1>12. Follows'
  <2>. SUFFICES ASSUME ~SettingsReturn
                PROVE  /\ Newer'
                       /\ \A d \in Commands :
                              Current(d)' => Announced(d)'
    BY DEF Follows
  <2>. Newer /\ \A d \in Commands : Current(d) => Announced(d)
    BY DEF Follows
  <2>1. Newer'
    BY ConnectionsAssumption DEF Newer, RestTypes, Texts
  <2>2. ASSUME NEW d \in Commands, Current(d)'
        PROVE  Announced(d)'
    BY <2>2 DEF Stamped, CommandTypes, ViewTypes
  <2>. QED
    BY <2>1, <2>2
<1>. QED
  BY <1>1, <1>2, <1>3, <1>4, <1>5, <1>6, <1>7, <1>8, <1>9, <1>10, <1>11, <1>12

LEMMA ReloadKeeps ==
    ASSUME IInv, Reload
    PROVE  IInv'
<1>. USE DEF IInv, Reload, UserActs, Invalidate, Disposing, Shows, To,
        settings, view, command, servers, settings, rest, Current
<1>1. /\ NextCommand \in Commands /\ at[NextCommand] = "none"
      /\ stamp[NextCommand] = 0 /\ rpc[NextCommand] = "none"
      /\ served[NextCommand] = 0
      /\ \A c \in Given : c < NextCommand
      /\ Given \cup {NextCommand} = 1 .. NextCommand
      /\ NextCommand \in 0 .. events' /\ events' \in 0 .. MaxEvents
      /\ events' = events + 1
  BY FreeCommand
<1>2. ViewTypes'
  BY <1>1, CommandNumbers DEF ViewTypes, Shown, Selections
<1>3. CommandTypes'
  <2>1. previous' \in [Commands -> 0 .. MaxEvents]
    BY <1>1 DEF CommandTypes, ViewTypes
  <2>2. stamp' \in [Commands -> Nat]
    BY <1>1 DEF CommandTypes, ViewTypes
  <2>3. selected.base \in Bases \cup {NoBase}
    BY DEF ViewTypes, Selections
  <2>4. target' \in [Commands -> Bases \cup {NoBase}]
    BY <1>1, <2>3 DEF CommandTypes
  <2>5. at' \in [Commands -> Place]
    BY <1>1 DEF CommandTypes, Place
  <2>. QED
    BY <2>1, <2>2, <2>4, <2>5 DEF CommandTypes
<1>4. ServerTypes'
  BY <1>1, CommandNumbers DEF ServerTypes, Phases
<1>5. RestTypes'
  BY <1>1, CommandNumbers DEF RestTypes
<1>6. Numbered'
  BY <1>1, CommandNumbers DEF Numbered, Given
<1>7. Stamped'
  BY <1>1, CommandNumbers DEF Stamped, ViewTypes, Shown, Selections,
     CommandTypes, Place
<1>8. ReadFirst'
  BY <1>1, CommandNumbers DEF ReadFirst, Before, Stamped, ViewTypes, Shown,
     Selections, CommandTypes, Place, ServerTypes, Phases
<1>9. InUse'
  BY <1>1, CommandNumbers DEF InUse, Joined
<1>10. Chosen'
  BY <1>1, CommandNumbers DEF Chosen, Given, Switching, Joined, InUse, Stamped,
     NoStrayServer, ViewTypes, Shown, Selections, CommandTypes, Place,
     ServerTypes, Phases
<1>11. StatusTrue'
  BY <1>1, CommandNumbers DEF StatusTrue, ShownIsConnected, StatusOfSelection
<1>12. NoStrayServer'
  BY <1>1, CommandNumbers DEF NoStrayServer, InUse, Joined, Chosen, Given,
     Switching, Stamped, ReadFirst, Before, ViewTypes, Shown, Selections,
     CommandTypes, Place, ServerTypes, Phases
<1>13. Follows'
  <2>. SUFFICES ASSUME ~SettingsReturn
                PROVE  /\ Newer'
                       /\ \A d \in Commands :
                              Current(d)' => Announced(d)'
    BY DEF Follows
  <2>. Newer /\ \A d \in Commands : Current(d) => Announced(d)
    BY DEF Follows
  <2>1. Newer'
    BY <1>1, ConnectionsAssumption DEF Newer, RestTypes, Texts
  <2>2. ASSUME NEW d \in Commands, Current(d)'
        PROVE  Announced(d)'
    <3>1. d = NextCommand
      BY <1>1, <2>2 DEF Stamped, CommandTypes, ViewTypes
    <3>. QED
      BY <1>1, <3>1 DEF Announced
  <2>. QED
    BY <2>1, <2>2
<1>. QED
  BY <1>2, <1>3, <1>4, <1>5, <1>6, <1>7, <1>8, <1>9, <1>10, <1>11, <1>12, <1>13

LEMMA EditKeeps ==
    ASSUME IInv, Edit
    PROVE  IInv'
<1>. USE DEF IInv, Edit, UserActs, view, command, servers, settings, rest,
        Current
<1>1. ViewTypes' /\ CommandTypes' /\ ServerTypes' /\ Stamped' /\ ReadFirst' /\
      InUse' /\ Chosen' /\ StatusTrue' /\ NoStrayServer'
  BY DEF ViewTypes, Shown, Selections, CommandTypes, Place, ServerTypes,
     Phases, Stamped, ReadFirst, Before, InUse, Joined, Chosen, Given,
     Switching, StatusTrue, ShownIsConnected, StatusOfSelection, NoStrayServer
<1>2. RestTypes'
  <2>1. events \in Nat /\ events + 1 \in 0 .. MaxEvents
    BY ConnectionsAssumption DEF RestTypes
  <2>2. disk' \in Texts
    <3>1. CASE SettingsReturn
      BY <3>1
    <3>2. CASE ~SettingsReturn
      BY <2>1, <3>2, ConnectionsAssumption DEF RestTypes, Follows, Newer, Texts
    <3>. QED
      BY <3>1, <3>2
  <2>. QED
    BY <2>1, <2>2 DEF RestTypes
<1>3. Numbered'
  <2>. Given' = Given
    BY DEF Given
  <2>1. PICK k \in 0 .. events : Given = 1 .. k
    BY DEF Numbered
  <2>2. k \in 0 .. events'
    BY <2>1 DEF RestTypes
  <2>. QED
    BY <2>1, <2>2 DEF Numbered
<1>4. Follows'
  <2>. SUFFICES ASSUME ~SettingsReturn
                PROVE  /\ Newer'
                       /\ \A d \in Commands :
                              Current(d)' => Announced(d)'
    BY DEF Follows
  <2>. Newer /\ \A d \in Commands : Current(d) => Announced(d)
    BY DEF Follows
  <2>1. Newer'
    <3>1. disk' = disk + 1 /\ disk \in Nat
      BY DEF RestTypes, Texts
    <3>2. \A d \in Commands : seen[d] \in Nat /\ served[d] \in Nat
      BY DEF CommandTypes, ServerTypes, Texts
    <3>. QED
      BY <3>1, <3>2 DEF Newer, RestTypes
  <2>2. ASSUME NEW d \in Commands, Current(d)'
        PROVE  Announced(d)'
    BY DEF Announced
  <2>. QED
    BY <2>1, <2>2
<1>. QED
  BY <1>1, <1>2, <1>3, <1>4

LEMMA ReportedKeeps ==
    ASSUME IInv, Reported
    PROVE  IInv'
<1>. USE DEF IInv, Reported, view, command, servers, settings, rest, Current
<1>1. ViewTypes' /\ CommandTypes' /\ ServerTypes' /\ Numbered' /\ Stamped' /\
      ReadFirst' /\ InUse' /\ Chosen' /\ StatusTrue' /\ NoStrayServer'
  BY DEF ViewTypes, Shown, Selections, CommandTypes, Place, ServerTypes,
     Phases, Numbered, Given, Stamped, ReadFirst, Before, InUse, Joined,
     Chosen, Switching, StatusTrue, ShownIsConnected, StatusOfSelection,
     NoStrayServer
<1>2. RestTypes'
  <2>1. [stamp |-> generation, text |-> disk] \in [stamp : Nat, text : Texts]
    BY DEF RestTypes, ViewTypes
  <2>. QED
    BY <2>1 DEF RestTypes
<1>3. Follows'
  <2>. SUFFICES ASSUME ~SettingsReturn
                PROVE  /\ Newer'
                       /\ \A d \in Commands :
                              Current(d)' => Announced(d)'
    BY DEF Follows
  <2>. Newer /\ \A d \in Commands : Current(d) => Announced(d)
    BY DEF Follows
  <2>1. Newer'
    BY DEF Newer
  <2>2. ASSUME NEW d \in Commands, Current(d)'
        PROVE  Announced(d)'
    <3>. SUFFICES ASSUME served[d] # 0, served[d] # disk
                  PROVE  [stamp |-> generation, text |-> disk].text # active
      BY DEF Announced
    <3>1. rpc[d] # "none" /\ Current(d)
      BY <2>2 DEF ReadFirst
    <3>2. active = seen[d] /\ seen[d] <= served[d] /\ served[d] <= disk
      BY <3>1 DEF ReadFirst, Newer
    <3>. QED
      BY <3>2 DEF RestTypes, CommandTypes, ServerTypes, Texts
  <2>. QED
    BY <2>1, <2>2
<1>. QED
  BY <1>1, <1>2, <1>3

LEMMA ReportReadKeeps ==
    ASSUME IInv, NEW r \in reports, ReportRead(r)
    PROVE  IInv'
<1>. USE DEF IInv, ReportRead, Compare, Invalidate, Disposing, Shows, view,
        command, servers, settings, rest, Current
<1>1. CommandTypes' /\ Numbered'
  BY DEF CommandTypes, Place, Numbered, Given
<1>2. ViewTypes'
  BY CommandNumbers DEF ViewTypes, Shown, Selections
<1>3. ServerTypes'
  BY CommandNumbers DEF ServerTypes, Phases
<1>4. RestTypes'
  BY CommandNumbers DEF RestTypes
<1>5. Stamped'
  BY CommandNumbers DEF Stamped, ViewTypes, Shown, Selections, CommandTypes,
     Place
<1>6. ReadFirst'
  BY CommandNumbers DEF ReadFirst, Before, Stamped, ViewTypes, Shown,
     Selections, CommandTypes, Place, ServerTypes, Phases
<1>7. InUse'
  BY CommandNumbers DEF InUse, Joined
<1>8. Chosen'
  BY CommandNumbers DEF Chosen, Given, Switching, Joined, InUse, Stamped,
     NoStrayServer, ViewTypes, Shown, Selections, CommandTypes, Place,
     ServerTypes, Phases
<1>9. StatusTrue'
  BY CommandNumbers DEF StatusTrue, ShownIsConnected, StatusOfSelection
<1>10. NoStrayServer'
  BY CommandNumbers DEF NoStrayServer, InUse, Joined, Chosen, Given, Switching,
     Stamped, ReadFirst, Before, ViewTypes, Shown, Selections, CommandTypes,
     Place, ServerTypes, Phases
<1>11. Follows'
  BY CommandNumbers DEF Follows, Newer, Announced, RestTypes, Stamped,
     ReadFirst, Before, ViewTypes, Shown, Selections, CommandTypes, Place,
     ServerTypes, Phases
<1>. QED
  BY <1>1, <1>2, <1>3, <1>4, <1>5, <1>6, <1>7, <1>8, <1>9, <1>10, <1>11

LEMMA ReportFailsKeeps ==
    ASSUME IInv, NEW r \in reports, ReportFails(r)
    PROVE  IInv'
<1>. USE DEF IInv, ReportFails, Invalidate, Disposing, Shows, view, command,
        servers, settings, rest, Current
<1>1. CommandTypes' /\ Numbered'
  BY DEF CommandTypes, Place, Numbered, Given
<1>2. ViewTypes'
  BY CommandNumbers DEF ViewTypes, Shown, Selections
<1>3. ServerTypes'
  BY CommandNumbers DEF ServerTypes, Phases
<1>4. RestTypes'
  BY CommandNumbers DEF RestTypes
<1>5. Stamped'
  BY CommandNumbers DEF Stamped, ViewTypes, Shown, Selections, CommandTypes,
     Place
<1>6. ReadFirst'
  BY CommandNumbers DEF ReadFirst, Before, Stamped, ViewTypes, Shown,
     Selections, CommandTypes, Place, ServerTypes, Phases
<1>7. InUse'
  BY CommandNumbers DEF InUse, Joined
<1>8. Chosen'
  BY CommandNumbers DEF Chosen, Given, Switching, Joined, InUse, Stamped,
     NoStrayServer, ViewTypes, Shown, Selections, CommandTypes, Place,
     ServerTypes, Phases
<1>9. StatusTrue'
  BY CommandNumbers DEF StatusTrue, ShownIsConnected, StatusOfSelection
<1>10. NoStrayServer'
  BY CommandNumbers DEF NoStrayServer, InUse, Joined, Chosen, Given, Switching,
     Stamped, ReadFirst, Before, ViewTypes, Shown, Selections, CommandTypes,
     Place, ServerTypes, Phases
<1>11. Follows'
  BY CommandNumbers DEF Follows, Newer, Announced, RestTypes, Stamped,
     ReadFirst, Before, ViewTypes, Shown, Selections, CommandTypes, Place,
     ServerTypes, Phases
<1>. QED
  BY <1>1, <1>2, <1>3, <1>4, <1>5, <1>6, <1>7, <1>8, <1>9, <1>10, <1>11

-----------------------------------------------------------------------------
(* The steps that begin with a number of their own, and the rest of Next.  *)
LEMMA SelectKeeps ==
    ASSUME IInv, NEW b \in Bases, Select(b)
    PROVE  IInv'
<1>1. /\ NextCommand \in Commands /\ at[NextCommand] = "none"
      /\ \A c \in Given : c < NextCommand
      /\ Given \cup {NextCommand} = 1 .. NextCommand
      /\ NextCommand \in 0 .. events' /\ events' \in 0 .. MaxEvents
      /\ events' = events + 1
  BY FreeCommand DEF Select
<1>2. selected.by <= NextCommand
  BY <1>1, CommandNumbers DEF IInv, Chosen
<1>3. events' \in {events, events + 1}
  BY <1>1 DEF IInv, RestTypes
<1>. QED
  BY <1>1, <1>2, <1>3, SwitchToKeeps DEF Select

LEMMA ListedKeeps ==
    ASSUME IInv, NEW c \in Commands, Listed(c)
    PROVE  IInv'
<1>1. at[c] = "listing" /\ Wanted(c) /\ events' = events
  BY DEF Listed
<1>2. selected.by <= c
  BY <1>1 DEF IInv, Chosen, Wanted
<1>3. target[c] \in Bases \cup {NoBase}
  BY DEF IInv, CommandTypes
<1>4. events' \in 0 .. MaxEvents /\ events' \in {events, events + 1}
  BY <1>1, ConnectionsAssumption DEF IInv, RestTypes
<1>5. \E k \in 0 .. events' : Given \cup {c} = 1 .. k
  BY <1>1 DEF IInv, Numbered, Given
<1>. QED
  BY <1>1, <1>2, <1>3, <1>4, <1>5, SwitchToKeeps DEF Listed

LEMMA StutterKeeps ==
    ASSUME IInv, UNCHANGED vars
    PROVE  IInv'
<1>. USE DEF IInv, vars, view, command, servers, settings, rest, Current
<1>1. ViewTypes' /\ CommandTypes' /\ ServerTypes' /\ RestTypes'
  BY DEF ViewTypes, CommandTypes, ServerTypes, RestTypes
<1>2. Numbered' /\ Stamped' /\ ReadFirst' /\ InUse' /\ Chosen'
  BY DEF Numbered, Given, Stamped, ReadFirst, InUse, Chosen
<1>3. StatusTrue' /\ NoStrayServer' /\ Follows'
  BY DEF StatusTrue, ShownIsConnected, StatusOfSelection, NoStrayServer,
         Follows, Newer, Announced
<1>. QED
  BY <1>1, <1>2, <1>3

(* The invariant holds at first, and each step keeps it.                   *)
LEMMA InitIInv == Init => IInv
<1>. SUFFICES ASSUME Init
              PROVE  IInv
  OBVIOUS
<1>. USE DEF Init
<1>1. 0 \in 0 .. MaxEvents /\ 1 \in Texts /\ MaxEvents \in Nat
  BY ConnectionsAssumption DEF Texts
<1>2. ViewTypes /\ CommandTypes /\ ServerTypes /\ RestTypes
  <2>1. /\ selected \in Selections
        /\ status \in [what : Shown, base : Bases \cup {NoBase}]
    BY <1>1 DEF Selections, Nothing, Shows, Shown
  <2>. QED
    BY <1>1, <2>1 DEF ViewTypes, CommandTypes, ServerTypes, RestTypes, Place,
                      Phases
<1>3. Given = {} /\ 1 .. 0 = {}
  BY DEF Given
<1>4. Numbered
  BY <1>1, <1>3 DEF Numbered
<1>5. Stamped /\ ReadFirst /\ InUse /\ NoStrayServer
  BY DEF Stamped, ReadFirst, InUse, NoStrayServer
<1>6. Chosen /\ StatusTrue
  BY DEF Chosen, StatusTrue, ShownIsConnected, StatusOfSelection, Nothing,
         Shows
<1>7. Follows
  BY DEF Follows, Newer, Announced
<1>. QED
  BY <1>2, <1>4, <1>5, <1>6, <1>7 DEF IInv

LEMMA StepKeeps ==
    ASSUME IInv, NEW c \in Commands, Step(c)
    PROVE  IInv'
  BY PreviousEndedKeeps, ReadsSettingsKeeps, SettingsReadKeeps, AskedKeeps,
     ServerReadsKeeps, StartedKeeps, StartFailsKeeps, ConnectedKeeps,
     StoringKeeps, StoredKeeps, DoneKeeps, ThrowsKeeps, ReloadGoesOnKeeps,
     ListedKeeps, NotListedKeeps DEF Step

LEMMA NextKeeps ==
    ASSUME IInv, [Next]_vars
    PROVE  IInv'
<1>1. ASSUME NEW b \in Bases, Select(b)
      PROVE  IInv'
  BY <1>1, SelectKeeps
<1>2. ASSUME NEW c \in Commands, Step(c) \/ Lost(c) \/ Ends(c)
      PROVE  IInv'
  BY <1>2, StepKeeps, LostKeeps, EndsKeeps
<1>3. CASE ConfigurationChanges \/ Reload
  BY <1>3, ConfigurationChangesKeeps, ReloadKeeps
<1>4. CASE Edit \/ Reported
  BY <1>4, EditKeeps, ReportedKeeps
<1>5. ASSUME NEW r \in reports, ReportRead(r) \/ ReportFails(r)
      PROVE  IInv'
  BY <1>5, ReportReadKeeps, ReportFailsKeeps
<1>6. CASE UNCHANGED vars
  BY <1>6, StutterKeeps
<1>. QED
  BY <1>1, <1>2, <1>3, <1>4, <1>5, <1>6 DEF Next

LEMMA Invariant == Spec => []IInv
<1>1. Init => IInv
  BY InitIInv
<1>2. IInv /\ [Next]_vars => IInv'
  BY NextKeeps
<1>. QED
  BY <1>1, <1>2, PTL DEF Spec

-----------------------------------------------------------------------------
(* The commands, the servers they start and what is shown stay within      *)
(* their types; a server belongs to a command that read the settings       *)
(* (extension.ts, switchTo).                                               *)
THEOREM Typing == Spec => []TypeOK
<1>1. IInv => TypeOK
  <2>. SUFFICES ASSUME IInv
                PROVE  TypeOK
    OBVIOUS
  <2>1. \A c \in Commands : /\ rpc[c] = "none" => served[c] = 0
                            /\ seen[c] = 0 => rpc[c] = "none"
    BY DEF IInv, ReadFirst
  <2>. QED
    BY <2>1 DEF IInv, ViewTypes, CommandTypes, ServerTypes, RestTypes, Shown,
                Phases, Selections, TypeOK
<1>. QED
  BY <1>1, Invariant, PTL

(* Whatever commands, losses and changes of the settings overlap, the      *)
(* status bar shows a connection only while the selection in force has it, *)
(* and never the loss of another one (extension.ts, switchTo, onCrash and  *)
(* invalidate).                                                            *)
THEOREM StatusIsTrue == Spec => []StatusTrue
<1>1. IInv => StatusTrue
  BY DEF IInv
<1>. QED
  BY <1>1, Invariant, PTL

(* However many selections and reloads overlap, no server goes on that is  *)
(* neither in use nor just being started (extension.ts, the disposals of   *)
(* switchTo and start).                                                    *)
THEOREM NoServerStrays == Spec => []NoStrayServer
<1>1. IInv => NoStrayServer
  BY DEF IInv
<1>. QED
  BY <1>1, Invariant, PTL

LEMMA FollowsSettings ==
    ASSUME ~SettingsReturn, IInv
    PROVE  SettingsFollowed
<1>. SUFFICES ASSUME status.what = "connected", ~changed, reports = {}
              PROVE  served[client] = disk
  BY DEF SettingsFollowed
<1>1. client # 0 /\ client \in Commands /\ Current(client)
  BY CommandNumbers DEF IInv, StatusTrue, ShownIsConnected, ViewTypes
<1>2. served[client] # 0 /\ Announced(client)
  BY <1>1 DEF IInv, InUse, Follows
<1>. QED
  BY <1>2 DEF Announced

(* When no text of the settings returns, a connection shown at rest was    *)
(* made with the settings on the disk, although the server reads them      *)
(* later than the command that started it (extension.ts, the watcher).     *)
THEOREM SettingsAreFollowed ==
    ASSUME ~SettingsReturn
    PROVE  Spec => []SettingsFollowed
<1>1. IInv => SettingsFollowed
  BY FollowsSettings
<1>. QED
  BY <1>1, Invariant, PTL

(* What the user chose last is what is selected, however late an earlier   *)
(* connection or reload goes on (extension.ts, switchTo, ibcmd.refresh).   *)
THEOREM LastChoice == Spec => LastChoiceWins
<1>1. IInv /\ [Next]_vars => [selected'.by >= selected.by]_selected
  <2>. SUFFICES ASSUME IInv, [Next]_vars, selected' # selected
                PROVE  selected'.by >= selected.by
    OBVIOUS
  <2>1. selected.by \in Nat
    BY ConnectionsAssumption DEF IInv, ViewTypes, Selections
  <2>2. ASSUME NEW b \in Bases, Select(b)
        PROVE  selected'.by >= selected.by
    <3>1. /\ selected'.by = NextCommand /\ NextCommand \in Commands
          /\ \A c \in Given : c < NextCommand
      BY <2>2, FreeCommand DEF Select, SwitchTo
    <3>. QED
      BY <2>1, <3>1, CommandNumbers DEF IInv, Chosen
  <2>3. ASSUME NEW c \in Commands, Listed(c)
        PROVE  selected'.by >= selected.by
    <3>1. selected'.by = c /\ selected.by <= c
      BY <2>3 DEF IInv, Chosen, Listed, Wanted, SwitchTo
    <3>. QED
      BY <2>1, <3>1, CommandNumbers
  <2>4. ASSUME NEW c \in Commands, Current(c),
               at[c] \in {"connecting", "storing"},
               selected' = [base |-> target[c], by |-> c, bound |-> TRUE]
        PROVE  selected'.by >= selected.by
    BY <2>1, <2>4, CommandNumbers DEF IInv, Chosen, Switching
  <2>5. ASSUME NEW c \in Commands, Step(c), ~Listed(c)
        PROVE  selected'.by >= selected.by
    BY <2>4, <2>5 DEF Step, PreviousEnded, ReadsSettings, SettingsRead, Asked,
         ServerReads, Started, StartFails, Connected, Storing, Stored, Bind,
         Done, Throws, Catch, ReloadGoesOn, NotListed, view
  <2>. QED
    BY <2>2, <2>3, <2>5 DEF Next, Lost, Ends, ConfigurationChanges, Reload,
         Edit, Reported, ReportRead, ReportFails, vars, view
<1>. QED
  BY <1>1, Invariant, PTL DEF Spec, LastChoiceWins
=============================================================================
