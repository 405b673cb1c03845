------------------------------- MODULE RpcClient -------------------------------
(***************************************************************************)
(* The extension's end of the editor protocol, RpcClient of                *)
(* editors/vscode/src/rpc.ts: it starts a server process, numbers the      *)
(* requests, matches answers to them, gives a request up at its timeout or *)
(* when its caller aborts it, and ends the server.                         *)
(*                                                                         *)
(* The client is single threaded: an action is one callback of the event   *)
(* loop, or the continuation of `dispose` after an await.  The server is   *)
(* RequestServer, which EditorServer implements, behind two pipes.         *)
(***************************************************************************)
EXTENDS Naturals, Sequences

CONSTANTS
    MaxCalls,    (* bound: requests made, `shutdown` included              *)
    Faults       (* whether pipes break, the server dies by itself or      *)
                 (* answers what the protocol does not allow               *)

ASSUME ClientAssumption == MaxCalls \in Nat \ {0} /\ Faults \in BOOLEAN

VARIABLES
    calls,       (* requests made                                          *)
    sequence,    (* the last id used                                       *)
    waiting,     (* id -> the request that waits under it, 0 when none     *)
    settled,     (* request -> how its promise was settled                 *)
    got,         (* request -> the request whose answer it was given       *)
    dead,
    disposing,
    goodbye,     (* the request that is dispose's `shutdown`, 0 before     *)
    disposed,    (* dispose ran to its end                                 *)
    crashes,     (* calls of onCrash                                       *)
    killed,      (* the server was sent a signal                           *)
    exited,      (* the client saw the server exit                         *)
    toServer, toClient,     (* the pipes                                   *)
    queue,       (* requests the server read and has not answered          *)
    ending,      (* the server read `exit`                                 *)
    gone         (* the server process does not exist any more             *)

requests == <<calls, sequence, waiting, settled, got>>
life == <<dead, disposing, goodbye, disposed, crashes, killed, exited>>
pipes == <<toServer, toClient>>
server == <<queue, ending, gone>>
vars == <<requests, life, pipes, server>>

Calls == 1 .. MaxCalls
How == {"none", "answered", "error", "cancelled", "unsent", "stopped"}
Idle == [id \in Calls |-> 0]

MessageKind == {"request", "cancel", "exit", "answered", "error", "invalid",
                "garbage"}
Messages == [kind: MessageKind, id: 0 .. MaxCalls, call: 0 .. MaxCalls]

Server == INSTANCE RequestServer WITH RequestMessages <- Messages
Message(kind, id, call) == Server!Message(kind, id, call)

Init ==
    /\ calls = 0 /\ sequence = 0
    /\ waiting = Idle
    /\ settled = [c \in Calls |-> "none"] /\ got = [c \in Calls |-> 0]
    /\ dead = FALSE /\ disposing = FALSE /\ goodbye = 0 /\ disposed = FALSE
    /\ crashes = 0 /\ killed = FALSE /\ exited = FALSE
    /\ toServer = << >> /\ toClient = << >>
    /\ queue = << >> /\ ending = FALSE /\ gone = FALSE

-----------------------------------------------------------------------------
(* Requests.                                                               *)

(* Mutant: the least free id is used again.                                *)
NextIdReused == CHOOSE id \in Calls :
    waiting[id] = 0 /\ \A lower \in 1 .. id - 1 : waiting[lower] # 0

NextId == sequence + 1

(* The request waits under its id before it is sent, which a dead client   *)
(* refuses.                                                                *)
Dispatch(c, id) ==
    IF dead
    THEN /\ settled' = [settled EXCEPT ![c] = "unsent"]
         /\ UNCHANGED <<waiting, toServer>>
    ELSE /\ waiting' = [waiting EXCEPT ![id] = c]
         /\ toServer' = Append(toServer, Message("request", id, c))
         /\ UNCHANGED settled

Request ==
    /\ calls < MaxCalls
    /\ calls' = calls + 1
    /\ sequence' = sequence + 1
    /\ Dispatch(calls + 1, NextId)
    /\ UNCHANGED <<got, life, toClient, server>>

(* The caller's signal was aborted before.                                 *)
RequestAborted ==
    /\ calls < MaxCalls
    /\ calls' = calls + 1
    /\ settled' = [settled EXCEPT ![calls + 1] = "cancelled"]
    /\ UNCHANGED <<sequence, waiting, got, life, pipes, server>>

(* The timer, or the caller's abort signal.                                *)
GiveUp(id) ==
    /\ waiting[id] # 0
    /\ toServer' = Append(toServer, Message("cancel", id, waiting[id]))
    /\ settled' = [settled EXCEPT ![waiting[id]] = "cancelled"]
    /\ waiting' = [waiting EXCEPT ![id] = 0]
    /\ UNCHANGED <<calls, sequence, got, life, toClient, server>>

-----------------------------------------------------------------------------
(* The end of the client.                                                  *)

(* Mutant: a server without a transport is left running.                   *)
FailKeepingServer(left, how, running) ==
    /\ dead' = TRUE
    /\ settled' = [c \in Calls |->
                     IF \E id \in Calls : left[id] = c THEN "stopped" ELSE how[c]]
    /\ waiting' = Idle
    /\ crashes' = IF disposing THEN crashes ELSE crashes + 1
    /\ UNCHANGED killed

(* Mutant: it does not look whether it failed before.                      *)
FailAgain(left, how, running) ==
    /\ dead' = TRUE
    /\ settled' = [c \in Calls |->
                     IF \E id \in Calls : left[id] = c THEN "stopped" ELSE how[c]]
    /\ waiting' = Idle
    /\ killed' = (killed \/ running)
    /\ crashes' = IF disposing THEN crashes ELSE crashes + 1

(* Whatever is `left` waiting is rejected, everything else is settled as   *)
(* `how` says, and a server still `running` is killed.                     *)
Fail(left, how, running) ==
    IF dead
    THEN settled' = how /\ waiting' = left /\ UNCHANGED <<dead, crashes, killed>>
    ELSE /\ dead' = TRUE
         /\ settled' = [c \in Calls |->
                IF \E id \in Calls : left[id] = c THEN "stopped" ELSE how[c]]
         /\ waiting' = Idle
         /\ killed' = (killed \/ running)
         /\ crashes' = IF disposing THEN crashes ELSE crashes + 1

(* The process ended; it may never have started.                           *)
SeesExit ==
    /\ gone /\ ~exited
    /\ exited' = TRUE
    /\ Fail(waiting, settled, FALSE)
    /\ UNCHANGED <<calls, sequence, got, disposing, goodbye, disposed, pipes,
                   server>>

(* Writing to the server failed, whether or not it still runs.             *)
PipeBreaks ==
    /\ Faults \/ (gone /\ toServer # << >>)
    /\ ~dead
    /\ Fail(waiting, settled, ~exited)
    /\ UNCHANGED <<calls, sequence, got, disposing, goodbye, disposed, exited,
                   pipes, server>>

Dispose ==
    /\ ~dead /\ ~disposing
    /\ calls < MaxCalls
    /\ disposing' = TRUE
    /\ calls' = calls + 1 /\ goodbye' = calls + 1
    /\ sequence' = sequence + 1
    /\ Dispatch(calls + 1, NextId)
    /\ UNCHANGED <<got, dead, disposed, crashes, killed, exited, toClient,
                   server>>

(* Mutant: the answer to `shutdown` is not awaited.                        *)
DisposeGoesOnAtOnce ==
    /\ disposing /\ ~disposed
    /\ disposed' = TRUE
    /\ toServer' = Append(toServer, Message("exit", 0, 0))
    /\ Fail(waiting, settled, ~exited)
    /\ UNCHANGED <<calls, sequence, got, disposing, goodbye, exited, toClient,
                   server>>

(* `shutdown` was settled: `exit` when it was answered, and in any case    *)
(* the end of the input, which the server takes for the same.              *)
DisposeGoesOn ==
    /\ disposing /\ ~disposed
    /\ settled[goodbye] # "none"
    /\ disposed' = TRUE
    /\ toServer' = Append(toServer, Message("exit", 0, 0))
    /\ Fail(waiting, settled, ~exited)
    /\ UNCHANGED <<calls, sequence, got, disposing, goodbye, exited, toClient,
                   server>>

-----------------------------------------------------------------------------
(* Answers.                                                                *)

(* Mutant: an error without a code drops its request before it rejects it. *)
RejectInvalidForgetting(id, call) ==
    Fail([waiting EXCEPT ![id] = 0], settled, ~exited)

(* The request is rejected, and with it the server.                        *)
RejectInvalid(id, call) ==
    Fail([waiting EXCEPT ![id] = 0], [settled EXCEPT ![call] = "error"],
         ~exited)

(* One message; the answer to a request given up is dropped.               *)
Receive ==
    /\ toClient # << >>
    /\ toClient' = Tail(toClient)
    /\ LET m == Head(toClient)
           call == IF m.kind = "garbage" THEN 0 ELSE waiting[m.id]
       IN \/ /\ m.kind = "garbage"
             /\ Fail(waiting, settled, ~exited)
             /\ UNCHANGED got
          \/ /\ m.kind # "garbage" /\ call = 0
             /\ UNCHANGED <<waiting, settled, got, dead, crashes, killed>>
          \/ /\ m.kind = "invalid" /\ call # 0
             /\ RejectInvalid(m.id, call)
             /\ UNCHANGED got
          \/ /\ m.kind \in {"answered", "error"} /\ call # 0
             /\ settled' = [settled EXCEPT ![call] = m.kind]
             /\ got' = [got EXCEPT ![call] = m.call]
             /\ waiting' = [waiting EXCEPT ![m.id] = 0]
             /\ UNCHANGED <<dead, crashes, killed>>
    /\ UNCHANGED <<calls, sequence, disposing, goodbye, disposed, exited,
                   toServer, server>>

-----------------------------------------------------------------------------
(* The server.                                                             *)

(* What a cancellation changes in it is not for the client to rely on.     *)
ServerReads ==
    /\ ~gone /\ ~ending /\ toServer # << >>
    /\ toServer' = Tail(toServer)
    /\ LET m == Head(toServer) IN
         \/ m.kind = "request" /\ Server!Accept(m)
         \/ m.kind = "cancel" /\ UNCHANGED <<server, toClient, killed>>
         \/ m.kind = "exit" /\ Server!End
    /\ UNCHANGED <<requests, dead, disposing, goodbye, disposed, crashes, exited>>

ServerAnswers ==
    /\ Server!Answer
    /\ UNCHANGED <<requests, dead, disposing, goodbye, disposed, crashes, exited,
                   toServer>>

(* After `exit` it answers what it has; a signal ends it at any time.      *)
ServerStops ==
    /\ Server!Stop
    /\ UNCHANGED <<requests, dead, disposing, goodbye, disposed, crashes, exited,
                   toServer>>

-----------------------------------------------------------------------------
Next ==
    \/ Request \/ RequestAborted \/ \E id \in Calls : GiveUp(id)
    \/ SeesExit \/ PipeBreaks \/ Dispose \/ DisposeGoesOn \/ Receive
    \/ ServerReads \/ ServerAnswers \/ ServerStops

Spec == Init /\ [][Next]_vars

(* Timers fire, an awaited promise that is settled continues, exits are    *)
(* reported, and a process that was sent a signal dies.                    *)
Fairness ==
    /\ \A id \in Calls : WF_vars(GiveUp(id))
    /\ WF_vars(DisposeGoesOn)
    /\ WF_vars(SeesExit)
    /\ WF_vars(killed /\ ServerStops)

LiveSpec == Spec /\ Fairness

-----------------------------------------------------------------------------
(* Every variable stays within its domain, ids included: an id never       *)
(* exceeds the requests made.                                              *)
TypeOK ==
    /\ calls \in 0 .. MaxCalls /\ sequence \in 0 .. calls
    /\ waiting \in [Calls -> 0 .. MaxCalls]
    /\ settled \in [Calls -> How] /\ got \in [Calls -> 0 .. MaxCalls]
    /\ {dead, disposing, disposed, killed, exited, ending, gone}
           \subseteq BOOLEAN
    /\ goodbye \in 0 .. calls /\ crashes \in 0 .. 1
    /\ toServer \in Seq(Messages) /\ toClient \in Seq(Messages)
    /\ queue \in Seq(Messages)

(* An answer reaches the request it answers, whatever was given up, timed  *)
(* out or answered late before: the answer of a listing never becomes the  *)
(* result of an import (rpc.ts, the ids of `request` and the lookup of     *)
(* `receive`).                                                             *)
OwnAnswer == \A c \in Calls : got[c] \in {0, c}

(* Once the server is lost nobody waits: what was open is rejected, what   *)
(* is asked later is refused at once (rpc.ts, fail and send).              *)
NoneWaitsOnDead == dead => \A c \in 1 .. calls : settled[c] # "none"

(* The loss of the server is reported once, and only a loss nobody asked   *)
(* for: disposing is never reported (rpc.ts, fail).                        *)
CrashReported == crashes = IF dead /\ ~disposing THEN 1 ELSE 0

Underway(c) ==
    \/ \E i \in 1 .. Len(queue) : queue[i].call = c
    \/ \E i \in 1 .. Len(toServer) : toServer[i].kind = "request"
                                     /\ toServer[i].call = c

(* Disposing interrupts an operation the server was asked for only after    *)
(* `shutdown` went unanswered for its whole timeout: otherwise the signal  *)
(* finds the server idle (rpc.ts, dispose).                                *)
OrderlyStop ==
    [][disposed' /\ ~disposed /\ ~dead /\ settled[goodbye] # "cancelled"
           => \A c \in 1 .. goodbye - 1 : ~Underway(c)]_vars

(* A server the client lost or disposed of does not stay behind (rpc.ts,   *)
(* fail: "a broken input pipe can leave a live server").                   *)
NoOrphan == dead \/ disposing ~> gone

Contract == INSTANCE RpcContract WITH
    phase <- IF dead THEN "dead" ELSE IF disposing THEN "ending" ELSE "live",
    made <- calls,
    open <- {c \in 1 .. calls : settled[c] = "none"},
    crashed <- crashes > 0

(* The client keeps the contract the rest of the extension is written to.  *)
ImplementsContract == Contract!Spec
=============================================================================
