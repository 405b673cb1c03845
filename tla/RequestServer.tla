----------------------------- MODULE RequestServer -----------------------------
(***************************************************************************)
(* The editor server as its client sees it, between the pipes (what        *)
(* editors/vscode/src/rpc.ts relies on of `ibcmd-rs serve --stdio`,        *)
(* src/server/mod.rs): requests are answered one by one, in the order they *)
(* were read, each once and under its own id, up to the end of the process,*)
(* which it does not reach with a request unanswered unless it is killed.  *)
(*                                                                         *)
(* EditorServer implements it; RpcClient is written against it.            *)
(***************************************************************************)
EXTENDS Naturals, Sequences

CONSTANTS
    RequestMessages,   (* the requests its client may send                 *)
    Faults       (* whether the server may die by itself or answer what    *)
                 (* the protocol does not allow                            *)

VARIABLES
    queue,       (* requests it read and has not answered                  *)
    toClient,    (* answers the client has not read                        *)
    ending,      (* it reads no more                                       *)
    killed,      (* it was sent a signal, or a thread of it died           *)
    gone         (* the process does not exist any more                    *)

vars == <<queue, toClient, ending, killed, gone>>

(* A message names its request besides the id it travels under.            *)
Message(kind, id, call) == [kind |-> kind, id |-> id, call |-> call]

Init ==
    queue = << >> /\ toClient = << >> /\ ~ending /\ ~killed /\ ~gone

Accept(request) ==
    /\ ~gone /\ ~ending
    /\ queue' = Append(queue, request)
    /\ UNCHANGED <<toClient, ending, killed, gone>>

(* Nothing is promised of what a request is answered.                      *)
Answers == {"answered", "error"} \cup
               (IF Faults THEN {"invalid", "garbage"} ELSE {})

Answer ==
    /\ ~gone /\ queue # << >>
    /\ queue' = Tail(queue)
    /\ \E kind \in Answers :
          toClient' = Append(toClient,
                             Message(kind, Head(queue).id, Head(queue).call))
    /\ UNCHANGED <<ending, killed, gone>>

(* `exit`, or the end of the input.                                        *)
End ==
    /\ ~gone
    /\ ending' = TRUE
    /\ UNCHANGED <<queue, toClient, killed, gone>>

Stop ==
    /\ ~gone
    /\ killed \/ Faults \/ (ending /\ queue = << >>)
    /\ gone' = TRUE
    /\ UNCHANGED <<queue, toClient, ending, killed>>

(* An answer is read, or the signal sent.                                  *)
Client ==
    /\ \/ toClient' = toClient
       \/ toClient # << >> /\ toClient' = Tail(toClient)
    /\ killed' \in {killed, TRUE}
    /\ UNCHANGED <<queue, ending, gone>>

Next ==
    \/ \E request \in RequestMessages : Accept(request)
    \/ Answer \/ End \/ Stop \/ Client

Spec == Init /\ [][Next]_vars
=============================================================================
