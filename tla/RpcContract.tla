------------------------------ MODULE RpcContract ------------------------------
(***************************************************************************)
(* What the extension relies on when it talks to an editor server through  *)
(* RpcClient (editors/vscode/src/rpc.ts): every request is settled, the    *)
(* end of the server settles all of them at once and is reported only when *)
(* nobody asked for it, and a client that is disposed of does end.         *)
(***************************************************************************)
EXTENDS Naturals

CONSTANTS MaxCalls     (* bound: requests made                             *)

VARIABLES
    phase,      (* "live", "ending" once disposed of, "dead"               *)
    made,       (* requests made                                           *)
    open,       (* those not settled yet                                   *)
    crashed     (* the end was reported to the owner                       *)

vars == <<phase, made, open, crashed>>

Init == phase = "live" /\ made = 0 /\ open = {} /\ crashed = FALSE

(* A dead client refuses at once, a live one may.                          *)
Make ==
    /\ made < MaxCalls
    /\ made' = made + 1
    /\ \/ phase # "dead" /\ open' = open \cup {made'}
       \/ open' = open
    /\ UNCHANGED <<phase, crashed>>

Settle(c) ==
    /\ c \in open
    /\ open' = open \ {c}
    /\ UNCHANGED <<phase, made, crashed>>

(* Disposing asks the server to shut down.                                 *)
Dispose ==
    /\ phase = "live"
    /\ phase' = "ending"
    /\ made' = made + 1
    /\ open' = open \cup {made'}
    /\ UNCHANGED crashed

End ==
    /\ phase # "dead"
    /\ phase' = "dead"
    /\ open' = {}
    /\ crashed' = (phase = "live")
    /\ UNCHANGED made

EndDisposed == phase = "ending" /\ End

Next == Make \/ Dispose \/ End \/ \E c \in 1 .. MaxCalls : Settle(c)

Spec == Init /\ [][Next]_vars /\ WF_vars(EndDisposed)
             /\ \A c \in 1 .. MaxCalls : WF_vars(Settle(c))
=============================================================================
