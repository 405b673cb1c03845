----------------------------- MODULE EffectJournal -----------------------------
(***************************************************************************)
(* What the journal of the managed worker is kept for: whoever finds it    *)
(* after the tool stopped, at any point, knows what may have been done to  *)
(* the cluster and to the database.  An effect is written down before it   *)
(* is asked for and takes place after it; nothing is begun while an effect *)
(* is unproved, nothing twice, and everything in its order.                *)
(*                                                                         *)
(* ManagedWorker implements it.                                            *)
(***************************************************************************)
CONSTANTS
    Effects,
    ByItself,      (* those that also happen when nobody asks for them     *)
    Requires       (* effect -> what is confirmed before it is begun       *)

VARIABLES
    intended, confirmed,     (* what the journal says                      *)
    sent,                    (* the effects asked for                      *)
    happened

vars == <<intended, confirmed, sent, happened>>

Init == intended = {} /\ confirmed = {} /\ sent = {} /\ happened = {}

Intend(e) ==
    /\ e \notin intended
    /\ intended \subseteq confirmed /\ Requires[e] \subseteq confirmed
    /\ intended' = intended \cup {e}
    /\ UNCHANGED <<confirmed, sent, happened>>

Ask(e) ==
    /\ e \in intended
    /\ sent' = sent \cup {e}
    /\ UNCHANGED <<intended, confirmed, happened>>

(* It takes place once, and for good.                                      *)
Happen(e) ==
    /\ e \in sent \cup ByItself /\ e \notin happened
    /\ happened' = happened \cup {e}
    /\ UNCHANGED <<intended, confirmed, sent>>

Confirm(e) ==
    /\ e \in happened
    /\ confirmed' = confirmed \cup {e}
    /\ UNCHANGED <<intended, sent, happened>>

Next == \E e \in Effects : Intend(e) \/ Ask(e) \/ Happen(e) \/ Confirm(e)

Spec == Init /\ [][Next]_vars
=============================================================================
