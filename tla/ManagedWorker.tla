---------------------------- MODULE ManagedWorker ----------------------------
(***************************************************************************)
(* The managed worker of crates/ibcmd-mssql-live, mssql_managed_worker.rs  *)
(* with its native runtime, as `drive` of src/mssql_managed_worker/cli.rs  *)
(* runs it: a cluster of its own is started, an infobase registered and    *)
(* loaded in it, the configuration published under its working process,    *)
(* the process replaced and everything stopped again.  A journal on disk   *)
(* tells what was about to be done and what was known to be done.          *)
(*                                                                         *)
(* Every effect outside the tool goes through the same steps: its intent   *)
(* is written and flushed, it is asked for, it comes back, it is written   *)
(* down as confirmed.  It may take place any time after it was asked for,  *)
(* also when the answer was an error or the tool is dead.  Whatever fails  *)
(* leaves the owner resident (`retained`): nothing is tried again, undone  *)
(* or cleaned up.  Processes start and end at any time; `foreign` stands   *)
(* for all that an observation refuses, another infobase, an unknown       *)
(* administrator, a journal that was touched.                              *)
(***************************************************************************)
EXTENDS Naturals

CONSTANTS
    Workers,       (* working processes, none of which starts twice        *)
    MaxDrift       (* bound: changes of what an observation refuses        *)

Anchors == {"agent", "ras"}
NoWorker == "no worker"

Effects == {"registration", "load", "sources", "stage", "commit",
            "handoff", "undo"}

ASSUME WorkerAssumption ==
    /\ Workers \intersect (Anchors \union Effects \union {NoWorker}) = {}
    /\ Workers \intersect {"replacement", "cold"} = {}
    /\ MaxDrift \in Nat

VARIABLES
    pc,            (* where the tool is                                    *)
    call,          (* the effect under way, or the process being stopped   *)
    journal,       (* the records on disk                                  *)
    tainted, stopped, admitted,     (* of ManagedWorker                    *)
    handles, proved,                (* processes retained for the stop,    *)
                                    (* and those known to have ended       *)
    original,                       (* the worker of the publication       *)
    publication, outcome, handoff,  (* how far it came, what was returned  *)
    alive, started,                 (* processes of the cluster            *)
    foreign, drifts,
    sent, happened                  (* history: effects asked for, and     *)
                                    (* those that took place               *)

owner == <<tainted, stopped, admitted>>
stop == <<handles, proved>>
result == <<publication, outcome, handoff>>
processes == <<alive, started>>
world == <<processes, foreign, drifts, happened>>
vars == <<pc, call, journal, owner, stop, original, result, world, sent>>

Processes == Anchors \union Workers
Subjects == Effects \union Processes \union {"replacement", "cold", "none"}

(* An effect is asked for, waited for, written down as confirmed.          *)
Steps == {"call", "wait", "confirm"}

Labels == Steps \union
    {"created", "registered", "loaded", "prepared", "staged", "committed",
     "handed", "returned", "shutdown", "census", "stop", "stopped", "cold",
     "known", "undone", "retained", "dead"}

Uncommitted == {"not started", "stage unproved", "staged"}
States == Uncommitted \union {"commit unproved", "committed"}

Init ==
    /\ pc = "created" /\ call = "none" /\ journal = {}
    /\ tainted = FALSE /\ stopped = FALSE /\ admitted = NoWorker
    /\ handles = {} /\ proved = {} /\ original = NoWorker
    /\ publication = "not started" /\ outcome = "none" /\ handoff = FALSE
    /\ alive = Anchors /\ started = {}
    /\ foreign = FALSE /\ drifts = 0
    /\ sent = {} /\ happened = {}

-----------------------------------------------------------------------------
(* The steps of every effect.                                              *)

(* Mutant: the effect is asked for first.                                  *)
IntendsUnwritten(e) == pc' = "call" /\ call' = e /\ UNCHANGED journal

(* A record is flushed before anything is asked for.                       *)
Intends(e) ==
    /\ pc' = "call" /\ call' = e
    /\ journal' = journal \union {<<e, "intent">>}

(* What an observation accepts: the anchors and at most one worker, and    *)
(* nothing it does not know.                                               *)
Observes(w) ==
    /\ ~tainted /\ ~stopped /\ ~foreign
    /\ alive = Anchors \union w

(* Mutant: the publication is uncertain only once something went wrong.    *)
AskedBlindly(e, state) == state

(* The state of the publication while the effect is under way, and after.  *)
Asked(e, state) == IF e = "commit" THEN "commit unproved" ELSE state

Settled(e, state) ==
    IF e = "stage" THEN "staged" ELSE IF e = "commit" THEN "committed"
    ELSE state

(* The runtime observes the worker once more before it turns it off, and   *)
(* signals no process that has ended.                                      *)
Call ==
    /\ pc = "call"
    /\ call = "handoff" => Observes({original})
    /\ call \in Processes => call \in alive
    /\ sent' = sent \union {call}
    /\ publication' = Asked(call, publication)
    /\ pc' = "wait"
    /\ UNCHANGED <<call, journal, owner, stop, original, outcome, handoff,
                   world>>

(* A process was waited for on its own handle.                             *)
Ended(e) == IF e \in Processes THEN e \notin alive ELSE e \in happened

Returns ==
    /\ pc = "wait" /\ Ended(call)
    /\ publication' = Settled(call, publication)
    /\ proved' = proved \union ({call} \intersect Processes)
    /\ pc' = "confirm"
    /\ UNCHANGED <<call, journal, owner, handles, original, outcome, handoff,
                   world, sent>>

After(e) ==
    CASE e = "registration" -> "registered"
      [] e = "load" -> "loaded"
      [] e = "sources" -> "prepared"
      [] e = "stage" -> "staged"
      [] e = "commit" -> "committed"
      [] e = "handoff" -> "handed"
      [] e = "undo" -> "undone"
      [] OTHER -> "stop"

Confirm ==
    /\ pc = "confirm"
    /\ journal' = journal \union {<<call, "confirmed">>}
    /\ pc' = After(call)
    /\ UNCHANGED <<call, owner, stop, original, result, world, sent>>

-----------------------------------------------------------------------------
(* Registration, load and publication.                                     *)

(* prepare: the sole worker is the one admitted before, if any.            *)
Prepares(w) ==
    /\ Observes({w}) /\ admitted \in {NoWorker, w}
    /\ admitted' = w

RegistrationIntent(w) ==
    /\ pc = "created" /\ Observes(w)
    /\ Intends("registration")
    /\ UNCHANGED <<owner, stop, original, result, world, sent>>

LoadIntent(w) ==
    /\ pc = "registered" /\ Observes(w)
    /\ Intends("load")
    /\ UNCHANGED <<owner, stop, original, result, world, sent>>

Loaded(w) ==
    /\ pc = "loaded" /\ Prepares(w)
    /\ pc' = "prepared"
    /\ UNCHANGED <<call, journal, tainted, stopped, stop, original, result,
                   world, sent>>

(* A source tree is staged under the owner first, if the command says so.  *)
SourceStageIntent(w) ==
    /\ pc = "prepared" /\ "sources" \notin sent
    /\ Prepares(w)
    /\ Intends("sources")
    /\ UNCHANGED <<tainted, stopped, stop, original, result, world, sent>>

StageIntent(w) ==
    /\ pc = "prepared" /\ Prepares(w)
    /\ original' = w
    /\ publication' = "stage unproved"
    /\ Intends("stage")
    /\ UNCHANGED <<tainted, stopped, stop, outcome, handoff, world, sent>>

CommitIntent ==
    /\ pc = "staged" /\ Prepares(original)
    /\ Intends("commit")
    /\ UNCHANGED <<tainted, stopped, stop, original, result, world, sent>>

HandoffIntent ==
    /\ pc = "committed" /\ Observes({original})
    /\ Intends("handoff")
    /\ UNCHANGED <<owner, stop, original, result, world, sent>>

HandsOver(w) ==
    /\ pc = "handed" /\ Observes({w})
    /\ journal' = journal \union {<<"replacement", "confirmed">>}
    /\ admitted' = w
    /\ outcome' = publication /\ handoff' = TRUE
    /\ pc' = "returned"
    /\ UNCHANGED <<call, tainted, stopped, stop, original, publication, world,
                   sent>>

(* Mutant: the command that returned is taken for a replacement.           *)
ReplacedByCommand(w) == HandsOver(w)

(* That the command returned proves nothing: another process must be seen. *)
Replaced(w) == w # original /\ HandsOver(w)

(* require_completed, after it the owner is shut down or retained.         *)
RequireCompleted ==
    /\ pc = "returned"
    /\ pc' = IF outcome = "committed" /\ handoff THEN "shutdown"
             ELSE "retained"
    /\ UNCHANGED <<call, journal, owner, stop, original, result, world, sent>>

-----------------------------------------------------------------------------
(* Shutdown.                                                               *)

ShutdownIntent(w) ==
    /\ pc = "shutdown" /\ Prepares(w)
    /\ journal' = journal \union {<<"cold", "intent">>}
    /\ pc' = "census"
    /\ UNCHANGED <<call, tainted, stopped, stop, original, result, world,
                   sent>>

(* The handles of all descendants are taken before any signal.             *)
StopBegins ==
    /\ pc = "census" /\ ~foreign /\ Anchors \subseteq alive
    /\ handles' = alive \ Anchors
    /\ pc' = "stop"
    /\ UNCHANGED <<call, journal, owner, proved, original, result, world,
                   sent>>

(* Mutant: a census looks for the retained processes only.                 *)
RetainedMembers == alive \intersect (Anchors \union handles)

(* The processes a census finds: those retained, those they started and    *)
(* those that name the root of this lifetime.                              *)
Members == alive

(* The agent, which starts the others, first; then ras, then the rest.     *)
Turn(p) ==
    CASE p = "agent" -> TRUE
      [] p = "ras" -> "agent" \in proved
      [] OTHER -> Anchors \subseteq proved /\ p \in handles

(* A census before each stop refuses a process nobody retained, and an     *)
(* anchor that ended by itself.                                            *)
CensusBefore(p) ==
    /\ pc = "stop" /\ Turn(p) /\ p \notin proved
    /\ Members \subseteq Anchors \union handles
    /\ Anchors \ proved \subseteq Members

StopIntent(p) ==
    /\ CensusBefore(p) /\ p \in alive
    /\ Intends(p)
    /\ UNCHANGED <<owner, stop, original, result, world, sent>>

NaturalExit(p) ==
    /\ CensusBefore(p) /\ p \notin alive
    /\ proved' = proved \union {p}
    /\ journal' = journal \union {<<p, "confirmed">>}
    /\ UNCHANGED <<pc, call, owner, handles, original, result, world, sent>>

(* require_cold.                                                           *)
Cold == Anchors \union handles \subseteq proved /\ Members = {}

AllStopped ==
    /\ pc = "stop" /\ Cold
    /\ stopped' = TRUE
    /\ pc' = "stopped"
    /\ UNCHANGED <<call, journal, tainted, admitted, stop, original, result,
                   world, sent>>

ColdConfirmed ==
    /\ pc = "stopped" /\ Cold
    /\ journal' = journal \union {<<"cold", "confirmed">>}
    /\ pc' = "cold"
    /\ UNCHANGED <<call, owner, stop, original, result, world, sent>>

(* The command asks the cold session once more and reports completion.     *)
RequireCurrent ==
    /\ pc = "cold" /\ ~tainted /\ Cold
    /\ pc' = "known"
    /\ UNCHANGED <<call, journal, owner, stop, original, result, world, sent>>

(* run_cold_transaction_once, which no command calls yet.                  *)
UndoIntent ==
    /\ pc = "cold" /\ ~tainted /\ Cold
    /\ Intends("undo")
    /\ UNCHANGED <<owner, stop, original, result, world, sent>>

-----------------------------------------------------------------------------
(* Failures, and what goes on around the tool.                             *)

Ends == {"returned", "known", "undone", "retained", "dead"}

(* Between the intent to stage and the answer to the caller.               *)
Publishing ==
    \/ pc \in {"staged", "committed", "handed"}
    \/ pc \in Steps /\ call \in {"stage", "commit", "handoff"}

(* A stop that was begun takes the authority to publish, however it ends.  *)
Stopping ==
    \/ pc \in {"census", "stop", "stopped"}
    \/ pc \in Steps /\ call \in Processes

(* An observation refuses, a command or a write of the journal fails, SQL  *)
(* answers with an error.  A publication is answered with its state,       *)
(* unless the journal cannot hold it either.                               *)
Fails ==
    /\ pc \notin Ends
    /\ tainted' = TRUE /\ stopped' = (stopped \/ Stopping)
    /\ \/ /\ Publishing
          /\ outcome' = publication /\ pc' = "returned"
       \/ pc' = "retained" /\ UNCHANGED outcome
    /\ UNCHANGED <<call, journal, admitted, stop, original, publication,
                   handoff, world, sent>>

Dies ==
    /\ pc # "dead"
    /\ pc' = "dead"
    /\ UNCHANGED <<call, journal, owner, stop, original, result, world, sent>>

Lands(e) ==
    /\ e \in sent /\ e \notin happened
    /\ happened' = happened \union {e}
    /\ UNCHANGED <<pc, call, journal, owner, stop, original, result,
                   processes, foreign, drifts, sent>>

(* The agent starts a worker whenever it sees fit.                         *)
WorkerStarts(w) ==
    /\ "agent" \in alive /\ w \notin started
    /\ alive' = alive \union {w} /\ started' = started \union {w}
    /\ UNCHANGED <<pc, call, journal, owner, stop, original, result, foreign,
                   drifts, happened, sent>>

(* Processes end on a signal, when they are turned off, or by themselves.  *)
ProcessEnds(p) ==
    /\ p \in alive
    /\ alive' = alive \ {p}
    /\ UNCHANGED <<pc, call, journal, owner, stop, original, result, started,
                   foreign, drifts, happened, sent>>

Drift ==
    /\ drifts < MaxDrift
    /\ drifts' = drifts + 1 /\ foreign' \in BOOLEAN
    /\ UNCHANGED <<pc, call, journal, owner, stop, original, result,
                   processes, happened, sent>>

Environment ==
    \/ \E e \in Effects : Lands(e)
    \/ \E w \in Workers : WorkerStarts(w)
    \/ \E p \in Processes : ProcessEnds(p)
    \/ Drift

Next ==
    \/ \E w \in {{}} \union {{v} : v \in Workers} :
            RegistrationIntent(w) \/ LoadIntent(w)
    \/ \E w \in Workers :
            \/ Loaded(w) \/ SourceStageIntent(w) \/ StageIntent(w)
            \/ Replaced(w) \/ ShutdownIntent(w)
    \/ CommitIntent \/ HandoffIntent \/ RequireCompleted
    \/ Call \/ Returns \/ Confirm
    \/ StopBegins \/ AllStopped \/ ColdConfirmed
    \/ \E p \in Processes : StopIntent(p) \/ NaturalExit(p)
    \/ RequireCurrent \/ UndoIntent
    \/ Fails \/ Dies
    \/ Environment

Spec == Init /\ [][Next]_vars

-----------------------------------------------------------------------------
(* What holds.                                                             *)

TypeOK ==
    /\ pc \in Labels /\ call \in Subjects
    /\ journal \subseteq Subjects \X {"intent", "confirmed"}
    /\ tainted \in BOOLEAN /\ stopped \in BOOLEAN
    /\ admitted \in Workers \union {NoWorker}
    /\ handles \subseteq Workers /\ proved \subseteq Processes
    /\ original \in Workers \union {NoWorker}
    /\ publication \in States /\ outcome \in States \union {"none"}
    /\ handoff \in BOOLEAN
    /\ alive \subseteq Processes /\ started \subseteq Workers
    /\ foreign \in BOOLEAN /\ drifts \in 0 .. MaxDrift
    /\ sent \subseteq Effects \union Processes /\ happened \subseteq Effects

(* Wherever the tool stopped, the journal tells of every effect that may   *)
(* have taken place or may still take place.                               *)
IntentFirst == \A e \in sent \union happened : <<e, "intent">> \in journal

(* What the journal confirms is so for good: effects took place, processes *)
(* ended, the worker that held the old configuration is gone, and after a  *)
(* cold shutdown nothing of the cluster runs or can start again.           *)
IsSo(e) ==
    CASE e = "replacement" -> original \notin alive
      [] e = "cold" -> alive = {}
      [] OTHER -> Ended(e)

ConfirmedIsSo ==
    \A e \in Subjects : <<e, "confirmed">> \in journal => IsSo(e)

(* A publication never answers less than what may have happened, not even  *)
(* when the transaction is committed after the error came back, nor more.  *)
OutcomeIsTrue ==
    /\ outcome \in Uncommitted => "commit" \notin sent \union happened
    /\ outcome = "committed" => "commit" \in happened

(* A command that reports completion published, replaced the worker and    *)
(* left nothing of its cluster; SQL is undone only in that state.          *)
KnownIsComplete ==
    /\ pc = "known" =>
            {"commit", "handoff"} \subseteq happened /\ alive = {}
    /\ "undo" \in sent => "commit" \in happened /\ alive = {}

(* The order of the command: nothing is published that was not loaded, and *)
(* no process is stopped before the worker was replaced.                   *)
Requires == [e \in Effects \union Processes |->
    CASE e = "registration" -> {}
      [] e = "load" -> {"registration"}
      [] e \in {"sources", "stage"} -> {"load"}
      [] e = "commit" -> {"stage"}
      [] e = "handoff" -> {"commit"}
      [] e = "agent" -> {"handoff"}
      [] e = "ras" -> {"agent"}
      [] OTHER -> Anchors]

Records(kind) == {e \in Effects \union Processes : <<e, kind>> \in journal}

Journal == INSTANCE EffectJournal WITH
    Effects <- Effects \union Processes,
    ByItself <- Processes,
    Requires <- Requires,
    intended <- Records("intent"),
    confirmed <- Records("confirmed"),
    sent <- sent,
    happened <- happened \union ((Anchors \union started) \ alive)

(* However the command ends, the journal was written ahead of every effect *)
(* and nothing was begun past one that was not confirmed (Journal::append, *)
(* the `retained` paths of mssql_managed_worker.rs).                       *)
ImplementsJournal == Journal!Spec
=============================================================================
