------------------------------ MODULE LiveSwitch ------------------------------
(***************************************************************************)
(* The live activation of a staged configuration in an MSSQL database,     *)
(* src/mssql.rs and crates/ibcmd-mssql-live: a promotion in one            *)
(* transaction, then two cycles of SINGLE_USER, BACKUP LOG WITH            *)
(* NORECOVERY, RESTORE WITH RECOVERY and MULTI_USER that move open         *)
(* sessions to it.  With --live-checkpoint the second cycle is a           *)
(* continuation of its own, that `mssql-live-continue` can resume from the *)
(* artifact kept on disk; without it both cycles are one script.           *)
(*                                                                         *)
(* A run is one execution of a command: staging, an activation or a        *)
(* continuation.  An action is a statement, or a transaction, of the batch *)
(* a run sends: the runs, clients at work in the database, other programs  *)
(* and the administrator act between any two of them, and a run's client   *)
(* may die there.  Contents of the configuration are numbers, a new one    *)
(* for each staging, and a recovery snapshot is the pair of the content    *)
(* overwritten and the one published: the token is its digest.             *)
(***************************************************************************)
EXTENDS Naturals, Sequences

CONSTANTS
    Runs,          (* executions of the commands                           *)
    Tails,         (* paths given as --tail-log-output                     *)
    MaxContent,    (* bound: the contents staged                           *)
    MaxOutside     (* bound: the steps of programs outside the tool        *)

NoRun == "nobody"
NoPath == "none"

ASSUME LiveAssumption ==
    /\ MaxContent \in Nat \ {0} /\ MaxOutside \in Nat
    /\ NoRun \notin Runs /\ NoPath \notin Tails

VARIABLES
    config, stage,      (* contents of Config and of ConfigSave, 0: empty  *)
    newest,             (* the last content staged                         *)
    online, single,     (* not RESTORING; SINGLE_USER                      *)
    work,               (* some client has open work in the database       *)
    late,               (* runs that had made their last check for open    *)
                        (* work when it began                              *)
    log,                (* the log backups taken, the history of msdb      *)
    tail,               (* path -> the backup sets in the file             *)
    lock,               (* who holds the live application lock             *)
    recovery,           (* recovery snapshots on disk                      *)
    artifacts,          (* live artifacts on disk                          *)
    pc, kind, interrupt, plan, path, cycle, answer,     (* of each run     *)
    promoted,           (* history: the promotions committed               *)
    disturbed,          (* history: operations promoted before an outside  *)
                        (* program acted                                   *)
    outside             (* history: steps of outside programs              *)

database == <<config, stage, newest, online, single, work, late>>
backups == <<log, tail>>
disk == <<recovery, artifacts>>
run == <<pc, kind, interrupt, plan, path, cycle, answer>>
history == <<promoted, disturbed, outside>>
vars == <<database, backups, lock, disk, run, history>>

Contents == 0 .. MaxContent
Snapshots == [old : Contents, new : Contents]
NoPlan == [old |-> 0, new |-> 0]
Kinds == {"stage", "legacy", "checkpoint", "continue"}
Labels == {"idle", "stage", "recovery", "live", "guard", "promote", "single",
           "backup", "restore", "multi", "reconnect", "verify", "ready",
           "confirm", "done", "dead"}
Answers == {"none", "staged", "refused", "inspect", "complete",
            "already_complete"}

(* A log backup set: its name, and the file it was written to.             *)
LogSet(op, number, file) == [op |-> op, cycle |-> number, file |-> file]
Unnamed(file) == LogSet(NoPlan, 0, file)

Taken(op, number) ==
    \E i \in DOMAIN log : log[i].op = op /\ log[i].cycle = number

(* The operations with a cycle 1 in the backup history and no cycle 2.     *)
Pending == {op \in Snapshots : Taken(op, 1) /\ ~Taken(op, 2)}

Open == online /\ ~single

(* A single-user database that no session is in admits one.                *)
Usable(r) == online /\ (single => lock \in {r, NoRun})

Allowed(r) == interrupt[r] \/ ~work

Init ==
    /\ config = 0 /\ stage = 1 /\ newest = 1
    /\ online = TRUE /\ single = FALSE /\ work = FALSE /\ late = {}
    /\ log = << >> /\ tail = [t \in Tails |-> << >>]
    /\ lock = NoRun /\ recovery = {} /\ artifacts = {}
    /\ pc = [r \in Runs |-> "idle"]
    /\ kind = [r \in Runs |-> "stage"]
    /\ interrupt = [r \in Runs |-> FALSE]
    /\ plan = [r \in Runs |-> NoPlan]
    /\ path = [r \in Runs |-> NoPath]
    /\ cycle = [r \in Runs |-> 1]
    /\ answer = [r \in Runs |-> "none"]
    /\ promoted = {} /\ disturbed = {} /\ outside = 0

-----------------------------------------------------------------------------
Goto(r, label) == pc' = [pc EXCEPT ![r] = label]

Ends(r, how) ==
    /\ Goto(r, "done")
    /\ answer' = [answer EXCEPT ![r] = how]

(* The application lock is asked for with no wait.                         *)
Locks(r) == lock = NoRun /\ lock' = r

Unlocks(r) == lock' = IF lock = r THEN NoRun ELSE lock

(* Mutant: the script does not look for an unfinished operation.           *)
GuardedUnchecked(r) == Locks(r)

(* guard_pending_live.                                                     *)
Guarded(r) == Locks(r) /\ Pending = {}

-----------------------------------------------------------------------------
(* Staging of a source tree.                                               *)

StageGuard(r) ==
    /\ pc[r] = "idle" /\ newest < MaxContent
    /\ Usable(r) /\ Guarded(r)
    /\ Goto(r, "stage")
    /\ UNCHANGED <<database, backups, disk, kind, interrupt, plan, path,
                   cycle, answer, history>>

(* One transaction replaces ConfigSave.                                    *)
Stage(r) ==
    /\ pc[r] = "stage" /\ Usable(r) /\ newest < MaxContent
    /\ newest' = newest + 1 /\ stage' = newest + 1
    /\ Unlocks(r)
    /\ Ends(r, "staged")
    /\ UNCHANGED <<config, online, single, work, late, backups, disk, kind,
                   interrupt, plan, path, cycle, history>>

-----------------------------------------------------------------------------
(* Activation.                                                             *)

(* The plan is made from rows read outside any transaction.                *)
ReadInputs(r, mode, leave, file) ==
    /\ pc[r] = "idle" /\ Usable(r) /\ stage # 0
    /\ mode = "checkpoint" => Pending = {}
    /\ kind' = [kind EXCEPT ![r] = mode]
    /\ interrupt' = [interrupt EXCEPT ![r] = leave]
    /\ plan' = [plan EXCEPT ![r] = [old |-> config, new |-> stage]]
    /\ path' = [path EXCEPT ![r] = file]
    /\ Goto(r, "recovery")
    /\ UNCHANGED <<database, backups, lock, disk, cycle, answer, history>>

(* The recovery artifact, complete on disk or not there at all.            *)
WriteRecovery(r) ==
    /\ pc[r] = "recovery"
    /\ recovery' = recovery \union {plan[r]}
    /\ Goto(r, IF kind[r] = "checkpoint" THEN "live" ELSE "guard")
    /\ UNCHANGED <<database, backups, lock, artifacts, kind, interrupt, plan,
                   path, cycle, answer, history>>

(* The live artifact names the tail: the one on disk is never replaced.    *)
WriteLive(r) ==
    /\ pc[r] = "live" /\ Open
    /\ \A a \in artifacts : a.op = plan[r] => a.file = path[r]
    /\ artifacts' = artifacts \union {[op |-> plan[r], file |-> path[r]]}
    /\ Goto(r, "guard")
    /\ UNCHANGED <<database, backups, lock, recovery, kind, interrupt, plan,
                   path, cycle, answer, history>>

(* The head of the script: the lock, the database, no unfinished           *)
(* operation, the gate of the live switch.                                 *)
ScriptGuard(r) ==
    /\ pc[r] = "guard" /\ Usable(r)
    /\ Guarded(r)
    /\ kind[r] = "checkpoint" => Open
    /\ tail[path[r]] = << >>
    /\ Allowed(r)
    /\ Goto(r, "promote")
    /\ UNCHANGED <<database, backups, disk, kind, interrupt, plan, path,
                   cycle, answer, history>>

(* What the promotion compares with the plan: all of ConfigSave, the rows  *)
(* of Config it replaces, and again that nobody is at work.                *)
Current(r) == stage = plan[r].new /\ config = plan[r].old

Promotes(r) ==
    /\ pc[r] = "promote" /\ Usable(r)
    /\ config' = stage /\ stage' = 0
    /\ promoted' = promoted \union
            {[op |-> [old |-> config, new |-> stage], by |-> kind[r]]}
    /\ Goto(r, "single")
    /\ UNCHANGED <<newest, online, single, work, late, backups, lock, disk,
                   kind, interrupt, plan, path, cycle, answer, disturbed,
                   outside>>

(* Mutant: rows are not compared.                                          *)
PromoteAnything(r) == stage # 0 /\ Allowed(r) /\ Promotes(r)

(* Mutant: open work is not looked for again.                              *)
PromoteOverWork(r) == Current(r) /\ Promotes(r)

Promote(r) == Current(r) /\ Allowed(r) /\ Promotes(r)

-----------------------------------------------------------------------------
(* A cycle: the first one of either kind, the second one of a legacy       *)
(* script, and the one of a continuation.                                  *)

SingleUser(r) ==
    /\ pc[r] = "single" /\ Usable(r)
    /\ single' = TRUE /\ work' = FALSE /\ late' = {}
    /\ Goto(r, "backup")
    /\ UNCHANGED <<config, stage, newest, online, backups, lock, disk, kind,
                   interrupt, plan, path, cycle, answer, history>>

Taking(r) ==
    IF kind[r] = "legacy" THEN Unnamed(path[r])
    ELSE LogSet(plan[r], cycle[r], path[r])

(* Mutant: every backup starts its file anew.                              *)
InitFile(r) == <<Taking(r)>>

(* WITH INIT in the first cycle, WITH NOINIT in the second.                *)
FileAfter(r) ==
    IF cycle[r] = 1 THEN <<Taking(r)>> ELSE Append(tail[path[r]], Taking(r))

BackupLog(r) ==
    /\ pc[r] = "backup" /\ Usable(r)
    /\ log' = Append(log, Taking(r))
    /\ tail' = [tail EXCEPT ![path[r]] = FileAfter(r)]
    /\ online' = FALSE
    /\ Goto(r, "restore")
    /\ UNCHANGED <<config, stage, newest, single, work, late, lock, disk,
                   kind, interrupt, plan, path, cycle, answer, history>>

Restore(r) ==
    /\ pc[r] = "restore" /\ ~online
    /\ online' = TRUE
    /\ Goto(r, "multi")
    /\ UNCHANGED <<config, stage, newest, single, work, late, backups, lock,
                   disk, kind, interrupt, plan, path, cycle, answer, history>>

(* The database is opened again; a legacy script keeps the lock for its    *)
(* second cycle, the others end their batch.                               *)
MultiUser(r) ==
    /\ pc[r] = "multi" /\ Usable(r)
    /\ single' = FALSE
    /\ IF kind[r] = "legacy" /\ cycle[r] = 1
       THEN Goto(r, "reconnect") /\ UNCHANGED <<lock, answer>>
       ELSE /\ Unlocks(r)
            /\ IF kind[r] = "legacy" THEN Ends(r, "complete")
               ELSE /\ Goto(r, IF cycle[r] = 1 THEN "verify" ELSE "confirm")
                    /\ UNCHANGED answer
    /\ UNCHANGED <<config, stage, newest, online, work, late, backups, disk,
                   kind, interrupt, plan, path, cycle, history>>

(* A legacy script saw the 1C connections come back in time.               *)
Reconnected(r) ==
    /\ pc[r] = "reconnect" /\ Usable(r)
    /\ cycle' = [cycle EXCEPT ![r] = 2]
    /\ Goto(r, "single")
    /\ UNCHANGED <<database, backups, lock, disk, kind, interrupt, plan, path,
                   answer, history>>

-----------------------------------------------------------------------------
(* Continuation.                                                           *)

First(op, file) == LogSet(op, 1, file)
Second(op, file) == LogSet(op, 2, file)

(* The log goes on in the second set where the first one ended.            *)
Contiguous(op, file) ==
    \E i \in 2 .. Len(log) :
        log[i - 1] = First(op, file) /\ log[i] = Second(op, file)

(* Mutant: two sets are taken for a chain.                                 *)
ValidByNames(op, file) ==
    /\ Open
    /\ tail[file] \in {<<First(op, file)>>,
                       <<First(op, file), Second(op, file)>>}
    /\ stage = 0 /\ config = op.new

(* The file holds the first set of this operation, or a chain of both, and *)
(* the configuration it published is there untouched, with nothing staged. *)
Valid(op, file) ==
    /\ Open
    /\ \/ tail[file] = <<First(op, file)>>
       \/ /\ tail[file] = <<First(op, file), Second(op, file)>>
          /\ Contiguous(op, file)
    /\ stage = 0 /\ config = op.new

Finished(op, file) == Len(tail[file]) = 2

(* Nobody backed the log up since cycle 1.                                 *)
ChainEnds(op, file) == Len(log) > 0 /\ log[Len(log)] = First(op, file)

(* `mssql-live-continue` is given an artifact.                             *)
Resume(r, a, leave) ==
    /\ pc[r] = "idle" /\ Open
    /\ kind' = [kind EXCEPT ![r] = "continue"]
    /\ interrupt' = [interrupt EXCEPT ![r] = leave]
    /\ plan' = [plan EXCEPT ![r] = a.op]
    /\ path' = [path EXCEPT ![r] = a.file]
    /\ Goto(r, "verify")
    /\ UNCHANGED <<database, backups, lock, disk, cycle, answer, history>>

(* The state is asked for first, with the lock held for that batch only.   *)
Verify(r) ==
    /\ pc[r] = "verify" /\ lock = NoRun /\ Valid(plan[r], path[r])
    /\ IF Finished(plan[r], path[r]) THEN Ends(r, "already_complete")
       ELSE Goto(r, "ready") /\ UNCHANGED answer
    /\ UNCHANGED <<database, backups, lock, disk, kind, interrupt, plan, path,
                   cycle, history>>

(* Mutant: the lock of the first check is relied on.                       *)
ContinuesUnlocked(r) ==
    /\ lock = NoRun /\ UNCHANGED lock
    /\ cycle' = [cycle EXCEPT ![r] = 2]
    /\ Goto(r, "single")

(* The batch takes the lock again, for the whole cycle.                    *)
Continues(r) ==
    /\ Locks(r)
    /\ cycle' = [cycle EXCEPT ![r] = 2]
    /\ Goto(r, "single")

(* The batch of cycle 2 checks all of it again under the lock it keeps.    *)
ContinueGuard(r) ==
    /\ pc[r] = "ready" /\ Valid(plan[r], path[r])
    /\ ~Finished(plan[r], path[r])
    /\ Allowed(r) /\ ChainEnds(plan[r], path[r])
    /\ Continues(r)
    /\ UNCHANGED <<database, backups, disk, kind, interrupt, plan, path,
                   answer, history>>

(* Another continuation came first: the batch finds two sets.              *)
FindsFinished(r) ==
    /\ pc[r] = "ready" /\ lock = NoRun /\ Valid(plan[r], path[r])
    /\ Finished(plan[r], path[r])
    /\ Goto(r, "confirm")
    /\ UNCHANGED <<database, backups, lock, disk, kind, interrupt, plan, path,
                   cycle, answer, history>>

(* Completion is reported from a last look at the state.                   *)
Confirm(r) ==
    /\ pc[r] = "confirm" /\ lock = NoRun /\ Valid(plan[r], path[r])
    /\ Finished(plan[r], path[r])
    /\ Ends(r, IF cycle[r] = 2 THEN "complete" ELSE "already_complete")
    /\ UNCHANGED <<database, backups, lock, disk, kind, interrupt, plan, path,
                   cycle, history>>

-----------------------------------------------------------------------------
(* Refusals, errors and the death of the client.                           *)

(* What a process knew goes with it.                                       *)
Forgets(r) ==
    /\ kind' = [kind EXCEPT ![r] = "stage"]
    /\ interrupt' = [interrupt EXCEPT ![r] = FALSE]
    /\ plan' = [plan EXCEPT ![r] = NoPlan]
    /\ path' = [path EXCEPT ![r] = NoPath]
    /\ cycle' = [cycle EXCEPT ![r] = 1]

(* The CATCH of a batch opens the database again unless it is RESTORING:   *)
(* that of a legacy script always, the others if they had closed it.       *)
Reopens(r) ==
    /\ lock = r /\ online
    /\ \/ pc[r] \in {"backup", "multi"}
       \/ kind[r] = "legacy" /\ pc[r] \in {"single", "reconnect"}

(* A check refuses or a statement raises an error.                         *)
Fails(r) ==
    /\ pc[r] \notin {"idle", "done", "dead"}
    /\ single' = (single /\ ~Reopens(r))
    /\ Unlocks(r)
    /\ Ends(r, IF pc[r] \in {"stage", "recovery", "live"} THEN "refused"
               ELSE "inspect")
    /\ Forgets(r)
    /\ UNCHANGED <<config, stage, newest, online, work, late, backups, disk,
                   history>>

(* The server ends the session: the batch stops where it is, its           *)
(* transaction is rolled back and its lock goes; nothing is cleaned up.    *)
Dies(r) ==
    /\ pc[r] \notin {"idle", "done", "dead"}
    /\ Unlocks(r)
    /\ Goto(r, "dead")
    /\ Forgets(r)
    /\ UNCHANGED <<database, backups, disk, answer, history>>

-----------------------------------------------------------------------------
(* The administrator, the clients of the database, other programs.         *)

(* RESTORE DATABASE ... WITH RECOVERY, as the error message asks.          *)
AdministratorRestores ==
    /\ ~online /\ lock = NoRun
    /\ online' = TRUE
    /\ UNCHANGED <<config, stage, newest, single, work, late, backups, lock,
                   disk, run, history>>

AdministratorOpens ==
    /\ online /\ single /\ lock = NoRun
    /\ single' = FALSE
    /\ UNCHANGED <<config, stage, newest, online, work, late, backups, lock,
                   disk, run, history>>

(* Runs past the check that nobody is at work, with a switch before them.  *)
Checked == {r \in Runs : pc[r] \in {"single", "backup", "restore", "multi",
                                    "reconnect"}}

WorkBegins ==
    /\ Open /\ ~work
    /\ work' = TRUE /\ late' = Checked
    /\ UNCHANGED <<config, stage, newest, online, single, backups, lock, disk,
                   run, history>>

WorkEnds ==
    /\ work
    /\ work' = FALSE /\ late' = {}
    /\ UNCHANGED <<config, stage, newest, online, single, backups, lock, disk,
                   run, history>>

Outside ==
    /\ Open /\ outside < MaxOutside
    /\ outside' = outside + 1
    /\ disturbed' = disturbed \union {p.op : p \in promoted}
    /\ UNCHANGED <<online, single, work, late, lock, disk, run, promoted>>

(* A scheduled log backup.                                                 *)
OutsideBackup ==
    /\ Outside
    /\ log' = Append(log, Unnamed(NoPath))
    /\ UNCHANGED <<config, stage, newest, tail>>

(* A designer, or a command without the guard, fills ConfigSave.           *)
OutsideStage ==
    /\ Outside /\ newest < MaxContent
    /\ newest' = newest + 1 /\ stage' = newest + 1
    /\ UNCHANGED <<config, backups>>

(* ... or applies what is staged, with no live switch.                     *)
OutsideApply ==
    /\ Outside /\ stage # 0
    /\ config' = stage /\ stage' = 0
    /\ UNCHANGED <<newest, backups>>

Environment ==
    \/ AdministratorRestores \/ AdministratorOpens
    \/ WorkBegins \/ WorkEnds
    \/ OutsideBackup \/ OutsideStage \/ OutsideApply

Step(r) ==
    \/ StageGuard(r) \/ Stage(r)
    \/ \E mode \in {"legacy", "checkpoint"}, leave \in BOOLEAN, t \in Tails :
            ReadInputs(r, mode, leave, t)
    \/ WriteRecovery(r) \/ WriteLive(r)
    \/ ScriptGuard(r) \/ Promote(r)
    \/ SingleUser(r) \/ BackupLog(r) \/ Restore(r) \/ MultiUser(r)
    \/ Reconnected(r)
    \/ \E a \in artifacts, leave \in BOOLEAN : Resume(r, a, leave)
    \/ Verify(r) \/ ContinueGuard(r) \/ FindsFinished(r) \/ Confirm(r)
    \/ Fails(r) \/ Dies(r)

Next == Environment \/ \E r \in Runs : Step(r)

Spec == Init /\ [][Next]_vars

-----------------------------------------------------------------------------
(* What holds.                                                             *)

TypeOK ==
    /\ config \in Contents /\ stage \in Contents /\ newest \in Contents
    /\ online \in BOOLEAN /\ single \in BOOLEAN
    /\ work \in BOOLEAN /\ late \subseteq Runs
    /\ log \in Seq([op : Snapshots, cycle : 0 .. 2,
                    file : Tails \union {NoPath}])
    /\ \A t \in Tails : tail[t] \in
            Seq([op : Snapshots, cycle : 0 .. 2, file : Tails])
    /\ lock \in Runs \union {NoRun}
    /\ recovery \subseteq Snapshots
    /\ artifacts \subseteq [op : Snapshots, file : Tails]
    /\ pc \in [Runs -> Labels] /\ answer \in [Runs -> Answers]
    /\ kind \in [Runs -> Kinds] /\ interrupt \in [Runs -> BOOLEAN]
    /\ plan \in [Runs -> Snapshots]
    /\ path \in [Runs -> Tails \union {NoPath}]
    /\ cycle \in [Runs -> 1 .. 2]
    /\ promoted \subseteq [op : Snapshots, by : Kinds]
    /\ disturbed \subseteq Snapshots /\ outside \in 0 .. MaxOutside

(* The second named set of an operation follows its first one, in the same *)
(* file and with no other backup of the tool between them, and neither was *)
(* ever taken twice: no two runs carry out the same cycle.                 *)
CyclesPaired ==
    \A i \in DOMAIN log :
        /\ log[i].cycle = 2 =>
                \E j \in 1 .. i - 1 :
                    /\ log[j] = [log[i] EXCEPT !.cycle = 1]
                    /\ \A k \in j + 1 .. i - 1 : log[k] = Unnamed(NoPath)
        /\ log[i].cycle # 0 =>
                \A j \in DOMAIN log : log[i].op = log[j].op
                        /\ log[i].cycle = log[j].cycle => i = j

(* A promotion that was committed has on disk what undoes it, the content  *)
(* it really overwrote, and one made with a checkpoint also what continues *)
(* it: wherever the client died.                                           *)
PromotedIsRecoverable ==
    \A p \in promoted :
        /\ p.op \in recovery
        /\ p.by = "checkpoint" => \E a \in artifacts : a.op = p.op

(* No run of the tool puts an unfinished operation where it cannot be      *)
(* continued any more: once the database is open again, an artifact on     *)
(* disk is accepted, unless a program outside the tool acted since the     *)
(* promotion.                                                              *)
PendingCanContinue ==
    Open /\ lock = NoRun =>
        \A op \in Pending \ disturbed : \E a \in artifacts :
            /\ a.op = op /\ Valid(op, a.file) /\ ChainEnds(op, a.file)

(* A switch nobody allowed to interrupt rolls back no work that was open   *)
(* when its promotion, or the guard of its continuation, went through.     *)
WorkSpared ==
    [][\A r \in Runs :
            pc[r] = "single" /\ pc'[r] = "backup" /\ work
                => interrupt[r] \/ r \in late]_vars

(* Completion is reported of operations with both their sets in the log,   *)
(* next to each other, and "already complete" by runs that did not take    *)
(* the second one.                                                         *)
AnswersAreTrue ==
    \A r \in Runs :
        kind[r] # "legacy" /\ answer[r] \in {"complete", "already_complete"} =>
            /\ Contiguous(plan[r], path[r])
            /\ answer[r] = "complete" <=> cycle[r] = 2

(* The log backups the tool took, which the chain of the database needs    *)
(* from then on, are all in their files.                                   *)
LogKept ==
    \A i \in DOMAIN log : log[i].file # NoPath =>
        \E j \in DOMAIN tail[log[i].file] : tail[log[i].file][j] = log[i]

(* Every way through the two commands is one of these.                     *)
Operations == INSTANCE LiveOperations WITH
    Versions <- Contents,
    published <- {p.op : p \in promoted},
    unfinished <- Pending,
    complete <- {op \in Snapshots : Taken(op, 2)},
    told <- {plan[r] : r \in {q \in Runs : /\ kind[q] # "legacy"
                                          /\ answer[q] \in {"complete",
                                                            "already_complete"}}}

(* Runs that stage, activate, continue, fail and die between each other's  *)
(* statements do to the operations of the database what LiveOperations     *)
(* allows and no more (guard_pending_live, mssql_live_continue.rs).        *)
ImplementsOperations == Operations!Spec
=============================================================================
