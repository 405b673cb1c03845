# TLA+ models of ibcmd-rs

`ibcmd-rs` reads and writes 1C:Enterprise infobases without the platform. Most
of the repository converts data (metadata XML, forms, templates, stored rows)
in one thread. This project models the parts where steps of several actors
meet: processes that write one file infobase, the threads of the editor server,
the overlapping commands of the VS Code extension that starts it, the commands that
switch a live MSSQL database to a new configuration or do so under a cluster of
their own, and what crashes, failed calls, timeouts and late answers leave
behind.

## Inventory

| Part | State it keeps | Operations | What makes it hard | What makes it correct |
|---|---|---|---|---|
| File infobase publication (`crates/ibcmd-filedb`: `lib.rs`, `write_paths.rs`, `lock.rs`) | four directory entries (`1Cv8.1CD`, `.ibcmd-rs.work`, `.ibcmd-rs.bak.new`, `.ibcmd-rs.bak`), OS locks, the descriptors of a session | open for write, `replace*`, `publish_files` | writers, the platform and administrators interleave; crash or power cut between any two calls; each call may fail | the database is always whole; no update lost; the replaced version recoverable; nobody touches another's files |
| File infobase format (`blob.rs`, `object.rs`, `pager.rs`, `config.rs`, `index.rs`) | pages, object tables, chains of blocks, free lists | read and append chains, rewrite objects, replace records | sequential, boundary cases | what was written is read back, no page belongs to two objects |
| File import plan (`src/file_import.rs`) | a plan: target, fingerprint of the data file, held source tree, compiled rows | `prepare*`, `publish*` | target, source and connection change between preflight and confirmation; cancellation races publication | only what was confirmed is published, the result says whether it was |
| Editor server (`src/server`) | queue, flags by request id, sessions, prepared plans, connection epoch, `shutdown` | one method per request, `$/cancelRequest`, `exit` | two threads; ids reused; requests pipelined; panics | each request answered once, cancellation reaches the right one, the process ends |
| Cancellation and engine lock (`crates/ibcmd-cancel`) | the process-wide current flag, one mutex | `scope`, `check`, `exclusive` | flag set at any moment | see the server |
| Editor client (`editors/vscode/src/rpc.ts`) | waiting requests by id, `dead`, `disposing`, the server process | request, cancel, timeout, receive, fail, dispose | late answers, a dying server, a broken pipe, disposal during requests | each promise is settled, by its own answer if by any; a loss is reported once; no server is left behind |
| Connections of the extension (`extension.ts`) | `client`, `selected`, `activeSettings`, the generation, the status bar | select, reload, lose, follow the settings file | commands overlap at their awaits | the last choice wins, what is shown is true, no server without a user |
| Import command of the extension (`extension.ts`, `import.ts`) | the connection and settings it began with | check, prepare, confirm, publish, show | everything may change during a check, a request or a question | published only over the connection and settings the user confirmed |
| MCP adapter (`src/mcp.rs`) | permit, invalidation, pinned identities | `call_tool` | dropped and cancelled calls while a blocking worker runs | a cancelled call did not publish; nothing after a publication |
| Object cache (`src/stored_objects.rs`) | inventory and files of an open infobase | tree, status, export, read | the infobase changes under the cache | what is served is what is stored |
| MSSQL live activation (`src/mssql.rs`, `crates/ibcmd-mssql-live`) | recovery and live artifacts on disk; in the server Config, ConfigSave, access, log backups, an application lock | stage, activate, continue | clients at work, scheduled backups, designers and other runs between any two statements; the tool may die at each | an operation is completed once or refused, what was overwritten can be undone, no log backup is lost, completion is reported only of what happened |
| Managed worker (`crates/ibcmd-mssql-live/src/mssql_managed_worker*`, `src/mssql_managed_worker/cli.rs`) | an append-only journal, handles of processes, the state of the publication | register, load, stage, publish, hand over, shut down, undo | lost answers, effects that land late, processes that start and end by themselves | the journal tells of an effect before it can happen and confirms only what is so; no answer says less than what was committed; a cluster reported cold is gone |
| Configuration apply, restructure, dynamic generations | generated SQL, plans | one transaction per apply | order of phases | rows and tables agree |
| Parallel map (`crates/ibcmd-parallel`) | sizes of rayon's pools | configure | none of its own | the options are obeyed |
| Compilers, readers, containers, CLI, settings, views | none shared | conversions | sequential | covered by the repository's oracles |

The editor extension spawns the server and talks JSON-RPC to it over pipes; the
server's worker calls `file_import`, which opens a write session of
`ibcmd-filedb`; the MCP adapter and the command line call the same functions.
The platform opens the same data file and is kept out by the operating system's
lock.

## Modules

| Module | Models | Source |
|---|---|---|
| `FileDbPublish` | the publication protocol | `ibcmd-filedb` |
| `InfobaseStore` | what it promises: an infobase is a current version and the versions kept | - |
| `MCFileDbPublish` | instances for TLC | - |
| `FileDbPublish_proofs` | theorems about `FileDbPublish` | - |
| `FileDbRecovery_proofs` | theorems about what a write leaves behind, and the refinement of `InfobaseStore` | - |
| `EditorServer` | reader, worker, requests, the two-step import | `src/server`, `src/file_import.rs`, `ibcmd-cancel` |
| `MCEditorServer` | instances for TLC | - |
| `EditorServer_proofs` | theorems about `EditorServer` | - |
| `RequestServer` | what it promises a client: answers in order, one each, all before it ends | `src/server` |
| `RpcContract` | what the extension relies on: requests settled, ends reported | - |
| `RpcClient` | the client of the editor server, beside a `RequestServer`; shown to implement `RpcContract` | `rpc.ts` |
| `RpcClient_proofs` | theorems about `RpcClient` | - |
| `Connections` | the commands that select, reload and lose a connection | `extension.ts`, `status.ts` |
| `Connections_proofs` | theorems about `Connections` | - |
| `ImportCommand` | the import beside the commands of `Connections`, which it extends | `extension.ts`, `import.ts` |
| `ImportCommand_proofs` | theorems about `ImportCommand`, on those of `Connections_proofs` | - |
| `LiveSwitch` | staging, live activation and its continuation | `src/mssql.rs`, `ibcmd-mssql-live` |
| `LiveOperations` | what it promises an operator: one pending operation at a time, begun and completed once | - |
| `MCLiveSwitch` | instances for TLC | - |
| `LiveSwitch_proofs` | theorems about `LiveSwitch` | - |
| `ManagedWorker` | the cluster the tool owns, from registration to shutdown | `mssql_managed_worker*`, `cli.rs` |
| `EffectJournal` | what it promises whoever reads its journal after it stopped | - |
| `MCManagedWorker` | an instance for TLC | - |
| `ManagedWorker_proofs` | theorems about `ManagedWorker` | - |

The modules stack as the program does: `ImportCommand` uses the connections of
`Connections`; a server there has the phases of `RpcContract`, which
`RpcClient` is shown to implement; the server `RpcClient` talks to is a
`RequestServer`, which `EditorServer` is shown to implement, so the two sides
of the pipe are joined by one specification; and the publication at the end of
an import in `EditorServer` is one session of `FileDbPublish`. `LiveSwitch` and
`ManagedWorker` are two other ways to publish, of one database server each, and
share nothing with these but the staging.

### FileDbPublish

A file is a number (an inode) and its body the number of a version of the
database; `dir` maps the four names to files. Each writer runs one session at a
time, `pc` names what it has just done, and each system call or check that
another process can observe is an action:

| Code | Actions |
|---|---|
| `WritePaths::open_locked` | `OpenData`, `LockData`, `RequireBinding` |
| guard and index checks of `open_for_write_budget`, a caller that gives up | `EndUnwritten` |
| `replace_guarded`: binding, `create_new` | `CreateWork` |
| `write_copy` | `WriteCopy`, `WriteCopyFails` |
| `check_binding`, `prepare_backup_file` | `CheckBinding`, `LinkBackup`, `LinkFails`, `RequireLinkLeaf`, `CreateBackup`, `CreateBackupFails`, `CopyBackup`, `CopyBackupFails` |
| the final closure of `replace_guarded` | `FinalCheck` |
| `publish_files` | `RenameData`, `RenameDataFails`, `RenameBackup`, `RenameBackupFails` (`Error::Published`) |
| `paths.sync`, `drop(file)`, the report | `SyncAndReport` |
| the error paths | `UndoBackup`, `DropWork`, `DropWorkFirst`, `DropBackup` |

`CreateWork` takes the binding check (lib.rs:556) and the creation (lib.rs:565)
as one step: a replacement between the two has the same effect as one after
both, which the later checks meet. The check that a failed `CreateWork` makes
(a stale work file) is the same step. The surroundings are a platform user who
opens, edits and closes the database under the lock, an administrator who
replaces the file without a lock, an operator who does what the refusals ask
for, crashes of a writer and power cuts. After a power cut the directory is
one of those it had since the last sync (`past`). The protocol is that of Unix;
Windows closes the descriptor before the rename and is not modelled. `rename`
onto another link of the same file, which does nothing, does not occur here:
the recovery name and the backup never lead to one file.

### EditorServer

Requests are numbered as they are read; `jobs`, `queued` and `cur` are the
queue between the reader and the worker, `inFlight` the map of ids to flags,
`flag` the flags that are set. Registering a request and queueing it are two
steps of the reader (mod.rs:219 and 229), unregistering and answering are two
steps of the worker (290 and 294). The import is split where something else
can happen: `PrepareOpens`/`PrepareEnds` around the compilation under the lock,
`ImportTakesPlan`, `PublishOpens` (lock and fingerprint), `PublishChecks` (the
last look at the source and the flag), `Commit`/`CommitFails`. A database is
the number of its version; the platform changes it whenever the server does not
hold its lock. `Fail` stands for every error, panic and cancellation of an
operation. Messages that are not requests and the infobase list are left out:
they change no state. The files of a session are opened on demand and closed at
`shutdown`; a session that cannot be opened is a `Fail`.

`ImplementsServer` maps all this to `RequestServer`, the process between its
pipes: the queue is the jobs not answered yet, the answers are those given, it
ends when the reader stops reading, and it is gone when the process exits. No
fault is admitted there: only a thread that died excuses an exit with a request
left.

### RpcClient

Requests are numbered as they are made, apart from the ids they travel under
(`sequence`): a request aborted before it is sent takes no id. `waiting` is the
map of the code, `settled` says how a promise was settled and `got` which
request's answer it was given, so that a mix-up is visible. Each callback is an
action: `Request`, `RequestAborted`, `GiveUp` (timer or abort signal),
`Receive`, `SeesExit`, `PipeBreaks`, `Dispose` and its continuation
`DisposeGoesOn`; they share `Fail`. A message is received whole; a frame that
cannot be read is the message `garbage`. `exit` stands for the notification and
for the end of the input, which the server treats alike. A kill is a signal
the server follows later (`killed`, `ServerStops`). The other end of the pipes
is an instance of `RequestServer`, whose actions the server's steps here are;
with `Faults` it may also die by itself and send what the protocol does not
allow.

### Connections

`at` is the await a command is suspended at and `stamp` the generation it
started; every continuation asks `Current`, as the code does. `switchTo` is
`SwitchTo`, `PreviousEnded`, `ReadsSettings`, `SettingsRead`, `Asked`, `Spawn`,
`Started` or `StartFails`, `Connected` or `Storing` and `Stored`, `Done`, and
`Catch` with its reasons in `Throws`; `ibcmd.refresh` is `Reload`,
`ReloadGoesOn`, `Listed`, `NotListed`; `invalidate` is part of the steps that
call it. The server a command starts has the command's number. The settings
file is the number of its text; the watcher's event (`Reported`) and its
reading (`ReportRead`, `ReportFails`) are separate steps, and the server reads
the file by itself (`ServerReads`). Continuations of promises that are already
settled are steps of their own here, which allows more interleavings than the
event loop does. One workspace folder; the choice of the infobase and the
listing for it happen before `Select`.

### ImportCommand

`began` is what `importFiles` captures: client, generation, selection and
settings. Every `check` is three steps: the comparison that may refuse at once
(`CheckBefore`), the reading of the settings (`CheckReads`), and the comparison
after it (`CheckPasses`, `CheckFails`). `stage` is the request or the question
that follows. `PendingFails` is the `catch` that compares the connection
without the settings.

### LiveSwitch

A run is one execution of a command: it stages a configuration, activates the
staged one with (`checkpoint`) or without (`legacy`) a live checkpoint, or
continues an interrupted activation (`continue`). `pc` is the statement it will
send next. Contents are numbers, a new one for each staging; a recovery
snapshot is the pair of the content overwritten and the one published, which is
what the token is a digest of.

| Code | Actions |
|---|---|
| staging SQL with `guard_pending_live` | `StageGuard`, `Stage` |
| `read_activation_inputs`, the artifacts of `activate_staged_main_verified_inner` | `ReadInputs`, `WriteRecovery`, `WriteLive` |
| the script: lock, gate, promotion in one transaction | `ScriptGuard`, `Promote` |
| `render_live_recovery`, one cycle | `SingleUser`, `BackupLog`, `Restore`, `MultiUser`, `Reconnected` |
| `mssql-live-continue`: the pinned artifact, the status, the second cycle, the confirmation | `Resume`, `Verify`, `ContinueGuard`, `FindsFinished`, `Confirm` |
| a refused statement, the death of the client | `Fails`, `Dies` |
| clients, a scheduled log backup, designers, the administrator | `WorkBegins`, `WorkEnds`, `OutsideBackup`, `OutsideStage`, `OutsideApply`, `AdministratorRestores`, `AdministratorOpens` |

The two reads of the plan are one step, because the promotion compares both
again. Left out: a plan that changes nothing, the markers of dynamic updates,
the readiness of a cluster, and the modes online, exclusive and worker. Three
things the code accepts are in the model and shape its properties. A log backup
by somebody else between the last check and BACKUP LOG of cycle 2 makes the
sets not follow each other; the confirmation then refuses for ever, as
docs/apply/online-activation.md:705 says ("An intervening log backup refuses
append"), so `PendingCanContinue` speaks of operations no outside program
disturbed. Work that begins after the commit of the promotion, or after the
check of a continuation, is rolled back; `WorkSpared` excepts exactly that
window. An administrator may finish the access of the database by hand.

`ImplementsOperations` maps the runs to `LiveOperations`: an operation is
published by the commit of its promotion, begun by the log backup of its first
cycle, completed by that of its second and told complete by an answer. A
promotion without a checkpoint is an operation that is never begun.

### ManagedWorker

`pc` is where the tool is, `call` the effect under way. Each effect takes the
same steps: `Intends` (the record of its intent is flushed), `Call` (it is asked
for), `Returns` or a failure, `Confirm` (the record that it is so). An effect
asked for may land (`Lands`) before or after its answer, also when the answer
was an error or the tool is dead. `create` leads to `Init`; `RegistrationIntent`,
`LoadIntent`, `SourceStageIntent`, `StageIntent`, `CommitIntent` and
`HandoffIntent` begin the effects of `register_and_load`, `stage_source` and
`publish_and_handoff`; `HandsOver` and `Replaced` are the observation of the
worker that takes over; `ShutdownIntent`, `StopBegins`, `Turn`, `StopIntent`,
`NaturalExit`, `AllStopped` and `ColdConfirmed` are the owned stop, process by
process; `UndoIntent` is the cold session. `Fails` keeps the owner resident
(`retained`), `Dies` ends the tool.

The working processes start and end at any time; `foreign` stands for all that
an observation refuses. The bootstrap of the cluster, the authentication of its
administrator and the switch of a worker of a foreign cluster are left out, and
so are the records of failures and the plan that changes nothing. When the
journal itself fails while an unproved publication is being answered, the state
is lost to the caller and the owner stays resident; the comment at
src/src/mssql.rs:1342 speaks of a confirmed COMMIT that is preserved, so the
model has this as an answer never given. The undo of a cold session is modelled
though no command runs it yet.

`ImplementsJournal` maps the journal, the effects asked for and what took place
to `EffectJournal`. A working process that ended is an effect that took place;
it may also take place by itself. `Requires` is the order the code begins its
effects in.

## Runs

| Run | Instance | Shows |
|---|---|---|
| `FileDbPublish` | 2 writers, 1 user, 5 files, 4 versions, 2 upsets | safety with unlocked replacements and power cuts: every directory the disk may hold is whole, recoverable and durable |
| `FileDbPublishRefine` | nobody around the lock, no power cut | the protocol implements `InfobaseStore`, and every session ends |
| `EditorServer` | 2 ids, 3 requests, faults; no imports | registration and sweep, answers and exit, `RequestServer` implemented |
| `EditorImport` | 2 infobases, 4 requests, 2 versions, 1 edit of the source | answers, publications and the life of the prepared plans |
| `EditorExitCode` | expects a violation | `exit` cancels a queued `shutdown`; exit code 1 against the doc |
| `EditorSharedIds` | expects a violation | the sweep misses a request whose id was used again |
| `RpcClient` | 3 requests, faults | own answers, loss reported once, orderly disposal, no orphan, `RpcContract` implemented with its fairness (every request is settled) |
| `Connections` | 2 infobases, 3 events | selection, status and servers under overlapping commands and changes; connecting ends |
| `ConnectionsReverted` | expects a violation (`SettingsReturn`) | a change undone before the watcher reads it leaves a connection on other settings |
| `ImportCommand` | 1 infobase, 3 events and an import | what is published and shown is of the connection confirmed, under its settings; the settings file is followed |
| `LiveSwitch` | 3 runs, 2 paths, 3 contents, 1 outside step | cycles paired, promotions recoverable, pending operations continued, answers true, the log kept, work spared, `LiveOperations` implemented |
| `ManagedWorker` | 3 workers, 2 drifts | confirmations and answers true, a shutdown complete, `EffectJournal` implemented |

Bounds. `MaxFiles` = 5 lets two sessions create a work file and a copied backup
beside the first database, or one session run after the residue of another;
`MaxVersion` = 4 two publications around a platform edit and a replacement;
`MaxUpsets` a crash during the repair of a crash. Three requests are enough for
an id to be used again while the queue is not empty; four for two preflights
and a confirmation. `PlanLimit` is 4 in the code and 1 in the instances, so
that the limit is reached with two infobases. Three requests of a client are
one given up whose answer comes late, one that takes the next id, and
`shutdown`, or two operations under way at disposal.
`MaxEvents` bounds what the user does: commands, changes of the configuration
and of the settings file. Three are an old command, the one that supersedes it
and one that supersedes that, or a connection, a change and the command that
follows it; losses of servers are not bounded. An import runs once beside three
events, enough to lose, replace and reload its connection; one infobase is
enough there because a selection is told from another by the command that made
it. `SettingsFollowed` and `PublishesUnderItsSettings` are checked with
changes to texts never seen before; with `SettingsReturn` the first fails, which
is the finding of `ConnectionsReverted`, and the second for the same reason.

Three runs of `LiveSwitch` are an activation, its continuation and a second
continuation or a staging beside them; two paths a tail file taken twice or
not; three contents the one overwritten, the one published and one staged in
between. Three workers of `ManagedWorker` are the original, the one that
replaces it and one started during the stop; two drifts a foreign state that
comes and goes.

Fairness. A session that runs keeps running (`WF` of its steps): it never waits
for a lock, a client or another process. The server's threads keep running:
operations end, and nothing is assumed of the client. Opening a session,
faults, users and operators are never fair. The client's timers fire, its
awaited promises continue when settled, exits are reported and a signal ends a
process; nothing is assumed of the server's answers. In `Connections` every
awaited promise is settled, which the fairness of `RpcContract` promises for
those of a server (`ImplementsContract`, with the timeouts); a question to the user may stay open, and
`ConnectingEnds` excepts it.

## Proofs

Everything here holds for every value of the constants that satisfies the
module's assumption (`FileDbAssumption`, `ServerAssumption`, `ClientAssumption`,
`LiveAssumption`, `WorkerAssumption` and the like). None of the invariants is
inductive as it stands; in each module `IInv` joins them with what they rest
on. Lemmas say what each helper or each action changes, one lemma per action
shows that it keeps `IInv`, `NextIInv` combines them, and the theorems follow
from `Invariant`.

`FileDbPublish_proofs`, for any writers, users and bounds, with and without
power cuts and unlocked replacements: `Typing`; `AlwaysWhole` (`DataWhole`);
`Ownership` (`FilesOwned`); `PublicationIsCurrent` (`NoLostUpdate`). A session
owns `work` because its file is newer than every other (`Fresh`) and no two
sessions made the same file (`Apart`); its copy is complete at the rename
because a finished copy stays complete: no user edits a file that never was the
database (`Unpublished`, `Complete`); the version it was made from is still
current because the lock excluded everyone else since (`Excluded`, `Current`).

`FileDbRecovery_proofs`, in the same generality: `RecoveryIsKept`
(`RecoveryKept`) and `ReportsSurvive` (`AckedDurable`). `RInv` adds to `IInv`
that a version comes after the one it replaced (`Versions`), that nobody sees a
work copy before its rename (`Unseen`), what a session made of its copies so
far (`Empty`, `Copies`), and that from its check of the binding on the database
is the file it holds or one that replaced nothing (`Bindings`). The central
part is `BackupsRetired` and `RecoveryRetired`: a file that holds a version to
recover is not the database any more and nobody has it open, so no edit by the
platform can take that version away. A report survives because work copies are
numbered in the order they are published in (`Ordered`). `NothingIsLeft`
(`NothingLeft`) and `StoreImplemented` (`ImplementsStore`, with no power cut and
nobody unlocked) rest on `SInv` besides: before the first fault whoever
owns `work` or a link holds the file that is the database (`Undisturbed`), and
every file beside the database belongs to a session under way (`Accounted`); a
user has the database open and nothing else (`UsersAgree`); a session past its
rename replaced the version it copied (`Replacing`); the backup holds an older
version than the database (`Older`). The refinement then has three cases: the
rename of the work copy is `Import`, an edit of a user is `Edit`, and every
other step only rotates what is kept.

`EditorServer_proofs`, for any ids, infobases, versions and number of requests:
`Typing`; `RequestsReachable` (`Reachable`) and `EverythingSwept` (`AllSwept`)
for a client that uses an id again only after its answer (`IdsUnique`, without
which `EditorSharedIds` refutes the second); `AnswersTell` (`AnswerTells`);
`PublicationsConfirmed` (`PublishesWhatWasConfirmed`); `LatestPlanOnce`
(`PublishesLatestPlanOnce`). Requests are taken in their order (`Order`) and
only those taken are answered (`Answered`). What is published was confirmed
because from the comparison of the fingerprint to the commit the lock keeps the
infobase at the version of the plan in hand (`Confirmed`). It is published once
because no plan that a later one overtook, or that was used, is ever in the
table again (`Current`, `Latest`). `ServesInOrder` is the refinement of
`RequestServer` (`ImplementsServer`): jobs are answered in the order of the
queue, one for each, whatever sets their flags, and the worker ends only with
none left or dead (`Serves`). Reading is `Accept`, the answer is `Answer`, the
end of the input `End`, and every other step of either thread is a stutter.

`RpcClient_proofs`, for any number of requests, with and without faults:
`Typing`, `AnswersMatch` (`OwnAnswer`), `NobodyWaits` (`NoneWaitsOnDead`: nobody
waits for a server that is lost) and `LossReportedOnce` (`CrashReported`). An
answer meets its own request because every message in the pipes and the queue
carries an id that was given out, under which nobody but its request ever waits
(`Names`, `Matching`); a step never gives an id out twice (`Keeps`), so what a
message says stays true while it travels. Nobody waits for a lost server
because whoever is not settled waits under some id and a dead client has nobody
waiting (`Waiting`). `KeepsContract` shows every step of the client to be one of
`RpcContract` or a stutter; that it also meets the fairness of `RpcContract` is
left to TLC (`ImplementsContract`). `TalksToServer` shows the other end of the
pipes to stay a `RequestServer` beside every step of the client. `StopsInOrder`
(`OrderlyStop`) says that disposal interrupts nothing: requests travel and are
queued in the order they were made (`Ordered`), so whatever was answered was
asked before everything that is not (`Behind`), and when the answer to
`shutdown` arrives, nothing asked before it is still open at the server.

`Connections_proofs`, for any infobases and number of events: `Typing`;
`StatusIsTrue` (`StatusTrue`); `NoServerStrays` (`NoStrayServer`); `LastChoice`
(`LastChoiceWins`); and, when no text of the settings returns
(`~SettingsReturn`, without which `ConnectionsReverted` refutes it),
`SettingsAreFollowed` (`SettingsFollowed`). Commands are numbered without gaps
(`Numbered`), no two have one generation (`Stamped`), so the one in force is
unique; the client in use is its server or a lost one (`InUse`), and what is
selected is its choice (`Chosen`). A connection on an old text is about to end
because texts grow, the server reads them no earlier than the command that
started it (`Newer`), and a change it has not read is still announced
(`Announced`). `ImportCommand_proofs` adds what an import remembers
(`Remembers`, `Stages`) to that invariant, that an answer came over the
connection remembered (`Answered`) and that a check reads the settings no
earlier than the server did (`ReadLater`). It proves `ImportTyping`, that the
import keeps the status true and the settings followed, `PublishesWhereConfirmed`
(`PublishesToSelection`) and, without `SettingsReturn`, `PublishesUnderSettings`
(`PublishesUnderItsSettings`).

`LiveSwitch_proofs`, for any runs, paths, contents and outside steps: `Typing`;
`PairedCycles` (`CyclesPaired`); `PromotionsRecoverable`
(`PromotedIsRecoverable`); `AnswersHold` (`AnswersAreTrue`); `LogIsKept`
(`LogKept`); `SwitchSparesWork` (`WorkSpared`); `PendingContinues`
(`PendingCanContinue`). From the guard of its batch to
the end of it a run holds the application lock (`Exclusive`); its artifacts are
on disk before it promotes (`Prepared`); a content is promoted once
(`PromotedOnce`) and only promotions name backup sets (`Named`), so the cycle a
run is about to take was not taken before, and the first set is the last named
one (`AboutToTake`); the file of a first cycle is empty until it is written
(`Unwritten`); work open beside a run past its check began after it (`Spared`).
That a pending operation can be continued rests on `CInv`: only a run under the
lock that found no operation pending makes one, with its artifact naming the
file it writes and what it promoted in place (`Ready`); from then on the log and
that file end with its first set (`Continuable`) until its second cycle.
`OperationsImplemented` (`ImplementsOperations`) uses both: no run promotes or
begins while an operation is pending, so there is one at most (`OnePending`),
and a second cycle is always that operation's.

`ManagedWorker_proofs`, for any workers and drifts: `Typing`; `JournalFirst` (no
effect without its intent on disk); `ConfirmationsHold` (`ConfirmedIsSo`); `OutcomeHolds`
(`OutcomeIsTrue`); `CompletionHolds` (`KnownIsComplete`). Whatever was asked for
has its intent on disk (`Recorded`, `Underway`); the state of the publication is
true at every step, not only when it is returned (`Published`, `Early`,
`Answered`); a shutdown begins after a complete publication only (`Complete`); a
worker the tool knows does not start again (`Started`), so what was stopped
stays stopped and a cold cluster has nothing alive (`Quiet`). `JournalAhead`
(`ImplementsJournal`) needs `JInv` besides: while the tool goes on, only the
effect under way is unproved (`Proven`); what it has not come to has no intent
yet (`Unreached`), so nothing is begun twice; what it came past is confirmed
(`Reached`), so everything is begun in its order.

Model-checked only: the fairness in `ImplementsContract` and the liveness
properties `SessionEnds`, `EveryRequestAnswered`, `ServerExits`, `NoOrphan` and
`ConnectingEnds`. Liveness under fairness rests on ENABLED, which is out of the
prover's reach. Every other property of a passing run is a theorem.

## Plan

Done, in the order in which it was planned: `FileDbPublish` with
`InfobaseStore`; `EditorServer`; `RpcContract` and `RpcClient`; `Connections`
and `ImportCommand`; `LiveSwitch`; `ManagedWorker`; the proofs about each; the
specifications they implement (`RequestServer`, `LiveOperations`,
`EffectJournal`) and the refinements.

Left, for whoever extends it: the permit and the invalidation of the MCP
adapter around the import of `EditorServer`; the apply command of the
extension, with the checks of `ImportCommand` around a native process; the
modes online and exclusive of the activation.

## Not modelled

- Conversions between XML, forms, templates and stored rows, and containers:
  by far the largest part of the repository. They are sequential functions over
  large values; that they are right is a matter of every byte, which the
  repository compares with the platform's own output, and not of any order of
  steps.
- The bytes of a file infobase (pages, chains, records): likewise. A body is one
  number here, complete or not.
- The SQL of configuration apply and the restructure engine: one transaction
  that is rendered from a plan and sent whole.
- The clients of SQL servers, the command line, settings parsing, the
  extension's views: I/O whose other side is not in the repository, or dispatch.
- The MCP adapter and the object cache: one call at a time over functions that
  are modelled (`EditorServer`), or a cache nothing is written back from.
- `ibcmd-parallel`: the sizes of rayon's pools.
- Windows custody and locks of the file infobase; the bootstrap of a managed
  cluster and the switch of a foreign worker; the modes online, exclusive and
  worker of the activation.

`PROJECT.json` lists every part with its status and the reason.
