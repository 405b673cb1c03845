----------------------------- MODULE EditorServer -----------------------------
(***************************************************************************)
(* The editor server, `ibcmd-rs serve --stdio` (src/server/mod.rs), and    *)
(* the two-step import of files into a file infobase it offers             *)
(* (src/file_import.rs).                                                   *)
(*                                                                         *)
(* A reader thread takes messages from the client: it registers a request  *)
(* under its id with a cancellation flag and queues it, sets the flag of a *)
(* request the client cancels, and ends at `exit` or a broken stream.  A   *)
(* worker thread answers the queued requests one at a time and in order;   *)
(* a running operation looks at its flag between its steps.                *)
(*                                                                         *)
(* Requests are numbered as they are read.  The database of an infobase is *)
(* the number of its version: the platform and other writers change it     *)
(* whenever the server does not hold its lock.  How a publication reaches  *)
(* the disk is FileDbPublish.                                              *)
(***************************************************************************)
EXTENDS Naturals, Sequences, FiniteSets

CONSTANTS
    Ids,            (* JSON-RPC ids the client uses                         *)
    Bases,          (* file infobases                                       *)
    Methods,        (* the methods the client calls                         *)
    PlanLimit,      (* prepared plans kept at a time (4 in the code)        *)
    IdsUnique,      (* whether an id is only reused after its answer        *)
    ClientCancels,  (* whether the client cancels requests                  *)
    Faults,         (* whether input breaks or an answer kills the worker   *)
    MaxJobs,        (* bound: requests read                                 *)
    MaxVersion,     (* bound: versions of databases                         *)
    MaxSource       (* bound: edits of the source files                     *)

AllMethods == {"initialize", "shutdown", "connect", "prepare", "import",
               "apply", "read"}

ASSUME ServerAssumption ==
    /\ Methods \subseteq AllMethods
    /\ PlanLimit \in Nat \ {0}
    /\ MaxJobs \in Nat /\ MaxVersion \in Nat /\ MaxSource \in Nat
    /\ {IdsUnique, ClientCancels, Faults} \subseteq BOOLEAN

VARIABLES
    reader,       (* where the reader thread stands                         *)
    broken,       (* the input was unreadable or the worker gone            *)
    code,         (* the exit code, 2 while there is none                   *)
    jobs,         (* the requests read, in order                            *)
    queued,       (* how many of them were put in the queue                 *)
    inFlight,     (* id -> the request registered under it, 0 when none     *)
    flag,         (* the requests whose cancellation flag is set            *)
    worker,       (* where the worker thread stands                         *)
    cur,          (* the request it took last                               *)
    outcome,      (* what it will answer                                    *)
    answer,       (* request -> the answer sent                             *)
    initialized,
    down,         (* `shutdown` was handled                                 *)
    epoch,        (* counts connections                                     *)
    plans,        (* the prepared imports awaiting confirmation             *)
    draft,        (* the plan in the hands of the running request           *)
    db,           (* infobase -> version of its database                    *)
    versions,     (* versions ever made                                     *)
    source,       (* version of the source files                            *)
    published     (* requests that replaced a database                      *)

input == <<reader, broken, code, jobs, queued, inFlight>>
state == <<initialized, down, epoch, plans>>
world == <<db, versions, source>>
vars == <<input, flag, worker, cur, outcome, answer, state, draft, world,
          published>>

Job == 1 .. MaxJobs
Received == 1 .. Len(jobs)
Outcome == {"ok", "failed", "refused", "cancelled", "recovery"}
Plan == [token: Job, base: Bases, epoch: 0 .. MaxJobs,
         version: 0 .. MaxVersion, source: 0 .. MaxSource]
NoPlan == [token |-> 0]
NoBase == "none"

Call == jobs[cur]
Cancelled == cur \in flag

(* The request is done: what is left is to unregister and answer it.       *)
Finish(o) == worker' = "removing" /\ outcome' = o

(* A failed publication or check reports the cancellation it ran into.     *)
FailedOrCancelled == IF Cancelled THEN {"cancelled"} ELSE {"failed"}

(* The session of a running preparation or publication holds the lock.     *)
Locked(b) ==
    worker \in {"preparing", "writing", "committing"} /\ draft.base = b

-----------------------------------------------------------------------------
Init ==
    /\ reader = "reading" /\ broken = FALSE /\ code = 2
    /\ jobs = << >> /\ queued = 0
    /\ inFlight = [id \in Ids |-> 0]
    /\ flag = {}
    /\ worker = "waiting" /\ cur = 0 /\ outcome = "ok"
    /\ answer = [n \in Job |-> "none"]
    /\ initialized = FALSE /\ down = FALSE /\ epoch = 0
    /\ plans = {} /\ draft = NoPlan
    /\ db \in [Bases -> {0}] /\ versions = 0 /\ source = 0
    /\ published = {}

-----------------------------------------------------------------------------
(* The reader thread.                                                      *)

(* Tokens a client can name: those it was given, and one that never was.   *)
Known == {n \in Received : jobs[n].method = "prepare" /\ answer[n] = "ok"}
             \cup {0}

Requests(id) ==
    {r \in [id: {id}, method: Methods, base: Bases \cup {NoBase}, token: Known] :
        /\ r.base = NoBase <=> r.method \notin {"connect", "prepare", "import"}
        /\ r.method # "import" => r.token = 0}

(* The request is registered before it is queued.                          *)
ReadRequest(id) ==
    /\ reader = "reading"
    /\ Len(jobs) < MaxJobs
    /\ IdsUnique => \A n \in Received : jobs[n].id = id => answer[n] # "none"
    /\ \E r \in Requests(id) : jobs' = Append(jobs, r)
    /\ inFlight' = [inFlight EXCEPT ![id] = Len(jobs) + 1]
    /\ reader' = "queueing"
    /\ UNCHANGED <<broken, code, queued, flag, worker, cur, outcome, answer,
                   state, draft, world, published>>

(* Sending fails only when the worker is gone.                             *)
Queue ==
    /\ reader = "queueing"
    /\ IF worker = "dead"
       THEN reader' = "sweeping" /\ broken' = TRUE /\ UNCHANGED queued
       ELSE reader' = "reading" /\ queued' = queued + 1 /\ UNCHANGED broken
    /\ UNCHANGED <<code, jobs, inFlight, flag, worker, cur, outcome, answer,
                   state, draft, world, published>>

CancelRequest(id) ==
    /\ ClientCancels
    /\ reader = "reading"
    /\ inFlight[id] # 0
    /\ flag' = flag \cup {inFlight[id]}
    /\ UNCHANGED <<input, worker, cur, outcome, answer, state, draft, world,
                   published>>

(* `exit`, or the end of the stream.                                       *)
Exit ==
    /\ reader = "reading"
    /\ reader' = "sweeping"
    /\ UNCHANGED <<broken, code, jobs, queued, inFlight, flag, worker, cur,
                   outcome, answer, state, draft, world, published>>

Unreadable ==
    /\ Faults
    /\ reader = "reading"
    /\ reader' = "sweeping" /\ broken' = TRUE
    /\ UNCHANGED <<code, jobs, queued, inFlight, flag, worker, cur, outcome,
                   answer, state, draft, world, published>>

(* Mutant: only the request that runs is cancelled.                        *)
SweepRunning ==
    /\ reader = "sweeping"
    /\ flag' = flag \cup ({cur} \ {0})
    /\ reader' = "joining"
    /\ UNCHANGED <<broken, code, jobs, queued, inFlight, worker, cur, outcome,
                   answer, state, draft, world, published>>

(* Whatever is registered is cancelled, and the queue is closed.           *)
Sweep ==
    /\ reader = "sweeping"
    /\ flag' = flag \cup ({inFlight[id] : id \in Ids} \ {0})
    /\ reader' = "joining"
    /\ UNCHANGED <<broken, code, jobs, queued, inFlight, worker, cur, outcome,
                   answer, state, draft, world, published>>

Join ==
    /\ reader = "joining"
    /\ worker \in {"ended", "dead"}
    /\ reader' = "exited"
    /\ code' = IF ~broken /\ down THEN 0 ELSE 1
    /\ UNCHANGED <<broken, jobs, queued, inFlight, flag, worker, cur, outcome,
                   answer, state, draft, world, published>>

-----------------------------------------------------------------------------
(* The worker thread: one request from the queue to its answer.            *)

(* Mutant: a request cancelled in the queue is dropped without an answer.  *)
TakeDropping ==
    /\ worker = "waiting"
    /\ cur < queued
    /\ cur' = cur + 1
    /\ worker' = IF cur + 1 \in flag THEN "waiting" ELSE "running"
    /\ UNCHANGED <<input, flag, outcome, answer, state, draft, world,
                   published>>

Take ==
    /\ worker = "waiting"
    /\ cur < queued
    /\ cur' = cur + 1
    /\ IF cur + 1 \in flag THEN Finish("cancelled")
       ELSE worker' = "running" /\ UNCHANGED outcome
    /\ UNCHANGED <<input, flag, answer, state, draft, world, published>>

(* Mutant: the reader waits for the worker before it closes the queue.     *)
WorkerEndsLate ==
    /\ worker = "waiting"
    /\ cur = queued /\ reader = "exited"
    /\ worker' = "ended"
    /\ UNCHANGED <<input, flag, cur, outcome, answer, state, draft, world,
                   published>>

(* The queue is closed and empty.                                          *)
WorkerEnds ==
    /\ worker = "waiting"
    /\ cur = queued /\ reader = "joining"
    /\ worker' = "ended"
    /\ UNCHANGED <<input, flag, cur, outcome, answer, state, draft, world,
                   published>>

(* Mutant: a request cancelled before it ran stays registered.             *)
RemoveUnlessCancelled ==
    /\ worker = "removing"
    /\ IF outcome = "cancelled" THEN UNCHANGED inFlight
       ELSE inFlight' = [inFlight EXCEPT ![Call.id] = 0]
    /\ worker' = "sending"
    /\ draft' = NoPlan
    /\ UNCHANGED <<reader, broken, code, jobs, queued, flag, cur, outcome,
                   answer, state, world, published>>

Remove ==
    /\ worker = "removing"
    /\ inFlight' = [inFlight EXCEPT ![Call.id] = 0]
    /\ worker' = "sending"
    /\ draft' = NoPlan
    /\ UNCHANGED <<reader, broken, code, jobs, queued, flag, cur, outcome,
                   answer, state, world, published>>

Send ==
    /\ worker = "sending"
    /\ answer' = [answer EXCEPT ![cur] = outcome]
    /\ worker' = "waiting"
    /\ UNCHANGED <<input, flag, cur, outcome, state, draft, world, published>>

(* Neither the client nor stderr can be written to.                        *)
SendDies ==
    /\ Faults
    /\ worker = "sending"
    /\ worker' = "dead"
    /\ UNCHANGED <<input, flag, cur, outcome, answer, state, draft, world,
                   published>>

-----------------------------------------------------------------------------
(* Handling a request.                                                     *)

(* Shut down, not initialized yet, or initialized twice.                   *)
Refuse ==
    /\ worker = "running"
    /\ \/ down
       \/ ~initialized /\ Call.method # "initialize"
       \/ initialized /\ Call.method = "initialize"
    /\ Finish("refused")
    /\ UNCHANGED <<input, flag, cur, answer, state, draft, world, published>>

Serving(method) ==
    /\ worker = "running"
    /\ ~down /\ initialized
    /\ Call.method = method

Initialize ==
    /\ worker = "running"
    /\ ~down /\ ~initialized /\ Call.method = "initialize"
    /\ initialized' = TRUE
    /\ Finish("ok")
    /\ UNCHANGED <<input, flag, cur, answer, down, epoch, plans, draft, world,
                   published>>

Shutdown ==
    /\ Serving("shutdown")
    /\ down' = TRUE /\ plans' = {}
    /\ Finish("ok")
    /\ UNCHANGED <<input, flag, cur, answer, initialized, epoch, draft, world,
                   published>>

Connect ==
    /\ Serving("connect")
    /\ epoch' = epoch + 1 /\ plans' = {}
    /\ Finish("ok")
    /\ UNCHANGED <<input, flag, cur, answer, initialized, down, draft, world,
                   published>>

(* The tree, a status, an export: nothing the server keeps changes.        *)
Read ==
    /\ Serving("read")
    /\ Finish("ok")
    /\ UNCHANGED <<input, flag, cur, answer, state, draft, world, published>>

(* A configuration applied on SQL Server: the prepared imports are void.   *)
Apply ==
    /\ Serving("apply")
    /\ plans' = {}
    /\ Finish("ok")
    /\ UNCHANGED <<input, flag, cur, answer, initialized, down, epoch, draft,
                   world, published>>

(* Invalid parameters, an error, a panic, or the cancellation that a check  *)
(* between two steps of a long operation finds: nothing is left behind.     *)
Long == {"connect", "read", "prepare", "apply"}

(* Mutant: a panic is not caught and takes the worker along.               *)
FailUnwinding ==
    /\ worker \in {"running", "preparing", "publishing", "writing"}
    /\ worker' = "unwound"
    /\ UNCHANGED <<input, flag, cur, outcome, answer, state, draft, world,
                   published>>

Fail ==
    /\ \/ /\ worker = "running"
          /\ ~down /\ Call.method # "shutdown"
          /\ initialized <=> Call.method # "initialize"
       \/ worker \in {"preparing", "publishing", "writing"}
    /\ \/ Finish("failed")
       \/ /\ Cancelled /\ Finish("cancelled")
          /\ worker = "running" => Call.method \in Long
    /\ UNCHANGED <<input, flag, cur, answer, state, draft, world, published>>

-----------------------------------------------------------------------------
(* Import, first step: the preflight, under the infobase's lock.           *)

PrepareOpens ==
    /\ Serving("prepare")
    /\ ~Cancelled
    /\ draft' = [token |-> cur, base |-> Call.base, epoch |-> epoch,
                 version |-> db[Call.base], source |-> source]
    /\ worker' = "preparing"
    /\ UNCHANGED <<input, flag, cur, outcome, answer, state, world, published>>

(* Mutant: earlier plans are kept.                                         *)
PrepareEndsKeeping ==
    /\ worker = "preparing"
    /\ ~Cancelled
    /\ source = draft.source /\ db[draft.base] = draft.version
    /\ plans' = plans \cup {draft}
    /\ Finish("ok")
    /\ UNCHANGED <<input, flag, cur, answer, initialized, down, epoch, draft,
                   world, published>>

(* The plan replaces the one of the same infobase; too many are dropped.   *)
PrepareEnds ==
    /\ worker = "preparing"
    /\ ~Cancelled
    /\ source = draft.source /\ db[draft.base] = draft.version
    /\ LET others == {p \in plans : p.base # draft.base} IN
       plans' = (IF Cardinality(others) >= PlanLimit THEN {} ELSE others)
                    \cup {draft}
    /\ Finish("ok")
    /\ UNCHANGED <<input, flag, cur, answer, initialized, down, epoch, draft,
                   world, published>>

(* Mutant: the plan is taken whatever it was confirmed for.                *)
ImportTakesAnyPlan ==
    /\ Serving("import")
    /\ \E p \in plans :
          /\ p.token = Call.token
          /\ plans' = plans \ {p}
          /\ draft' = p
    /\ worker' = "publishing"
    /\ UNCHANGED <<input, flag, cur, outcome, answer, initialized, down, epoch,
                   world, published>>

(* Second step: the confirmed plan is taken, whatever becomes of it.       *)
ImportTakesPlan ==
    /\ Serving("import")
    /\ \E p \in plans :
          /\ p.token = Call.token
          /\ plans' = plans \ {p}
          /\ IF p.base = Call.base /\ p.epoch = epoch
             THEN draft' = p /\ worker' = "publishing" /\ UNCHANGED outcome
             ELSE Finish("refused") /\ UNCHANGED draft
    /\ UNCHANGED <<input, flag, cur, answer, initialized, down, epoch, world,
                   published>>

ImportExpired ==
    /\ Serving("import")
    /\ \A p \in plans : p.token # Call.token
    /\ Finish("refused")
    /\ UNCHANGED <<input, flag, cur, answer, state, draft, world, published>>

(* Mutant: the locked database is not compared to the plan.                *)
PublishOpensUncompared ==
    /\ worker = "publishing"
    /\ ~Cancelled
    /\ source = draft.source
    /\ worker' = "writing"
    /\ UNCHANGED <<input, flag, cur, outcome, answer, state, draft, world,
                   published>>

(* The source is checked, the infobase locked and compared to the plan.    *)
PublishOpens ==
    /\ worker = "publishing"
    /\ ~Cancelled
    /\ source = draft.source
    /\ db[draft.base] = draft.version
    /\ worker' = "writing"
    /\ UNCHANGED <<input, flag, cur, outcome, answer, state, draft, world,
                   published>>

(* The last check before the renames: the source, and then the flag.       *)
PublishChecks ==
    /\ worker = "writing"
    /\ source = draft.source
    /\ ~Cancelled
    /\ worker' = "committing"
    /\ UNCHANGED <<input, flag, cur, outcome, answer, state, draft, world,
                   published>>

(* Mutant: a cancellation hides that the database was published.           *)
CommitCancelledFirst ==
    /\ worker = "committing"
    /\ versions < MaxVersion
    /\ versions' = versions + 1
    /\ db' = [db EXCEPT ![draft.base] = versions + 1]
    /\ published' = published \cup {cur}
    /\ \E o \in {"ok", IF Cancelled THEN "cancelled" ELSE "recovery"} : Finish(o)
    /\ UNCHANGED <<input, flag, cur, answer, state, draft, source>>

(* The renames: both done, or the backup's failed (Error::Published).      *)
Commit ==
    /\ worker = "committing"
    /\ versions < MaxVersion
    /\ versions' = versions + 1
    /\ db' = [db EXCEPT ![draft.base] = versions + 1]
    /\ published' = published \cup {cur}
    /\ \E o \in {"ok", "recovery"} : Finish(o)
    /\ UNCHANGED <<input, flag, cur, answer, state, draft, source>>

(* The rename of the database failed: nothing was published.               *)
CommitFails ==
    /\ worker = "committing"
    /\ \E o \in FailedOrCancelled : Finish(o)
    /\ UNCHANGED <<input, flag, cur, answer, state, draft, world, published>>

-----------------------------------------------------------------------------
(* The surroundings.                                                       *)

PlatformWrites(b) ==
    /\ ~Locked(b)
    /\ versions < MaxVersion
    /\ versions' = versions + 1
    /\ db' = [db EXCEPT ![b] = versions + 1]
    /\ UNCHANGED <<input, flag, worker, cur, outcome, answer, state, draft,
                   source, published>>

UserEditsSource ==
    /\ source < MaxSource
    /\ source' = source + 1
    /\ UNCHANGED <<input, flag, worker, cur, outcome, answer, state, draft,
                   db, versions, published>>

-----------------------------------------------------------------------------
Operation ==
    \/ Refuse \/ Initialize \/ Shutdown \/ Connect \/ Read \/ Apply \/ Fail
    \/ PrepareOpens \/ PrepareEnds
    \/ ImportTakesPlan \/ ImportExpired
    \/ PublishOpens \/ PublishChecks \/ Commit \/ CommitFails

WorkerStep == Take \/ Operation \/ Remove \/ Send \/ WorkerEnds

(* What the reader does without waiting for the client.                    *)
ReaderStep == Queue \/ Sweep \/ Join

Client ==
    \/ \E id \in Ids : ReadRequest(id) \/ CancelRequest(id)
    \/ Exit \/ Unreadable

(* The process has ended: nothing but stuttering is left.                  *)
Exited == reader = "exited" /\ UNCHANGED vars

Next ==
    \/ WorkerStep \/ ReaderStep \/ Client \/ SendDies
    \/ \E b \in Bases : PlatformWrites(b)
    \/ UserEditsSource
    \/ Exited

Spec == Init /\ [][Next]_vars

(* Both threads run; nothing is promised of the client.                    *)
FairSpec == Spec /\ WF_vars(WorkerStep) /\ WF_vars(ReaderStep)

-----------------------------------------------------------------------------
TypeOK ==
    /\ reader \in {"reading", "queueing", "sweeping", "joining", "exited"}
    /\ broken \in BOOLEAN /\ code \in 0 .. 2
    /\ jobs \in Seq([id: Ids, method: Methods, base: Bases \cup {NoBase},
                    token: Job \cup {0}])
    /\ Len(jobs) <= MaxJobs
    /\ queued \in 0 .. MaxJobs
    /\ inFlight \in [Ids -> 0 .. MaxJobs]
    /\ flag \subseteq Job
    /\ worker \in {"waiting", "running", "preparing", "publishing", "writing",
                   "committing", "removing", "sending", "ended", "dead"}
    /\ cur \in 0 .. MaxJobs
    /\ outcome \in Outcome
    /\ answer \in [Job -> Outcome \cup {"none"}]
    /\ initialized \in BOOLEAN /\ down \in BOOLEAN
    /\ epoch \in 0 .. MaxJobs
    /\ plans \in SUBSET Plan
    /\ draft \in Plan \cup {NoPlan}
    /\ db \in [Bases -> 0 .. MaxVersion]
    /\ versions \in 0 .. MaxVersion /\ source \in 0 .. MaxSource
    /\ published \subseteq Job

(* The requests that wait or run: not yet unregistered.                    *)
Pending ==
    {n \in Received :
        \/ n > cur
        \/ n = cur /\ worker \notin {"waiting", "sending", "ended", "dead"}}

(* While a request waits or runs, and only then, its id leads to its        *)
(* cancellation flag: a cancellation reaches the request the client means,  *)
(* also when it uses an id again as soon as that id was answered, and no    *)
(* finished request keeps an entry (mod.rs: in_flight).                     *)
Reachable ==
    \A id \in Ids, n \in Job :
        inFlight[id] = n <=> n \in Pending /\ jobs[n].id = id

(* Once the input has ended, whatever runs or waits is cancelled (mod.rs:   *)
(* "Whatever still runs or waits is cancelled").                            *)
AllSwept == reader \in {"joining", "exited"} => Pending \subseteq flag

(* An answer tells whether the database was replaced: a request answered    *)
(* as cancelled, refused or failed published nothing, and one that          *)
(* published is never answered so, whenever the cancellation or the failed  *)
(* rename of the backup falls (file_import.rs: finish_publication;          *)
(* mod.rs: failure).                                                        *)
AnswerTells ==
    \A n \in Received :
        answer[n] # "none" =>
            (n \in published
                <=> jobs[n].method = "import" /\ answer[n] \in {"ok", "recovery"})

(* A publication replaces the very version its plan was made from, with     *)
(* the source files the plan was made from, in the infobase the user        *)
(* confirmed it for, and no connection was opened in between                *)
(* (file_import.rs: "A changed target, source or CONFIG/CONFIGSAVE          *)
(* invalidates the entire plan").                                           *)
PublishesWhatWasConfirmed ==
    [][/\ (worker = "writing" /\ worker' = "committing") => source = draft.source
       /\ published' # published =>
             /\ draft.base = Call.base /\ draft.epoch = epoch
             /\ db[draft.base] = draft.version]_vars

(* Only the latest plan prepared for an infobase is ever published, and     *)
(* once at most: an older confirmation, or a second one, does nothing.      *)
PublishesLatestPlanOnce ==
    [][published' # published =>
          \A n \in 1 .. cur - 1 :
              /\ n > Call.token /\ jobs[n].method = "prepare"
                    /\ jobs[n].base = draft.base => answer[n] # "ok"
              /\ jobs[n].token = Call.token => n \notin published]_vars

(* Every request that is read is answered, cancelled or not, unless nobody  *)
(* can be written to any more (mod.rs: work, Output::send).                 *)
EveryRequestAnswered ==
    \A n \in Job : n <= queued ~> answer[n] # "none" \/ worker = "dead"

(* When the input ends the process exits.                                   *)
ServerExits == reader = "sweeping" ~> reader = "exited"

(* The exit code is 0 after `shutdown` (mod.rs: "0 after `shutdown`, 1      *)
(* otherwise, as LSP's `exit` defines it").                                 *)
ZeroAfterShutdown ==
    reader = "exited" /\ ~broken =>
        (code = 0 <=>
            \E m, n \in Received :
                /\ m < n /\ jobs[m].method = "initialize" /\ answer[m] = "ok"
                /\ jobs[n].method = "shutdown")
-----------------------------------------------------------------------------
(* What the client sees, if it reads nothing: how many of its requests are  *)
(* answered, and as what.                                                   *)
Done == IF worker \in {"waiting", "ended"} THEN cur ELSE cur - 1

Message(kind, n) == [kind |-> kind, id |-> jobs[n].id, call |-> n]

Reply(n) == CASE answer[n] = "none" -> "nothing"
              [] answer[n] = "ok" -> "answered"
              [] OTHER -> "error"

Seen == INSTANCE RequestServer WITH
    RequestMessages <- [kind: {"request"}, id: Ids, call: Job],
    Faults <- FALSE,
    queue <- [i \in 1 .. Len(jobs) - Done |-> Message("request", Done + i)],
    toClient <- [n \in 1 .. Done |-> Message(Reply(n), n)],
    ending <- reader \notin {"reading", "queueing"},
    killed <- worker = "dead",
    gone <- reader = "exited"

(* To its client the server is the one RpcClient is written against: each   *)
(* request gets one answer under its own id, in the order they were sent,   *)
(* whatever is cancelled, panics or fails on the way, and the process only  *)
(* exits with none left unless a thread died (mod.rs: serve, work).         *)
ImplementsServer == Seen!Spec
=============================================================================
