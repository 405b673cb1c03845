---------------------------- MODULE FileDbPublish ----------------------------
(***************************************************************************)
(* The publication protocol of a file infobase (crates/ibcmd-filedb):      *)
(* writer processes replace a configuration table of `1Cv8.1CD` by writing *)
(* a work copy beside it and renaming the copy over the data file, keeping *)
(* the file they replaced as a backup.                                     *)
(*                                                                         *)
(* The directory maps four names to files.  A file is a number given at    *)
(* its creation (an inode; 0 is "no such entry"), and its body is the      *)
(* number of a version of the database (0 is an incomplete body).  Other   *)
(* users of the infobase (the platform, an export) hold the operating      *)
(* system's lock on the data file while they have it open and the platform *)
(* edits it in place.  Writers crash, calls fail, the power is cut, an     *)
(* operator clears what a crash left, and an administrator who takes no    *)
(* lock may put another file in the place of the database.                 *)
(***************************************************************************)
EXTENDS Naturals, FiniteSets

CONSTANTS
    Writers,     (* ibcmd-rs processes that write the infobase              *)
    Users,       (* other processes that open it: the platform, exports     *)
    MaxFiles,    (* bound: files ever created in the directory              *)
    MaxVersion,  (* bound: versions of the database ever made               *)
    MaxUpsets,   (* bound: crashes, failed calls, power cuts, replacements  *)
    PowerCuts,   (* whether the power may be cut                            *)
    Unlocked     (* whether someone replaces the file without a lock        *)

ASSUME FileDbAssumption ==
    /\ MaxFiles \in Nat \ {0}
    /\ MaxVersion \in Nat \ {0}
    /\ MaxUpsets \in Nat
    /\ PowerCuts \in BOOLEAN
    /\ Unlocked \in BOOLEAN

VARIABLES
    dir,     (* the directory: name -> file                                 *)
    past,    (* the directories a power cut may fall back to                *)
    files,   (* how many files were created                                 *)
    body,    (* file -> version it holds                                    *)
    last,    (* how many versions were made                                 *)
    stem,    (* version -> version its latest publication replaced          *)
    acked,   (* the newest file a write reported as published               *)
    pc,      (* writer -> where its session stands                          *)
    orig,    (* writer -> the file its locked descriptor holds              *)
    copy,    (* writer -> the work file it created                          *)
    spare,   (* writer -> the backup file it copied, 0 when it is a link    *)
    base,    (* writer -> the version its work copy was made from           *)
    raced,   (* writers past their last check when the file was replaced    *)
    user,    (* user -> the file it holds open and locked                   *)
    upsets

disk == <<dir, past, files, body, last, stem, acked>>
session == <<pc, orig, copy, spare, base, raced>>
vars == <<disk, session, user, upsets>>

Names == {"data", "work", "bakNew", "bak"}
File == 1 .. MaxFiles
Version == 1 .. MaxVersion

(* Where a session stands: named for what it has just done, except that    *)
(* "undo", "drop", "dropBak" and "dropBoth" name the removals still ahead. *)
Locking == {"opened"}
Locked == {"locked", "session", "copying", "copied", "bound", "linked",
           "fallback", "spare", "prepared", "final", "published", "renamed",
           "undo", "drop", "dropBoth", "dropBak"}
Stage == {"idle"} \cup Locking \cup Locked

(* The stages at which the entry `work`, or `bakNew`, is the session's.    *)
OwnsWork == {"copying", "copied", "bound", "linked", "fallback", "spare",
             "prepared", "final", "undo", "drop", "dropBoth"}
OwnsBackup == {"spare", "undo", "prepared", "final", "published", "dropBoth",
               "dropBak"}

-----------------------------------------------------------------------------
Goto(w, stage) == pc' = [pc EXCEPT ![w] = stage]

(* The descriptors of the session are closed, which drops its lock.        *)
CloseSession(w) ==
    /\ Goto(w, "idle")
    /\ orig' = [orig EXCEPT ![w] = 0]
    /\ copy' = [copy EXCEPT ![w] = 0]
    /\ spare' = [spare EXCEPT ![w] = 0]
    /\ base' = [base EXCEPT ![w] = 0]
    /\ raced' = raced \ {w}

(* A change of the directory reaches the disk only when it is synced; until *)
(* then a power cut may undo it and every later one.                        *)
SetDir(d) ==
    /\ dir' = d
    /\ past' = IF PowerCuts THEN past \cup {d} ELSE {d}

Remove(name) == SetDir([dir EXCEPT ![name] = 0])

Rename(from, to) ==
    SetDir([n \in Names |-> IF n = to THEN dir[from]
                            ELSE IF n = from THEN 0 ELSE dir[n]])

(* A new file with the given body under a name nothing has (O_EXCL).       *)
Create(name, version) ==
    /\ files < MaxFiles
    /\ dir[name] = 0
    /\ files' = files + 1
    /\ body' = [body EXCEPT ![files + 1] = version]
    /\ SetDir([dir EXCEPT ![name] = files + 1])

(* A new version, whose history goes back to the publication over `s`.     *)
NewVersion(s) ==
    /\ last < MaxVersion
    /\ last' = last + 1
    /\ stem' = [stem EXCEPT ![last + 1] = s]

Upset == upsets < MaxUpsets /\ upsets' = upsets + 1

LockedBy(f) == {w \in Writers : pc[w] \in Locked /\ orig[w] = f}
HeldBy(f) == {u \in Users : user[u] = f}

(* What the database is: the version under the data file's name.           *)
Db == body[dir["data"]]

-----------------------------------------------------------------------------
(* Initially a closed infobase with one version and no backup.             *)
Init ==
    /\ dir = [n \in Names |-> IF n = "data" THEN 1 ELSE 0]
    /\ past = {dir}
    /\ files = 1
    /\ body = [f \in File |-> IF f = 1 THEN 1 ELSE 0]
    /\ last = 1
    /\ stem = [v \in Version |-> 0]
    /\ acked = 0
    /\ pc = [w \in Writers |-> "idle"]
    /\ orig = [w \in Writers |-> 0]
    /\ copy = [w \in Writers |-> 0]
    /\ spare = [w \in Writers |-> 0]
    /\ base = [w \in Writers |-> 0]
    /\ raced = {}
    /\ user = [u \in Users |-> 0]
    /\ upsets = 0

-----------------------------------------------------------------------------
(* Opening a write session: open, lock without waiting, and only then check *)
(* that the locked file is still the one under the data file's name.        *)

OpenData(w) ==
    /\ pc[w] = "idle"
    /\ dir["data"] # 0
    /\ orig' = [orig EXCEPT ![w] = dir["data"]]
    /\ Goto(w, "opened")
    /\ UNCHANGED <<disk, copy, spare, base, raced, user, upsets>>

(* Mutant: the lock is waited for (F_SETLKW).                              *)
LockDataWaiting(w) ==
    /\ pc[w] = "opened"
    /\ LockedBy(orig[w]) = {} /\ HeldBy(orig[w]) = {}
    /\ Goto(w, "locked")
    /\ UNCHANGED <<disk, orig, copy, spare, base, raced, user, upsets>>

(* Mutant: only other writers are locked out, the platform is not.         *)
LockDataNotPlatform(w) ==
    /\ pc[w] = "opened"
    /\ IF LockedBy(orig[w]) = {}
       THEN Goto(w, "locked") /\ UNCHANGED <<orig, copy, spare, base, raced>>
       ELSE CloseSession(w)
    /\ UNCHANGED <<disk, user, upsets>>

LockData(w) ==
    /\ pc[w] = "opened"
    /\ IF LockedBy(orig[w]) = {} /\ HeldBy(orig[w]) = {}
       THEN Goto(w, "locked") /\ UNCHANGED <<orig, copy, spare, base, raced>>
       ELSE CloseSession(w)
    /\ UNCHANGED <<disk, user, upsets>>

RequireBinding(w) ==
    /\ pc[w] = "locked"
    /\ IF dir["data"] = orig[w]
       THEN Goto(w, "session") /\ UNCHANGED <<orig, copy, spare, base, raced>>
       ELSE CloseSession(w)
    /\ UNCHANGED <<disk, user, upsets>>

(* The guard, the index check, the caller or a failed creation of the work  *)
(* file ends the session before it writes.                                  *)
EndUnwritten(w) ==
    /\ pc[w] = "session"
    /\ CloseSession(w)
    /\ UNCHANGED <<disk, user, upsets>>

-----------------------------------------------------------------------------
(* The work copy.                                                          *)

(* Mutant: the work file is opened with O_TRUNC instead of O_EXCL.         *)
CreateWorkTruncating(w) ==
    /\ pc[w] = "session"
    /\ files < MaxFiles
    /\ IF dir["data"] = orig[w]
       THEN /\ files' = files + 1
            /\ body' = [body EXCEPT ![files + 1] = 0]
            /\ SetDir([dir EXCEPT !["work"] = files + 1])
            /\ copy' = [copy EXCEPT ![w] = files + 1]
            /\ base' = [base EXCEPT ![w] = body[orig[w]]]
            /\ Goto(w, "copying")
            /\ UNCHANGED <<last, stem, acked, orig, spare, raced>>
       ELSE CloseSession(w) /\ UNCHANGED disk
    /\ UNCHANGED <<user, upsets>>

CreateWork(w) ==
    /\ pc[w] = "session"
    /\ IF dir["data"] = orig[w] /\ dir["work"] = 0
       THEN /\ Create("work", 0)
            /\ copy' = [copy EXCEPT ![w] = files + 1]
            /\ base' = [base EXCEPT ![w] = body[orig[w]]]
            /\ Goto(w, "copying")
            /\ UNCHANGED <<last, stem, acked, orig, spare, raced>>
       ELSE CloseSession(w) /\ UNCHANGED disk
    /\ UNCHANGED <<user, upsets>>

WriteCopy(w) ==
    /\ pc[w] = "copying"
    /\ NewVersion(base[w])
    /\ body' = [body EXCEPT ![copy[w]] = last + 1]
    /\ Goto(w, "copied")
    /\ UNCHANGED <<dir, past, files, acked, orig, copy, spare, base, raced,
                   user, upsets>>

(* Mutant: a failed verification of the copy is only logged.               *)
WriteCopyFailureIgnored(w) ==
    /\ pc[w] = "copying"
    /\ Goto(w, "copied")
    /\ UNCHANGED <<disk, orig, copy, spare, base, raced, user, upsets>>

(* Rows the format cannot hold, a failed verification, a cancelled read.   *)
WriteCopyFails(w) ==
    /\ pc[w] = "copying"
    /\ Goto(w, "drop")
    /\ UNCHANGED <<disk, orig, copy, spare, base, raced, user, upsets>>

-----------------------------------------------------------------------------
(* The backup: a hard link to the data file, or a copy where there is none. *)

CheckBinding(w) ==
    /\ pc[w] = "copied"
    /\ Goto(w, IF dir["data"] = orig[w] THEN "bound" ELSE "drop")
    /\ UNCHANGED <<disk, orig, copy, spare, base, raced, user, upsets>>

LinkBackup(w) ==
    /\ pc[w] = "bound"
    /\ dir["bakNew"] = 0 /\ dir["data"] # 0
    /\ SetDir([dir EXCEPT !["bakNew"] = dir["data"]])
    /\ Goto(w, "linked")
    /\ UNCHANGED <<files, body, last, stem, acked, orig, copy, spare, base,
                   raced, user, upsets>>

(* The name exists, or the file system has no links.                       *)
LinkFails(w) ==
    /\ pc[w] = "bound"
    /\ Goto(w, "fallback")
    /\ UNCHANGED <<disk, orig, copy, spare, base, raced, user, upsets>>

(* The link is of the locked file; a link of another one is left behind.   *)
RequireLinkLeaf(w) ==
    /\ pc[w] = "linked"
    /\ Goto(w, IF dir["bakNew"] = orig[w] THEN "prepared" ELSE "drop")
    /\ UNCHANGED <<disk, orig, copy, spare, base, raced, user, upsets>>

(* Mutant: the backup file is opened with O_TRUNC instead of O_EXCL.       *)
CreateBackupTruncating(w) ==
    /\ pc[w] = "fallback"
    /\ files < MaxFiles
    /\ files' = files + 1
    /\ body' = [body EXCEPT ![files + 1] = 0]
    /\ SetDir([dir EXCEPT !["bakNew"] = files + 1])
    /\ spare' = [spare EXCEPT ![w] = files + 1]
    /\ Goto(w, "spare")
    /\ UNCHANGED <<last, stem, acked, orig, copy, base, raced, user, upsets>>

CreateBackup(w) ==
    /\ pc[w] = "fallback"
    /\ Create("bakNew", 0)
    /\ spare' = [spare EXCEPT ![w] = files + 1]
    /\ Goto(w, "spare")
    /\ UNCHANGED <<last, stem, acked, orig, copy, base, raced, user, upsets>>

(* Mutant: the refusal returns without removing the work file.             *)
CreateBackupFailsUncleaned(w) ==
    /\ pc[w] = "fallback"
    /\ CloseSession(w)
    /\ UNCHANGED <<disk, user, upsets>>

(* A file of that name exists, or none can be created.                     *)
CreateBackupFails(w) ==
    /\ pc[w] = "fallback"
    /\ Goto(w, "drop")
    /\ UNCHANGED <<disk, orig, copy, spare, base, raced, user, upsets>>

CopyBackup(w) ==
    /\ pc[w] = "spare"
    /\ body' = [body EXCEPT ![spare[w]] = body[orig[w]]]
    /\ Goto(w, "prepared")
    /\ UNCHANGED <<dir, past, files, last, stem, acked, orig, copy, spare,
                   base, raced, user, upsets>>

CopyBackupFails(w) ==
    /\ pc[w] = "spare"
    /\ Goto(w, "undo")
    /\ UNCHANGED <<disk, orig, copy, spare, base, raced, user, upsets>>

-----------------------------------------------------------------------------
(* Publication: the last check, then the two renames.                      *)

BackupFile(w) == IF spare[w] = 0 THEN orig[w] ELSE spare[w]

(* Mutant: the last check does not look at the data file's name again.     *)
FinalCheckUnbound(w) ==
    /\ pc[w] = "prepared"
    /\ \/ /\ dir["work"] = copy[w]
          /\ dir["bakNew"] = BackupFile(w)
          /\ Goto(w, "final")
       \/ Goto(w, "dropBoth")
    /\ UNCHANGED <<disk, orig, copy, spare, base, raced, user, upsets>>

(* The identities the check compares are those the session holds open; its  *)
(* caller may refuse as well (a changed source, policy, a cancellation).    *)
FinalCheck(w) ==
    /\ pc[w] = "prepared"
    /\ \/ /\ dir["data"] = orig[w]
          /\ dir["work"] = copy[w]
          /\ dir["bakNew"] = BackupFile(w)
          /\ Goto(w, "final")
       \/ Goto(w, "dropBoth")
    /\ UNCHANGED <<disk, orig, copy, spare, base, raced, user, upsets>>

RenameData(w) ==
    /\ pc[w] = "final"
    /\ dir["work"] # 0
    /\ Rename("work", "data")
    /\ Goto(w, "published")
    /\ UNCHANGED <<files, body, last, stem, acked, orig, copy, spare, base,
                   raced, user, upsets>>

RenameDataFails(w) ==
    /\ pc[w] = "final"
    /\ Upset
    /\ Goto(w, "dropBoth")
    /\ UNCHANGED <<disk, orig, copy, spare, base, raced, user>>

RenameBackup(w) ==
    /\ pc[w] = "published"
    /\ dir["bakNew"] # 0
    /\ Rename("bakNew", "bak")
    /\ Goto(w, "renamed")
    /\ UNCHANGED <<files, body, last, stem, acked, orig, copy, spare, base,
                   raced, user, upsets>>

(* Mutant: a failed rename of the backup is cleaned up like any failure.   *)
RenameBackupFailsCleaning(w) ==
    /\ pc[w] = "published"
    /\ Upset
    /\ Goto(w, "dropBak")
    /\ UNCHANGED <<disk, orig, copy, spare, base, raced, user>>

(* Error::Published: the new database stands, its backup keeps the work     *)
(* name and the previous backup is untouched.                               *)
RenameBackupFails(w) ==
    /\ pc[w] = "published"
    /\ Upset
    /\ CloseSession(w)
    /\ UNCHANGED <<disk, user>>

(* Mutant: success is reported before the directory is synced.             *)
ReportUnsynced(w) ==
    /\ pc[w] = "renamed"
    /\ acked' = IF copy[w] > acked THEN copy[w] ELSE acked
    /\ CloseSession(w)
    /\ UNCHANGED <<dir, past, files, body, last, stem, user, upsets>>

(* The directory is synced before the lock goes and the write reports.     *)
SyncAndReport(w) ==
    /\ pc[w] = "renamed"
    /\ past' = {dir}
    /\ acked' = IF copy[w] > acked THEN copy[w] ELSE acked
    /\ CloseSession(w)
    /\ UNCHANGED <<dir, files, body, last, stem, user, upsets>>

-----------------------------------------------------------------------------
(* Clearing up after a failure, by name.                                   *)

(* A failed backup copy: its file goes first, then the work file.          *)
UndoBackup(w) ==
    /\ pc[w] = "undo"
    /\ Remove("bakNew")
    /\ Goto(w, "drop")
    /\ UNCHANGED <<files, body, last, stem, acked, orig, copy, spare, base,
                   raced, user, upsets>>

DropWork(w) ==
    /\ pc[w] = "drop"
    /\ Remove("work")
    /\ CloseSession(w)
    /\ UNCHANGED <<files, body, last, stem, acked, user, upsets>>

(* A rejected check or a failed rename: the work file, then the backup.    *)
DropWorkFirst(w) ==
    /\ pc[w] = "dropBoth"
    /\ Remove("work")
    /\ Goto(w, "dropBak")
    /\ UNCHANGED <<files, body, last, stem, acked, orig, copy, spare, base,
                   raced, user, upsets>>

DropBackup(w) ==
    /\ pc[w] = "dropBak"
    /\ Remove("bakNew")
    /\ CloseSession(w)
    /\ UNCHANGED <<files, body, last, stem, acked, user, upsets>>

-----------------------------------------------------------------------------
(* The surroundings.                                                       *)

(* A process dies: its descriptors close and its lock goes with them.      *)
Crash(w) ==
    /\ pc[w] # "idle"
    /\ Upset
    /\ CloseSession(w)
    /\ UNCHANGED <<disk, user>>

(* The machine stops and comes back with a directory the disk had.         *)
PowerCut ==
    /\ PowerCuts
    /\ Upset
    /\ \E d \in past : dir' = d /\ past' = {d}
    /\ pc' = [w \in Writers |-> "idle"]
    /\ orig' = [w \in Writers |-> 0]
    /\ copy' = [w \in Writers |-> 0]
    /\ spare' = [w \in Writers |-> 0]
    /\ base' = [w \in Writers |-> 0]
    /\ raced' = {}
    /\ user' = [u \in Users |-> 0]
    /\ UNCHANGED <<files, body, last, stem, acked>>

Quiet == \A w \in Writers : pc[w] = "idle"

(* What the refusals ask of the operator: with no import running, delete a  *)
(* stale work file; keep the pre-write database of an interrupted           *)
(* publication as the backup and delete any other stale backup file.        *)
OperatorDeletesWork ==
    /\ Quiet /\ dir["work"] # 0
    /\ Remove("work")
    /\ UNCHANGED <<files, body, last, stem, acked, session, user, upsets>>

OperatorSettlesBackup ==
    /\ Quiet /\ dir["bakNew"] # 0
    /\ IF body[dir["bakNew"]] = stem[Db]
       THEN Rename("bakNew", "bak") ELSE Remove("bakNew")
    /\ UNCHANGED <<files, body, last, stem, acked, session, user, upsets>>

(* An administrator who takes no lock puts a complete file in place.       *)
ReplaceUnlocked ==
    /\ Unlocked
    /\ Upset
    /\ files < MaxFiles
    /\ NewVersion(0)
    /\ files' = files + 1
    /\ body' = [body EXCEPT ![files + 1] = last + 1]
    /\ SetDir([dir EXCEPT !["data"] = files + 1])
    /\ raced' = raced \cup {w \in Writers : pc[w] = "final"}
    /\ UNCHANGED <<acked, pc, orig, copy, spare, base, user>>

UserOpens(u) ==
    /\ user[u] = 0
    /\ dir["data"] # 0
    /\ LockedBy(dir["data"]) = {}
    /\ user' = [user EXCEPT ![u] = dir["data"]]
    /\ UNCHANGED <<disk, session, upsets>>

UserEdits(u) ==
    /\ user[u] # 0
    /\ NewVersion(stem[body[user[u]]])
    /\ body' = [body EXCEPT ![user[u]] = last + 1]
    /\ UNCHANGED <<dir, past, files, acked, session, user, upsets>>

UserCloses(u) ==
    /\ user[u] # 0
    /\ user' = [user EXCEPT ![u] = 0]
    /\ UNCHANGED <<disk, session, upsets>>

-----------------------------------------------------------------------------
(* Steps the program takes once a session is open.                         *)
Step(w) ==
    \/ LockData(w) \/ RequireBinding(w) \/ EndUnwritten(w)
    \/ CreateWork(w) \/ WriteCopy(w) \/ WriteCopyFails(w)
    \/ CheckBinding(w) \/ LinkBackup(w) \/ LinkFails(w) \/ RequireLinkLeaf(w)
    \/ CreateBackup(w) \/ CreateBackupFails(w)
    \/ CopyBackup(w) \/ CopyBackupFails(w)
    \/ FinalCheck(w) \/ RenameData(w) \/ RenameBackup(w) \/ SyncAndReport(w)
    \/ UndoBackup(w) \/ DropWork(w) \/ DropWorkFirst(w) \/ DropBackup(w)

Fault(w) == RenameDataFails(w) \/ RenameBackupFails(w) \/ Crash(w)

Next ==
    \/ \E w \in Writers : OpenData(w) \/ Step(w) \/ Fault(w)
    \/ \E u \in Users : UserOpens(u) \/ UserEdits(u) \/ UserCloses(u)
    \/ PowerCut \/ OperatorDeletesWork \/ OperatorSettlesBackup
    \/ ReplaceUnlocked

Spec == Init /\ [][Next]_vars

(* A running session keeps running; nothing else is promised to happen.    *)
FairSpec == Spec /\ \A w \in Writers : WF_vars(Step(w))

-----------------------------------------------------------------------------
TypeOK ==
    /\ dir \in [Names -> 0 .. MaxFiles]
    /\ past \in SUBSET [Names -> 0 .. MaxFiles]
    /\ files \in File
    /\ body \in [File -> 0 .. MaxVersion]
    /\ last \in Version
    /\ stem \in [Version -> 0 .. MaxVersion]
    /\ acked \in 0 .. MaxFiles
    /\ pc \in [Writers -> Stage]
    /\ orig \in [Writers -> 0 .. MaxFiles]
    /\ copy \in [Writers -> 0 .. MaxFiles]
    /\ spare \in [Writers -> 0 .. MaxFiles]
    /\ base \in [Writers -> 0 .. MaxVersion]
    /\ raced \subseteq Writers
    /\ user \in [Users -> 0 .. MaxFiles]
    /\ upsets \in 0 .. MaxUpsets

(* Whatever a crash, a failed call or a power cut leaves, the data file's   *)
(* name leads to a complete database (lib.rs: the copy is written, verified *)
(* and synced before the rename).                                           *)
DataWhole == \A d \in past \cup {dir} : d["data"] # 0 /\ body[d["data"]] # 0

(* While a session may still rename or remove `work`, that name is the file *)
(* it created itself: no session publishes or deletes another's work file   *)
(* (lib.rs: create_new establishes ownership).                              *)
WorkOwned == \A w \in Writers : pc[w] \in OwnsWork => dir["work"] = copy[w]

(* While a session may still rename or remove `bakNew`, that name is its    *)
(* own copy, or its own link to the file it replaces: a pre-existing backup *)
(* is never removed, truncated or overwritten (lib.rs, prepare_backup_file). *)
BackupOwned ==
    \A w \in Writers :
        pc[w] \in OwnsBackup => dir["bakNew"] = BackupFile(w)

(* Neither is ever another session's: what a session renames or removes    *)
(* under either name is its own (lib.rs, replace_guarded).                 *)
FilesOwned == WorkOwned /\ BackupOwned

(* A database some write published has, in every directory the disk may     *)
(* hold, the version that write replaced under the backup's name or under   *)
(* the recovery name: neither a failed rename nor a crash between the two   *)
(* loses the only recovery generation (lib.rs, publish_files).              *)
RecoveryKept ==
    \A d \in past \cup {dir} :
        LET replaced == stem[body[d["data"]]] IN
        replaced # 0 =>
            \E n \in {"bak", "bakNew"} : d[n] # 0 /\ body[d[n]] = replaced

(* A write that was reported as published survives every later power cut:   *)
(* no directory the disk may fall back to has a file older than the one it  *)
(* published (lib.rs: the directory is synced before the report).           *)
AckedDurable == \A d \in past \cup {dir} : d["data"] >= acked

(* With no crash, fault or unlocked replacement so far, sessions that ended *)
(* left nothing behind that would make a later write refuse.                *)
NothingLeft ==
    (upsets = 0 /\ Quiet) => dir["work"] = 0 /\ dir["bakNew"] = 0

(* A publication replaces exactly the version its copy was made from:       *)
(* neither a platform edit nor another import is lost under it.  Only a     *)
(* replacement that takes no lock and falls between the last check and the  *)
(* rename escapes (lib.rs: "not an atomic filesystem CAS against            *)
(* noncooperating leaf-entry writers").                                     *)
NoLostUpdate ==
    [][\A w \in Writers :
          (pc[w] = "final" /\ pc'[w] = "published" /\ w \notin raced)
             => base[w] = Db]_vars

(* A session that runs ends, whatever it meets: no step of it waits for     *)
(* another process.                                                         *)
SessionEnds == \A w \in Writers : pc[w] # "idle" ~> pc[w] = "idle"
-----------------------------------------------------------------------------
(* The versions found under the names of the backup.                       *)
Kept == {body[dir[n]] : n \in {m \in {"bak", "bakNew"} : dir[m] # 0}} \ {0}

Store == INSTANCE InfobaseStore
         WITH Versions <- Version, db <- Db, needed <- stem[Db], kept <- Kept

(* With no power cut and nobody working around the lock, the protocol does  *)
(* what InfobaseStore promises: an import takes effect in the one step that *)
(* renames the work copy, over the version the copy was made from, with     *)
(* that version already kept, whatever crashes and failures fall around it. *)
ImplementsStore == Store!Spec
=============================================================================
