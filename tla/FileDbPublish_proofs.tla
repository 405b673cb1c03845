------------------------- MODULE FileDbPublish_proofs -------------------------
(***************************************************************************)
(* Proofs about FileDbPublish for any sets of writers and users and any    *)
(* bounds, with and without power cuts and unlocked replacements.          *)
(*                                                                         *)
(* The inductive invariant IInv adds to the properties what they rest on:  *)
(* file numbers are never reused (Fresh, Apart), a file that was never the *)
(* database is not edited by a user nor taken for one (Unpublished), the   *)
(* lock excludes (Excluded), and what a session copied from is still what  *)
(* it holds (Current).                                                     *)
(***************************************************************************)
EXTENDS FileDbPublish, TLAPS

(* The directories the disk may hold.                                      *)
Dirs == past \cup {dir}

(* Every file the state speaks of was created.                             *)
Fresh ==
    /\ files \in Nat
    /\ \A d \in Dirs : \A n \in Names : d[n] \in 0 .. files
    /\ \A w \in Writers : {orig[w], copy[w], spare[w]} \subseteq 0 .. files
    /\ \A u \in Users : user[u] \in 0 .. files

(* What a session at a stage has opened and created.                       *)
BeforeSpare == {"idle", "opened", "locked", "session", "copying", "copied",
                "bound", "linked", "fallback"}

Shape ==
    \A w \in Writers :
        /\ pc[w] # "idle" => orig[w] # 0
        /\ pc[w] \in OwnsWork => copy[w] # 0
        /\ pc[w] \in BeforeSpare => spare[w] = 0
        /\ pc[w] \in {"spare", "undo"} => spare[w] # 0

(* No two sessions created the same file, nor one session twice.           *)
Apart ==
    \A w, v \in Writers :
        /\ copy[w] # 0 /\ copy[w] = copy[v] => w = v
        /\ spare[w] # 0 /\ spare[w] = spare[v] => w = v
        /\ spare[w] # 0 => spare[w] # copy[v]

(* A file that never was the database, under whatever directory comes back. *)
NeverData(f) ==
    /\ \A d \in Dirs : d["data"] # f
    /\ \A w \in Writers : orig[w] # f
    /\ \A u \in Users : user[u] # f

Unpublished ==
    \A w \in Writers :
        /\ spare[w] # 0 => NeverData(spare[w])
        /\ pc[w] = "copying" => NeverData(copy[w])

(* The lock excludes users and other writers of the same file.             *)
Excluded ==
    \A w \in Writers :
        pc[w] \in Locked =>
            /\ \A u \in Users : user[u] # orig[w]
            /\ \A v \in Writers :
                  pc[v] \in Locked /\ orig[v] = orig[w] => v = w

(* Finished work copies and files in use are complete.                     *)
Finished == {"copied", "bound", "linked", "fallback", "spare", "prepared",
             "final"}

Complete ==
    /\ \A w \in Writers : pc[w] \in Finished => body[copy[w]] # 0
    /\ \A u \in Users : user[u] # 0 => body[user[u]] # 0

(* What the copy was made from is still what the locked file holds, and at  *)
(* the rename that file is the database unless someone raced.               *)
Writing == OwnsWork \cup {"published"}

Current ==
    \A w \in Writers :
        /\ pc[w] \in Writing => body[orig[w]] = base[w]
        /\ pc[w] = "final" /\ w \notin raced => dir["data"] = orig[w]

(* The inductive invariant.                                                *)
IInv ==
    /\ TypeOK /\ Fresh /\ Shape /\ Apart /\ Unpublished /\ Excluded
    /\ Complete /\ Current /\ DataWhole /\ WorkOwned /\ BackupOwned

-----------------------------------------------------------------------------
(* Effects: what the helpers of the actions change, value by value.         *)

USE FileDbAssumption

Moves(w, s) ==
    /\ pc'[w] = s
    /\ \A v \in Writers \ {w} : pc'[v] = pc[v]

Closes(w) ==
    /\ Moves(w, "idle")
    /\ orig'[w] = 0 /\ copy'[w] = 0 /\ spare'[w] = 0
    /\ \A v \in Writers \ {w} :
          /\ orig'[v] = orig[v] /\ copy'[v] = copy[v] /\ spare'[v] = spare[v]
          /\ base'[v] = base[v]
          /\ v \in raced' <=> v \in raced

Binds(name, f) ==
    /\ dir'[name] = f
    /\ \A n \in Names \ {name} : dir'[n] = dir[n]
    /\ Dirs' \subseteq Dirs \cup {dir'}

Writes(f, version) ==
    /\ body'[f] = version
    /\ \A g \in File \ {f} : body'[g] = body[g]

Begins(s) ==
    /\ last' = last + 1
    /\ stem'[last + 1] = s
    /\ \A v \in Version \ {last + 1} : stem'[v] = stem[v]

DirType == [Names -> 0 .. MaxFiles]

(* Goto moves one session to a stage.                                      *)
LEMMA GotoMoves ==
    ASSUME TypeOK, NEW w \in Writers, NEW s \in Stage, Goto(w, s)
    PROVE  Moves(w, s) /\ pc' \in [Writers -> Stage]
  BY DEF TypeOK, Goto, Moves

(* CloseSession forgets what one session held, and no other.               *)
LEMMA CloseSessionCloses ==
    ASSUME TypeOK, NEW w \in Writers, CloseSession(w)
    PROVE  /\ Closes(w)
           /\ pc' \in [Writers -> Stage]
           /\ orig' \in [Writers -> 0 .. MaxFiles]
           /\ copy' \in [Writers -> 0 .. MaxFiles]
           /\ spare' \in [Writers -> 0 .. MaxFiles]
           /\ base' \in [Writers -> 0 .. MaxVersion]
           /\ raced' \subseteq Writers
  <1>1. "idle" \in Stage
    BY DEF Stage
  <1>2. Moves(w, "idle") /\ pc' \in [Writers -> Stage]
    BY <1>1, GotoMoves DEF CloseSession
  <1>3. raced' \subseteq Writers /\ \A v \in Writers \ {w} :
            v \in raced' <=> v \in raced
    BY DEF TypeOK, CloseSession
  <1>4. /\ orig'[w] = 0 /\ \A v \in Writers \ {w} : orig'[v] = orig[v]
        /\ orig' \in [Writers -> 0 .. MaxFiles]
    BY DEF TypeOK, CloseSession
  <1>5. /\ copy'[w] = 0 /\ \A v \in Writers \ {w} : copy'[v] = copy[v]
        /\ copy' \in [Writers -> 0 .. MaxFiles]
    BY DEF TypeOK, CloseSession
  <1>6. /\ spare'[w] = 0 /\ \A v \in Writers \ {w} : spare'[v] = spare[v]
        /\ spare' \in [Writers -> 0 .. MaxFiles]
    BY DEF TypeOK, CloseSession
  <1>7. /\ \A v \in Writers \ {w} : base'[v] = base[v]
        /\ base' \in [Writers -> 0 .. MaxVersion]
    BY DEF TypeOK, CloseSession
  <1> QED
    BY <1>2, <1>3, <1>4, <1>5, <1>6, <1>7 DEF Closes

(* A changed directory is one the disk may hold.                           *)
LEMMA SetDirType ==
    ASSUME TypeOK, NEW d \in DirType, SetDir(d)
    PROVE  /\ dir' = d /\ dir' \in DirType /\ past' \in SUBSET DirType
           /\ Dirs' \subseteq Dirs \cup {dir'}
  BY DEF TypeOK, SetDir, Dirs, DirType

(* Binding one name leaves the other names alone.                          *)
LEMMA BindType ==
    ASSUME TypeOK, NEW name \in Names, NEW f \in 0 .. MaxFiles,
           SetDir([dir EXCEPT ![name] = f])
    PROVE  Binds(name, f) /\ dir' \in DirType /\ past' \in SUBSET DirType
  <1>1. [dir EXCEPT ![name] = f] \in DirType
    BY DEF TypeOK, DirType
  <1>2. /\ dir' = [dir EXCEPT ![name] = f]
        /\ dir' \in DirType /\ past' \in SUBSET DirType
        /\ Dirs' \subseteq Dirs \cup {dir'}
    BY <1>1, SetDirType
  <1> QED
    BY <1>2 DEF TypeOK, Binds

(* A rename moves one entry over another.                                  *)
LEMMA RenameType ==
    ASSUME TypeOK, NEW from \in Names, NEW to \in Names, from # to,
           Rename(from, to)
    PROVE  /\ dir'[to] = dir[from] /\ dir'[from] = 0
           /\ \A n \in Names \ {from, to} : dir'[n] = dir[n]
           /\ Dirs' \subseteq Dirs \cup {dir'}
           /\ dir' \in DirType /\ past' \in SUBSET DirType
  <1> DEFINE d == [n \in Names |-> IF n = to THEN dir[from]
                                   ELSE IF n = from THEN 0 ELSE dir[n]]
  <1>1. d \in DirType
    BY DEF TypeOK, DirType
  <1>2. /\ dir' = d /\ dir' \in DirType /\ past' \in SUBSET DirType
        /\ Dirs' \subseteq Dirs \cup {dir'}
    BY <1>1, SetDirType DEF Rename
  <1> QED
    BY <1>2

(* Writing one file leaves the other bodies alone.                         *)
LEMMA WriteType ==
    ASSUME TypeOK, NEW f \in File, NEW v \in 0 .. MaxVersion,
           body' = [body EXCEPT ![f] = v]
    PROVE  Writes(f, v) /\ body' \in [File -> 0 .. MaxVersion]
  BY DEF TypeOK, Writes

(* A new version has a number of its own.                                  *)
LEMMA NewVersionType ==
    ASSUME TypeOK, NEW s \in 0 .. MaxVersion, NewVersion(s)
    PROVE  /\ last + 1 \in Version /\ last + 1 # 0 /\ Begins(s)
           /\ last' \in Version /\ stem' \in [Version -> 0 .. MaxVersion]
  <1>1. last + 1 \in Version /\ last + 1 # 0 /\ last' = last + 1
    BY DEF TypeOK, NewVersion, Version
  <1> QED
    BY <1>1 DEF TypeOK, NewVersion, Begins

(* A counted upset stays within its bound.                                 *)
LEMMA UpsetType ==
    ASSUME TypeOK, Upset
    PROVE  upsets' \in 0 .. MaxUpsets
  BY DEF TypeOK, Upset

-----------------------------------------------------------------------------
(* Consequences of the invariant that several actions need.                 *)

(* Every file the state speaks of has a body.                              *)
LEMMA InFile ==
    ASSUME IInv
    PROVE  /\ \A d \in Dirs : d["data"] \in File
           /\ \A w \in Writers : /\ orig[w] # 0 => orig[w] \in File
                                 /\ copy[w] # 0 => copy[w] \in File
                                 /\ spare[w] # 0 => spare[w] \in File
           /\ \A u \in Users : user[u] # 0 => user[u] \in File
  <1>1. files \in Nat /\ files <= MaxFiles
    BY DEF IInv, TypeOK, File
  <1>2. \A f \in 0 .. files : f # 0 => f \in File
    BY <1>1 DEF File
  <1> QED
    BY <1>2 DEF IInv, Fresh, DataWhole, Dirs, Names

(* The next file number is nowhere in the state.                           *)
LEMMA NewNumber ==
    ASSUME IInv
    PROVE  /\ files \in Nat /\ files + 1 # 0
           /\ \A d \in Dirs : \A n \in Names : d[n] # files + 1
           /\ \A w \in Writers : /\ orig[w] # files + 1
                                 /\ copy[w] # files + 1
                                 /\ spare[w] # files + 1
           /\ \A u \in Users : user[u] # files + 1
  BY DEF IInv, Fresh

(* At most one session owns the work file.                                 *)
LEMMA OneWork ==
    ASSUME IInv, NEW w \in Writers, NEW v \in Writers,
           pc[w] \in OwnsWork, pc[v] \in OwnsWork
    PROVE  w = v
  BY DEF IInv, WorkOwned, Apart, Shape

(* At most one session owns the backup file.                               *)
LEMMA OneBackup ==
    ASSUME IInv, NEW w \in Writers, NEW v \in Writers,
           pc[w] \in OwnsBackup, pc[v] \in OwnsBackup
    PROVE  w = v
  <1>1. BackupFile(w) = BackupFile(v)
    BY DEF IInv, BackupOwned
  <1>2. pc[w] \in Locked /\ pc[v] \in Locked
    BY DEF OwnsBackup, Locked
  <1> QED
    BY <1>1, <1>2 DEF IInv, BackupFile, Excluded, Apart, Unpublished, NeverData

-----------------------------------------------------------------------------
(* One lemma per action.                                                    *)

(* A session that closes, leaving the disk alone, keeps the invariant.      *)
LEMMA ClosingKeeps ==
    ASSUME NEW w \in Writers, IInv, CloseSession(w),
           UNCHANGED <<dir, past, files, body, last, stem, acked, user>>,
           upsets' \in 0 .. MaxUpsets
    PROVE  IInv'
  <1> Closes(w)
    BY CloseSessionCloses DEF IInv
  <1>1. TypeOK'
    BY CloseSessionCloses DEF IInv, TypeOK
  <1>2. Fresh'
    BY DEF IInv, Moves, Closes, Fresh, Dirs, Names
  <1>3. Shape'
    BY DEF IInv, Moves, Closes, Shape, OwnsWork, BeforeSpare
  <1>4. Apart'
    BY DEF IInv, Moves, Closes, Apart
  <1>5. Unpublished'
    BY DEF IInv, Moves, Closes, Unpublished, NeverData, Dirs, Shape,
       OwnsWork, BeforeSpare
  <1>6. Excluded'
    BY DEF IInv, Moves, Closes, Excluded, Locked
  <1>7. Complete'
    BY DEF IInv, Moves, Closes, Complete, Finished
  <1>8. Current'
    BY DEF IInv, Moves, Closes, Current, Writing, OwnsWork
  <1>9. WorkOwned'
    BY DEF IInv, Moves, Closes, WorkOwned, OwnsWork
  <1>10. BackupOwned'
    BY DEF IInv, Moves, Closes, BackupOwned, BackupFile, OwnsBackup
  <1>11. DataWhole'
    BY DEF IInv, DataWhole
  <1> QED
    BY <1>1, <1>2, <1>3, <1>4, <1>5, <1>6, <1>7, <1>8, <1>9, <1>10,
       <1>11 DEF IInv

(* A session that moves on to another stage under its lock, with nothing    *)
(* else changed, keeps the invariant if the stage claims no more than it    *)
(* may.                                                                     *)
LEMMA MoveKeeps ==
    ASSUME NEW w \in Writers, NEW s \in Locked, IInv, Goto(w, s),
           UNCHANGED <<dir, past, files, body, last, stem, acked, orig, copy,
                       spare, base, raced, user>>,
           upsets' \in 0 .. MaxUpsets,
           pc[w] \in Locked, s # "copying",
           s \in OwnsWork => pc[w] \in OwnsWork,
           s \in OwnsBackup => dir["bakNew"] = BackupFile(w),
           s \in BeforeSpare => pc[w] \in BeforeSpare,
           s \in {"spare", "undo"} => pc[w] = "spare",
           s \in Finished => pc[w] \in Finished,
           s \in Writing => pc[w] \in Writing,
           s = "final" => dir["data"] = orig[w]
    PROVE  IInv'
  <1> Moves(w, s) /\ pc' \in [Writers -> Stage]
    BY GotoMoves DEF IInv, Stage
  <1>1. TypeOK'
    BY DEF IInv, TypeOK
  <1>2. Shape'
    BY DEF IInv, Moves, Shape, OwnsWork, BeforeSpare, Locked
  <1>3. Unpublished'
    BY DEF IInv, Moves, Unpublished, NeverData, Dirs
  <1>4. Excluded'
    BY DEF IInv, Moves, Excluded, Locked
  <1>5. Complete'
    BY DEF IInv, Moves, Complete, Finished
  <1>6. Current'
    BY DEF IInv, Moves, Current, Writing, OwnsWork
  <1>7. WorkOwned'
    BY DEF IInv, Moves, WorkOwned, OwnsWork
  <1>8. BackupOwned'
    BY DEF IInv, Moves, BackupOwned, BackupFile, OwnsBackup
  <1>9. (Fresh /\ Apart /\ DataWhole)'
    BY DEF IInv, Fresh, Dirs, Apart, DataWhole
  <1> QED
    BY <1>1, <1>2, <1>3, <1>4, <1>5, <1>6, <1>7, <1>8, <1>9 DEF IInv

(* What OpenData changes.                                                  *)
OpenDataChanges(w) ==
    /\ pc[w] = "idle" /\ Moves(w, "opened") /\ pc' \in [Writers -> Stage]
    /\ dir["data"] # 0 /\ orig'[w] = dir["data"]
    /\ \A v \in Writers \ {w} : orig'[v] = orig[v]
    /\ orig' \in [Writers -> 0 .. MaxFiles]
    /\ UNCHANGED <<dir, past, files, body, last, stem, acked, copy,
                  spare, base, raced, user, upsets>>

LEMMA OpenDataEffect ==
    ASSUME NEW w \in Writers, IInv, OpenData(w)
    PROVE  OpenDataChanges(w)
  <1> USE DEF OpenDataChanges
  <1>1. "opened" \in Stage
    BY DEF Stage, Locking
  <1>2. dir["data"] \in 0 .. MaxFiles
    BY DEF IInv, TypeOK, Names
  <1> QED
    BY <1>1, <1>2, GotoMoves DEF OpenData, IInv, TypeOK, disk

(* OpenData keeps the invariant.                                           *)
LEMMA OpenDataKeeps ==
    ASSUME NEW w \in Writers, IInv, OpenData(w)
    PROVE  IInv'
  <1> USE DEF OpenDataChanges
  <1>1. OpenDataChanges(w)
    BY OpenDataEffect
  <1>2. TypeOK'
    BY <1>1 DEF IInv, TypeOK, DirType
  <1>3. Fresh'
    BY <1>1 DEF IInv, Moves, Fresh, Dirs, Names
  <1>4. Shape'
    BY <1>1 DEF IInv, Moves, Shape, OwnsWork, BeforeSpare
  <1>5. Unpublished'
    BY <1>1 DEF IInv, Moves, Unpublished, NeverData, Dirs, Shape, OwnsWork,
       BeforeSpare
  <1>6. Excluded'
    BY <1>1 DEF IInv, Moves, Excluded, Locked
  <1>7. Complete'
    BY <1>1 DEF IInv, Moves, Complete, Finished
  <1>8. Current'
    BY <1>1 DEF IInv, Moves, Current, Writing, OwnsWork
  <1>9. WorkOwned'
    BY <1>1 DEF IInv, Moves, WorkOwned, OwnsWork
  <1>10. BackupOwned'
    BY <1>1 DEF IInv, Moves, BackupOwned, BackupFile, OwnsBackup
  <1>11. (Apart /\ DataWhole)'
    BY <1>1 DEF IInv, Apart, DataWhole
  <1> QED
    BY <1>1, <1>2, <1>3, <1>4, <1>5, <1>6, <1>7, <1>8, <1>9, <1>10,
       <1>11 DEF IInv

(* LockData keeps the invariant.                                           *)
LEMMA LockDataKeeps ==
    ASSUME NEW w \in Writers, IInv, LockData(w)
    PROVE  IInv'
  <1>a. CASE LockedBy(orig[w]) = {} /\ HeldBy(orig[w]) = {}
    <2>1. /\ pc[w] = "opened" /\ Moves(w, "locked")
          /\ pc' \in [Writers -> Stage]
          /\ \A v \in Writers : ~(pc[v] \in Locked /\ orig[v] = orig[w])
          /\ \A u \in Users : user[u] # orig[w]
          /\ UNCHANGED <<dir, past, files, body, last, stem, acked, orig,
                        copy, spare, base, raced, user, upsets>>
      <3>1. "locked" \in Stage
        BY DEF Stage, Locked
      <3> QED
        BY <1>a, <3>1, GotoMoves
           DEF LockData, LockedBy, HeldBy, IInv, disk
    <2>2. TypeOK'
      BY <2>1 DEF IInv, TypeOK, DirType
    <2>3. Shape'
      BY <2>1 DEF IInv, Moves, Shape, OwnsWork, BeforeSpare
    <2>4. Unpublished'
      BY <2>1 DEF IInv, Moves, Unpublished, NeverData, Dirs
    <2>5. Excluded'
      BY <2>1 DEF IInv, Moves, Excluded, Locked
    <2>6. Complete'
      BY <2>1 DEF IInv, Moves, Complete, Finished
    <2>7. Current'
      BY <2>1 DEF IInv, Moves, Current, Writing, OwnsWork
    <2>8. WorkOwned'
      BY <2>1 DEF IInv, Moves, WorkOwned, OwnsWork
    <2>9. BackupOwned'
      BY <2>1 DEF IInv, Moves, BackupOwned, BackupFile, OwnsBackup
    <2>10. (Fresh /\ Apart /\ DataWhole)'
      BY <2>1 DEF IInv, Fresh, Dirs, Apart, DataWhole
    <2> QED
      BY <2>1, <2>2, <2>3, <2>4, <2>5, <2>6, <2>7, <2>8, <2>9, <2>10
         DEF IInv
  <1>b. CASE ~(LockedBy(orig[w]) = {} /\ HeldBy(orig[w]) = {})
    BY <1>b, ClosingKeeps DEF LockData, IInv, TypeOK, disk
  <1> QED
    BY <1>a, <1>b

(* RequireBinding keeps the invariant.                                     *)
LEMMA RequireBindingKeeps ==
    ASSUME NEW w \in Writers, IInv, RequireBinding(w)
    PROVE  IInv'
  <1>1. CASE dir["data"] = orig[w]
    BY <1>1, MoveKeeps DEF RequireBinding, IInv, TypeOK, disk, Locked,
       OwnsWork, OwnsBackup, BeforeSpare, Finished, Writing
  <1>2. CASE dir["data"] # orig[w]
    BY <1>2, ClosingKeeps DEF RequireBinding, IInv, TypeOK, disk
  <1> QED
    BY <1>1, <1>2

(* EndUnwritten keeps the invariant.                                       *)
LEMMA EndUnwrittenKeeps ==
    ASSUME NEW w \in Writers, IInv, EndUnwritten(w)
    PROVE  IInv'
  BY ClosingKeeps DEF EndUnwritten, IInv, TypeOK, disk, session

(* What CreateWork changes.                                                *)
CreateWorkChanges(w) ==
    /\ pc[w] = "session" /\ Moves(w, "copying") /\ pc' \in [Writers -> Stage]
    /\ files + 1 \in File /\ files' = files + 1
    /\ dir["work"] = 0 /\ Binds("work", files + 1)
    /\ dir' \in DirType /\ past' \in SUBSET DirType
    /\ Writes(files + 1, 0) /\ body' \in [File -> 0 .. MaxVersion]
    /\ copy'[w] = files + 1 /\ \A v \in Writers \ {w} : copy'[v] = copy[v]
    /\ copy' \in [Writers -> 0 .. MaxFiles]
    /\ base'[w] = body[orig[w]] /\ \A v \in Writers \ {w} : base'[v] = base[v]
    /\ base' \in [Writers -> 0 .. MaxVersion]
    /\ UNCHANGED <<last, stem, acked, orig, spare, raced, user,
                  upsets>>

LEMMA CreateWorkEffect ==
    ASSUME NEW w \in Writers, IInv, CreateWork(w), dir["data"] = orig[w],
           dir["work"] = 0
    PROVE  CreateWorkChanges(w)
  <1> USE DEF CreateWorkChanges
  <1>1. "copying" \in Stage /\ "work" \in Names
    BY DEF Stage, Locked, Names
  <1>2. files + 1 \in File /\ files + 1 \in 0 .. MaxFiles
    BY DEF CreateWork, Create, IInv, TypeOK, File
  <1>3. orig[w] \in File /\ body[orig[w]] \in 0 .. MaxVersion
    BY DEF CreateWork, IInv, TypeOK, Shape, File
  <1>4. Moves(w, "copying") /\ pc' \in [Writers -> Stage]
    BY <1>1, GotoMoves DEF CreateWork, IInv
  <1>5. /\ Binds("work", files + 1)
        /\ dir' \in DirType /\ past' \in SUBSET DirType
    BY <1>1, <1>2, BindType DEF CreateWork, Create, IInv
  <1>6. Writes(files + 1, 0) /\ body' \in [File -> 0 .. MaxVersion]
    BY <1>2, WriteType DEF CreateWork, Create, IInv
  <1>7. /\ copy'[w] = files + 1
        /\ \A v \in Writers \ {w} : copy'[v] = copy[v]
        /\ copy' \in [Writers -> 0 .. MaxFiles]
    BY <1>2 DEF CreateWork, IInv, TypeOK
  <1>8. /\ base'[w] = body[orig[w]]
        /\ \A v \in Writers \ {w} : base'[v] = base[v]
        /\ base' \in [Writers -> 0 .. MaxVersion]
    BY <1>3 DEF CreateWork, IInv, TypeOK
  <1> QED
    BY <1>2, <1>4, <1>5, <1>6, <1>7, <1>8 DEF CreateWork, Create

(* CreateWork keeps the invariant.                                         *)
LEMMA CreateWorkKeeps ==
    ASSUME NEW w \in Writers, IInv, CreateWork(w)
    PROVE  IInv'
  <1> USE DEF CreateWorkChanges
  <1>a. CASE dir["data"] = orig[w] /\ dir["work"] = 0
    <2>1. CreateWorkChanges(w)
      BY <1>a, CreateWorkEffect
    <2>2. TypeOK'
      BY <2>1 DEF IInv, TypeOK, DirType
    <2>3. Fresh'
      BY <2>1 DEF IInv, Moves, Binds, Writes, Fresh, Dirs, Names
    <2>4. Shape'
      BY <2>1, NewNumber DEF IInv, Moves, Binds, Writes, Shape, OwnsWork,
         BeforeSpare
    <2>5. Apart'
      BY <2>1, NewNumber DEF IInv, Moves, Binds, Writes, Apart
    <2>6. Unpublished'
      BY <2>1, NewNumber DEF IInv, Moves, Binds, Writes, Unpublished,
         NeverData, Dirs, Names
    <2>7. Excluded'
      BY <2>1 DEF IInv, Moves, Binds, Writes, Excluded, Locked
    <2>8. Complete'
      BY <2>1, NewNumber, InFile DEF IInv, Moves, Binds, Writes, Complete,
         Finished, Shape, OwnsWork, BeforeSpare
    <2>9. Current'
      BY <2>1, NewNumber, InFile DEF IInv, Moves, Binds, Writes, Current,
         Writing, OwnsWork, Names, Shape, BeforeSpare
    <2>10. DataWhole'
      BY <2>1, NewNumber, InFile DEF IInv, Moves, Binds, Writes, DataWhole,
         Dirs, Names
    <2>11. WorkOwned'
      BY <2>1 DEF IInv, Moves, Binds, Writes, WorkOwned, OwnsWork, Shape,
         BeforeSpare, Names
    <2>12. BackupOwned'
      BY <2>1 DEF IInv, Moves, Binds, Writes, BackupOwned, BackupFile,
         OwnsBackup, Names
    <2> QED
      BY <2>1, <2>2, <2>3, <2>4, <2>5, <2>6, <2>7, <2>8, <2>9, <2>10,
         <2>11, <2>12 DEF IInv
  <1>b. CASE ~(dir["data"] = orig[w] /\ dir["work"] = 0)
    BY <1>b, ClosingKeeps DEF CreateWork, IInv, TypeOK, disk
  <1> QED
    BY <1>a, <1>b

(* What WriteCopy changes.                                                 *)
WriteCopyChanges(w) ==
    /\ pc[w] = "copying" /\ Moves(w, "copied") /\ pc' \in [Writers -> Stage]
    /\ Writes(copy[w], last + 1) /\ last + 1 # 0 /\ copy[w] \in File
    /\ body' \in [File -> 0 .. MaxVersion]
    /\ Begins(base[w])
    /\ last' \in Version /\ stem' \in [Version -> 0 .. MaxVersion]
    /\ UNCHANGED <<dir, past, files, acked, orig, copy, spare, base,
                  raced, user, upsets>>

LEMMA WriteCopyEffect ==
    ASSUME NEW w \in Writers, IInv, WriteCopy(w)
    PROVE  WriteCopyChanges(w)
  <1> USE DEF WriteCopyChanges
  <1>1. "copied" \in Stage
    BY DEF Stage, Locked
  <1>2. copy[w] \in File /\ base[w] \in 0 .. MaxVersion
    BY DEF WriteCopy, IInv, TypeOK, Shape, OwnsWork, File
  <1>3. /\ last + 1 \in Version /\ last + 1 # 0 /\ Begins(base[w])
        /\ last' \in Version /\ stem' \in [Version -> 0 .. MaxVersion]
    BY <1>2, NewVersionType DEF WriteCopy, IInv
  <1>4. last + 1 \in 0 .. MaxVersion
    BY <1>3 DEF Version
  <1>5. Writes(copy[w], last + 1) /\ body' \in [File -> 0 .. MaxVersion]
    BY <1>2, <1>4, WriteType DEF WriteCopy, IInv
  <1> QED
    BY <1>1, <1>2, <1>3, <1>5, GotoMoves DEF WriteCopy, IInv

(* WriteCopy keeps the invariant.                                          *)
LEMMA WriteCopyKeeps ==
    ASSUME NEW w \in Writers, IInv, WriteCopy(w)
    PROVE  IInv'
  <1> USE DEF WriteCopyChanges
  <1>1. WriteCopyChanges(w)
    BY WriteCopyEffect
  <1>2. TypeOK'
    BY <1>1 DEF IInv, TypeOK, DirType
  <1>3. Shape'
    BY <1>1 DEF IInv, Moves, Writes, Shape, OwnsWork, BeforeSpare
  <1>4. Unpublished'
    BY <1>1 DEF IInv, Moves, Writes, Unpublished, NeverData, Dirs
  <1>5. Excluded'
    BY <1>1 DEF IInv, Moves, Writes, Excluded, Locked
  <1>6. Complete'
    BY <1>1, InFile DEF IInv, Moves, Writes, Complete, Finished, Shape,
       OwnsWork, BeforeSpare
  <1>7. Current'
    BY <1>1, InFile DEF IInv, Moves, Writes, Current, Writing, OwnsWork,
       Shape, BeforeSpare, Unpublished, NeverData, Dirs
  <1>8. DataWhole'
    BY <1>1, InFile DEF IInv, Moves, Writes, DataWhole, Dirs
  <1>9. WorkOwned'
    BY <1>1 DEF IInv, Moves, Writes, WorkOwned, OwnsWork
  <1>10. BackupOwned'
    BY <1>1 DEF IInv, Moves, Writes, BackupOwned, BackupFile, OwnsBackup
  <1>11. (Fresh /\ Apart)'
    BY <1>1 DEF IInv, Fresh, Dirs, Apart
  <1> QED
    BY <1>1, <1>2, <1>3, <1>4, <1>5, <1>6, <1>7, <1>8, <1>9, <1>10,
       <1>11 DEF IInv

(* WriteCopyFails keeps the invariant.                                     *)
LEMMA WriteCopyFailsKeeps ==
    ASSUME NEW w \in Writers, IInv, WriteCopyFails(w)
    PROVE  IInv'
  BY MoveKeeps DEF WriteCopyFails, IInv, TypeOK, disk, Locked, OwnsWork,
     OwnsBackup, BeforeSpare, Finished, Writing

(* CheckBinding keeps the invariant.                                       *)
LEMMA CheckBindingKeeps ==
    ASSUME NEW w \in Writers, IInv, CheckBinding(w)
    PROVE  IInv'
  <1>1. CASE Goto(w, "bound")
    BY <1>1, MoveKeeps DEF CheckBinding, IInv, TypeOK, disk, Locked,
       OwnsWork, OwnsBackup, BeforeSpare, Finished, Writing
  <1>2. CASE Goto(w, "drop")
    BY <1>2, MoveKeeps DEF CheckBinding, IInv, TypeOK, disk, Locked,
       OwnsWork, OwnsBackup, BeforeSpare, Finished, Writing
  <1> QED
    BY <1>1, <1>2 DEF CheckBinding

(* What LinkBackup changes.                                                *)
LinkBackupChanges(w) ==
    /\ pc[w] = "bound" /\ Moves(w, "linked") /\ pc' \in [Writers -> Stage]
    /\ dir["bakNew"] = 0 /\ Binds("bakNew", dir["data"])
    /\ dir' \in DirType /\ past' \in SUBSET DirType
    /\ UNCHANGED <<files, body, last, stem, acked, orig, copy, spare,
                  base, raced, user, upsets>>

LEMMA LinkBackupEffect ==
    ASSUME NEW w \in Writers, IInv, LinkBackup(w)
    PROVE  LinkBackupChanges(w)
  <1> USE DEF LinkBackupChanges
  <1>1. "linked" \in Stage /\ "bakNew" \in Names
    BY DEF Stage, Locked, Names
  <1>2. dir["data"] \in 0 .. MaxFiles
    BY DEF IInv, TypeOK, Names
  <1> QED
    BY <1>1, <1>2, GotoMoves, BindType DEF LinkBackup, IInv

(* LinkBackup keeps the invariant.                                         *)
LEMMA LinkBackupKeeps ==
    ASSUME NEW w \in Writers, IInv, LinkBackup(w)
    PROVE  IInv'
  <1> USE DEF LinkBackupChanges
  <1>1. LinkBackupChanges(w)
    BY LinkBackupEffect
  <1>2. TypeOK'
    BY <1>1 DEF IInv, TypeOK, DirType
  <1>3. Fresh'
    BY <1>1 DEF IInv, Moves, Binds, Fresh, Dirs, Names
  <1>4. Shape'
    BY <1>1 DEF IInv, Moves, Binds, Shape, OwnsWork, BeforeSpare
  <1>5. Unpublished'
    BY <1>1 DEF IInv, Moves, Binds, Unpublished, NeverData, Dirs, Names
  <1>6. Excluded'
    BY <1>1 DEF IInv, Moves, Binds, Excluded, Locked
  <1>7. Complete'
    BY <1>1 DEF IInv, Moves, Binds, Complete, Finished
  <1>8. Current'
    BY <1>1 DEF IInv, Moves, Binds, Current, Writing, OwnsWork, Names
  <1>9. DataWhole'
    BY <1>1 DEF IInv, Moves, Binds, DataWhole, Dirs, Names
  <1>10. WorkOwned'
    BY <1>1 DEF IInv, Moves, Binds, WorkOwned, OwnsWork, Names
  <1>11. BackupOwned'
    BY <1>1 DEF IInv, Moves, Binds, BackupOwned, BackupFile, OwnsBackup,
       Names, Shape, OwnsWork, BeforeSpare
  <1>12. Apart'
    BY <1>1 DEF IInv, Apart
  <1> QED
    BY <1>1, <1>2, <1>3, <1>4, <1>5, <1>6, <1>7, <1>8, <1>9, <1>10,
       <1>11, <1>12 DEF IInv

(* LinkFails keeps the invariant.                                          *)
LEMMA LinkFailsKeeps ==
    ASSUME NEW w \in Writers, IInv, LinkFails(w)
    PROVE  IInv'
  BY MoveKeeps DEF LinkFails, IInv, TypeOK, disk, Locked, OwnsWork,
     OwnsBackup, BeforeSpare, Finished, Writing

(* RequireLinkLeaf keeps the invariant.                                    *)
LEMMA RequireLinkLeafKeeps ==
    ASSUME NEW w \in Writers, IInv, RequireLinkLeaf(w)
    PROVE  IInv'
  <1>1. CASE Goto(w, "prepared")
    BY <1>1, MoveKeeps DEF RequireLinkLeaf, IInv, TypeOK, disk, Locked,
       OwnsWork, OwnsBackup, BeforeSpare, Finished, Writing, BackupFile,
       Shape
  <1>2. CASE Goto(w, "drop")
    BY <1>2, MoveKeeps DEF RequireLinkLeaf, IInv, TypeOK, disk, Locked,
       OwnsWork, OwnsBackup, BeforeSpare, Finished, Writing, BackupFile,
       Shape
  <1> QED
    BY <1>1, <1>2 DEF RequireLinkLeaf

(* What CreateBackup changes.                                              *)
CreateBackupChanges(w) ==
    /\ pc[w] = "fallback" /\ Moves(w, "spare") /\ pc' \in [Writers -> Stage]
    /\ files + 1 \in File /\ files' = files + 1
    /\ dir["bakNew"] = 0 /\ Binds("bakNew", files + 1)
    /\ dir' \in DirType /\ past' \in SUBSET DirType
    /\ Writes(files + 1, 0) /\ body' \in [File -> 0 .. MaxVersion]
    /\ spare'[w] = files + 1 /\ \A v \in Writers \ {w} : spare'[v] = spare[v]
    /\ spare' \in [Writers -> 0 .. MaxFiles]
    /\ UNCHANGED <<last, stem, acked, orig, copy, base, raced, user,
                  upsets>>

LEMMA CreateBackupEffect ==
    ASSUME NEW w \in Writers, IInv, CreateBackup(w)
    PROVE  CreateBackupChanges(w)
  <1> USE DEF CreateBackupChanges
  <1>1. "spare" \in Stage /\ "bakNew" \in Names
    BY DEF Stage, Locked, Names
  <1>2. files + 1 \in File /\ files + 1 \in 0 .. MaxFiles
    BY DEF CreateBackup, Create, IInv, TypeOK, File
  <1>3. Moves(w, "spare") /\ pc' \in [Writers -> Stage]
    BY <1>1, GotoMoves DEF CreateBackup, IInv
  <1>4. /\ Binds("bakNew", files + 1)
        /\ dir' \in DirType /\ past' \in SUBSET DirType
    BY <1>1, <1>2, BindType DEF CreateBackup, Create, IInv
  <1>5. Writes(files + 1, 0) /\ body' \in [File -> 0 .. MaxVersion]
    <2>1. 0 \in 0 .. MaxVersion /\ body' = [body EXCEPT ![files + 1] = 0]
      BY DEF CreateBackup, Create
    <2> QED
      BY <1>2, <2>1, WriteType DEF IInv
  <1>6. /\ spare'[w] = files + 1
        /\ \A v \in Writers \ {w} : spare'[v] = spare[v]
        /\ spare' \in [Writers -> 0 .. MaxFiles]
    BY <1>2 DEF CreateBackup, IInv, TypeOK
  <1> QED
    BY <1>2, <1>3, <1>4, <1>5, <1>6 DEF CreateBackup, Create

(* CreateBackup keeps the invariant.                                       *)
LEMMA CreateBackupKeeps ==
    ASSUME NEW w \in Writers, IInv, CreateBackup(w)
    PROVE  IInv'
  <1> USE DEF CreateBackupChanges
  <1>1. CreateBackupChanges(w)
    BY CreateBackupEffect
  <1>2. TypeOK'
    BY <1>1 DEF IInv, TypeOK, DirType
  <1>3. Fresh'
    BY <1>1 DEF IInv, Moves, Binds, Writes, Fresh, Dirs, Names
  <1>4. Shape'
    BY <1>1, NewNumber DEF IInv, Moves, Binds, Writes, Shape, OwnsWork,
       BeforeSpare
  <1>5. Apart'
    BY <1>1, NewNumber DEF IInv, Moves, Binds, Writes, Apart
  <1>6. Unpublished'
    BY <1>1, NewNumber DEF IInv, Moves, Binds, Writes, Unpublished,
       NeverData, Dirs, Names
  <1>7. Excluded'
    BY <1>1 DEF IInv, Moves, Binds, Writes, Excluded, Locked
  <1>8. Complete'
    BY <1>1, NewNumber, InFile DEF IInv, Moves, Binds, Writes, Complete,
       Finished, Shape, OwnsWork, BeforeSpare
  <1>9. Current'
    BY <1>1, NewNumber, InFile DEF IInv, Moves, Binds, Writes, Current,
       Writing, OwnsWork, Names, Shape, BeforeSpare
  <1>10. DataWhole'
    BY <1>1, NewNumber, InFile DEF IInv, Moves, Binds, Writes, DataWhole,
       Dirs, Names
  <1>11. WorkOwned'
    BY <1>1 DEF IInv, Moves, Binds, Writes, WorkOwned, OwnsWork, Names
  <1>12. BackupOwned'
    BY <1>1, NewNumber DEF IInv, Moves, Binds, Writes, BackupOwned,
       BackupFile, OwnsBackup, Shape, OwnsWork, BeforeSpare
  <1> QED
    BY <1>1, <1>2, <1>3, <1>4, <1>5, <1>6, <1>7, <1>8, <1>9, <1>10,
       <1>11, <1>12 DEF IInv

(* CreateBackupFails keeps the invariant.                                  *)
LEMMA CreateBackupFailsKeeps ==
    ASSUME NEW w \in Writers, IInv, CreateBackupFails(w)
    PROVE  IInv'
  BY MoveKeeps DEF CreateBackupFails, IInv, TypeOK, disk, Locked,
     OwnsWork, OwnsBackup, BeforeSpare, Finished, Writing

(* What CopyBackup changes.                                                *)
CopyBackupChanges(w) ==
    /\ pc[w] = "spare" /\ Moves(w, "prepared") /\ pc' \in [Writers -> Stage]
    /\ spare[w] # 0 /\ spare[w] \in File /\ Writes(spare[w], body[orig[w]])
    /\ body' \in [File -> 0 .. MaxVersion]
    /\ UNCHANGED <<dir, past, files, last, stem, acked, orig, copy,
                  spare, base, raced, user, upsets>>

LEMMA CopyBackupEffect ==
    ASSUME NEW w \in Writers, IInv, CopyBackup(w)
    PROVE  CopyBackupChanges(w)
  <1> USE DEF CopyBackupChanges
  <1>1. "prepared" \in Stage
    BY DEF Stage, Locked
  <1>2. spare[w] \in File /\ spare[w] # 0
    BY DEF CopyBackup, IInv, TypeOK, Shape, File
  <1>3. orig[w] \in File
    BY DEF CopyBackup, IInv, TypeOK, Shape, File
  <1>4. body[orig[w]] \in 0 .. MaxVersion
    BY <1>3 DEF IInv, TypeOK
  <1>5. /\ Writes(spare[w], body[orig[w]])
        /\ body' \in [File -> 0 .. MaxVersion]
    BY <1>2, <1>4, WriteType DEF CopyBackup, IInv
  <1> QED
    BY <1>1, <1>2, <1>5, GotoMoves DEF CopyBackup, IInv, disk

(* CopyBackup keeps the invariant.                                         *)
LEMMA CopyBackupKeeps ==
    ASSUME NEW w \in Writers, IInv, CopyBackup(w)
    PROVE  IInv'
  <1> USE DEF CopyBackupChanges
  <1>1. CopyBackupChanges(w)
    BY CopyBackupEffect
  <1>2. TypeOK'
    BY <1>1 DEF IInv, TypeOK, DirType
  <1>3. Shape'
    BY <1>1 DEF IInv, Moves, Writes, Shape, OwnsWork, BeforeSpare
  <1>4. Unpublished'
    BY <1>1 DEF IInv, Moves, Writes, Unpublished, NeverData, Dirs
  <1>5. Excluded'
    BY <1>1 DEF IInv, Moves, Writes, Excluded, Locked
  <1>6. Complete'
    BY <1>1, InFile DEF IInv, Moves, Writes, Complete, Finished, Shape,
       OwnsWork, BeforeSpare, Apart, Unpublished, NeverData, Dirs
  <1>7. Current'
    BY <1>1, InFile DEF IInv, Moves, Writes, Current, Writing, OwnsWork,
       Shape, BeforeSpare, Unpublished, NeverData, Dirs
  <1>8. DataWhole'
    BY <1>1, InFile DEF IInv, Moves, Writes, DataWhole, Dirs, Unpublished,
       NeverData
  <1>9. WorkOwned'
    BY <1>1 DEF IInv, Moves, Writes, WorkOwned, OwnsWork
  <1>10. BackupOwned'
    BY <1>1 DEF IInv, Moves, Writes, BackupOwned, BackupFile, OwnsBackup
  <1>11. (Fresh /\ Apart)'
    BY <1>1 DEF IInv, Fresh, Dirs, Apart
  <1> QED
    BY <1>1, <1>2, <1>3, <1>4, <1>5, <1>6, <1>7, <1>8, <1>9, <1>10,
       <1>11 DEF IInv

(* CopyBackupFails keeps the invariant.                                    *)
LEMMA CopyBackupFailsKeeps ==
    ASSUME NEW w \in Writers, IInv, CopyBackupFails(w)
    PROVE  IInv'
  BY MoveKeeps DEF CopyBackupFails, IInv, TypeOK, disk, Locked, OwnsWork,
     OwnsBackup, BeforeSpare, Finished, Writing, BackupOwned

(* FinalCheck keeps the invariant.                                         *)
LEMMA FinalCheckKeeps ==
    ASSUME NEW w \in Writers, IInv, FinalCheck(w)
    PROVE  IInv'
  <1>1. CASE Goto(w, "final")
    BY <1>1, MoveKeeps DEF FinalCheck, IInv, TypeOK, disk, Locked,
       OwnsWork, OwnsBackup, BeforeSpare, Finished, Writing, BackupOwned
  <1>2. CASE Goto(w, "dropBoth")
    BY <1>2, MoveKeeps DEF FinalCheck, IInv, TypeOK, disk, Locked,
       OwnsWork, OwnsBackup, BeforeSpare, Finished, Writing, BackupOwned
  <1> QED
    BY <1>1, <1>2 DEF FinalCheck

(* RenameDataFails keeps the invariant.                                    *)
LEMMA RenameDataFailsKeeps ==
    ASSUME NEW w \in Writers, IInv, RenameDataFails(w)
    PROVE  IInv'
  BY MoveKeeps, UpsetType DEF RenameDataFails, IInv, TypeOK, disk, Locked,
     OwnsWork, OwnsBackup, BeforeSpare, Finished, Writing, BackupOwned

(* What RenameData changes.                                                *)
RenameDataChanges(w) ==
    /\ pc[w] = "final" /\ Moves(w, "published") /\ pc' \in [Writers -> Stage]
    /\ dir'["data"] = dir["work"] /\ dir'["work"] = 0
    /\ dir'["bakNew"] = dir["bakNew"] /\ dir'["bak"] = dir["bak"]
    /\ Dirs' \subseteq Dirs \cup {dir'}
    /\ dir' \in DirType /\ past' \in SUBSET DirType
    /\ UNCHANGED <<files, body, last, stem, acked, orig, copy, spare,
                  base, raced, user, upsets>>

LEMMA RenameDataEffect ==
    ASSUME NEW w \in Writers, IInv, RenameData(w)
    PROVE  RenameDataChanges(w)
  <1> USE DEF RenameDataChanges
  <1>1. /\ "published" \in Stage
        /\ {"work", "data", "bakNew", "bak"} \subseteq Names
    BY DEF Stage, Locked, Names
  <1>2. Moves(w, "published") /\ pc' \in [Writers -> Stage]
    BY <1>1, GotoMoves DEF RenameData, IInv
  <1> QED
    BY <1>1, <1>2, RenameType DEF RenameData, IInv

(* RenameData keeps the invariant.                                         *)
LEMMA RenameDataKeeps ==
    ASSUME NEW w \in Writers, IInv, RenameData(w)
    PROVE  IInv'
  <1> USE DEF RenameDataChanges
  <1>1. RenameDataChanges(w)
    BY RenameDataEffect
  <1>2. TypeOK'
    BY <1>1 DEF IInv, TypeOK, DirType
  <1>3. Fresh'
    BY <1>1 DEF IInv, Moves, Fresh, Dirs, Names
  <1>4. Shape'
    BY <1>1 DEF IInv, Moves, Shape, OwnsWork, BeforeSpare
  <1>5. Unpublished'
    BY <1>1, OneWork DEF IInv, Moves, Unpublished, NeverData, Dirs,
       WorkOwned, OwnsWork, Apart, Shape, BeforeSpare
  <1>6. Excluded'
    BY <1>1 DEF IInv, Moves, Excluded, Locked
  <1>7. Complete'
    BY <1>1 DEF IInv, Moves, Complete, Finished
  <1>8. Current'
    BY <1>1, OneWork DEF IInv, Moves, Current, Writing, OwnsWork
  <1>9. DataWhole'
    BY <1>1 DEF IInv, Moves, DataWhole, Dirs, WorkOwned, OwnsWork, Complete,
       Finished, Shape, BeforeSpare
  <1>10. WorkOwned'
    BY <1>1, OneWork DEF IInv, Moves, WorkOwned, OwnsWork
  <1>11. BackupOwned'
    BY <1>1 DEF IInv, Moves, BackupOwned, BackupFile, OwnsBackup
  <1>12. Apart'
    BY <1>1 DEF IInv, Apart
  <1> QED
    BY <1>1, <1>2, <1>3, <1>4, <1>5, <1>6, <1>7, <1>8, <1>9, <1>10,
       <1>11, <1>12 DEF IInv

(* What RenameBackup changes.                                              *)
RenameBackupChanges(w) ==
    /\ pc[w] = "published" /\ Moves(w, "renamed") /\ pc' \in [Writers -> Stage]
    /\ dir'["bak"] = dir["bakNew"] /\ dir'["bakNew"] = 0
    /\ dir'["data"] = dir["data"] /\ dir'["work"] = dir["work"]
    /\ Dirs' \subseteq Dirs \cup {dir'}
    /\ dir' \in DirType /\ past' \in SUBSET DirType
    /\ UNCHANGED <<files, body, last, stem, acked, orig, copy, spare,
                  base, raced, user, upsets>>

LEMMA RenameBackupEffect ==
    ASSUME NEW w \in Writers, IInv, RenameBackup(w)
    PROVE  RenameBackupChanges(w)
  <1> USE DEF RenameBackupChanges
  <1>1. /\ "renamed" \in Stage
        /\ {"work", "data", "bakNew", "bak"} \subseteq Names
    BY DEF Stage, Locked, Names
  <1>2. Moves(w, "renamed") /\ pc' \in [Writers -> Stage]
    BY <1>1, GotoMoves DEF RenameBackup, IInv
  <1> QED
    BY <1>1, <1>2, RenameType DEF RenameBackup, IInv

(* RenameBackup keeps the invariant.                                       *)
LEMMA RenameBackupKeeps ==
    ASSUME NEW w \in Writers, IInv, RenameBackup(w)
    PROVE  IInv'
  <1> USE DEF RenameBackupChanges
  <1>1. RenameBackupChanges(w)
    BY RenameBackupEffect
  <1>2. TypeOK'
    BY <1>1 DEF IInv, TypeOK, DirType
  <1>3. Fresh'
    BY <1>1 DEF IInv, Moves, Fresh, Dirs, Names
  <1>4. Shape'
    BY <1>1 DEF IInv, Moves, Shape, OwnsWork, BeforeSpare
  <1>5. Unpublished'
    BY <1>1 DEF IInv, Moves, Unpublished, NeverData, Dirs
  <1>6. Excluded'
    BY <1>1 DEF IInv, Moves, Excluded, Locked
  <1>7. Complete'
    BY <1>1 DEF IInv, Moves, Complete, Finished
  <1>8. Current'
    BY <1>1 DEF IInv, Moves, Current, Writing, OwnsWork
  <1>9. DataWhole'
    BY <1>1 DEF IInv, Moves, DataWhole, Dirs
  <1>10. WorkOwned'
    BY <1>1 DEF IInv, Moves, WorkOwned, OwnsWork
  <1>11. BackupOwned'
    BY <1>1, OneBackup DEF IInv, Moves, BackupOwned, BackupFile, OwnsBackup
  <1>12. Apart'
    BY <1>1 DEF IInv, Apart
  <1> QED
    BY <1>1, <1>2, <1>3, <1>4, <1>5, <1>6, <1>7, <1>8, <1>9, <1>10,
       <1>11, <1>12 DEF IInv

(* RenameBackupFails keeps the invariant.                                  *)
LEMMA RenameBackupFailsKeeps ==
    ASSUME NEW w \in Writers, IInv, RenameBackupFails(w)
    PROVE  IInv'
  BY ClosingKeeps, UpsetType DEF RenameBackupFails, IInv, TypeOK, disk,
     session

(* What SyncAndReport changes.                                             *)
SyncAndReportChanges(w) ==
    /\ pc[w] = "renamed" /\ Closes(w)
    /\ pc' \in [Writers -> Stage] /\ raced' \subseteq Writers
    /\ orig' \in [Writers -> 0 .. MaxFiles]
    /\ copy' \in [Writers -> 0 .. MaxFiles]
    /\ spare' \in [Writers -> 0 .. MaxFiles]
    /\ base' \in [Writers -> 0 .. MaxVersion]
    /\ past' = {dir} /\ past' \in SUBSET DirType /\ Dirs' \subseteq Dirs
    /\ acked' \in 0 .. MaxFiles
    /\ acked' = IF copy[w] > acked THEN copy[w] ELSE acked
    /\ UNCHANGED <<dir, files, body, last, stem, user, upsets>>

LEMMA SyncAndReportEffect ==
    ASSUME NEW w \in Writers, IInv, SyncAndReport(w)
    PROVE  SyncAndReportChanges(w)
  <1> USE DEF SyncAndReportChanges
  <1>1. past' = {dir} /\ Dirs' \subseteq Dirs /\ past' \in SUBSET DirType
    BY DEF SyncAndReport, Dirs, IInv, TypeOK, DirType
  <1>2. acked' \in 0 .. MaxFiles
    BY DEF SyncAndReport, IInv, TypeOK
  <1> QED
    BY <1>1, <1>2, CloseSessionCloses DEF SyncAndReport, IInv

(* SyncAndReport keeps the invariant.                                      *)
LEMMA SyncAndReportKeeps ==
    ASSUME NEW w \in Writers, IInv, SyncAndReport(w)
    PROVE  IInv'
  <1> USE DEF SyncAndReportChanges
  <1>1. SyncAndReportChanges(w)
    BY SyncAndReportEffect
  <1>2. TypeOK'
    BY <1>1 DEF IInv, TypeOK, DirType
  <1>3. Fresh'
    BY <1>1 DEF IInv, Moves, Closes, Fresh, Dirs, Names
  <1>4. Shape'
    BY <1>1 DEF IInv, Moves, Closes, Shape, OwnsWork, BeforeSpare
  <1>5. Apart'
    BY <1>1 DEF IInv, Moves, Closes, Apart
  <1>6. Unpublished'
    BY <1>1 DEF IInv, Moves, Closes, Unpublished, NeverData, Dirs, Shape,
       OwnsWork, BeforeSpare
  <1>7. Excluded'
    BY <1>1 DEF IInv, Moves, Closes, Excluded, Locked
  <1>8. Complete'
    BY <1>1 DEF IInv, Moves, Closes, Complete, Finished
  <1>9. Current'
    BY <1>1 DEF IInv, Moves, Closes, Current, Writing, OwnsWork
  <1>10. DataWhole'
    BY <1>1 DEF IInv, Moves, Closes, DataWhole, Dirs
  <1>11. WorkOwned'
    BY <1>1 DEF IInv, Moves, Closes, WorkOwned, OwnsWork
  <1>12. BackupOwned'
    BY <1>1 DEF IInv, Moves, Closes, BackupOwned, BackupFile, OwnsBackup
  <1> QED
    BY <1>1, <1>2, <1>3, <1>4, <1>5, <1>6, <1>7, <1>8, <1>9, <1>10,
       <1>11, <1>12 DEF IInv

(* What UndoBackup changes.                                                *)
UndoBackupChanges(w) ==
    /\ pc[w] = "undo" /\ Moves(w, "drop") /\ pc' \in [Writers -> Stage]
    /\ Binds("bakNew", 0) /\ dir' \in DirType /\ past' \in SUBSET DirType
    /\ UNCHANGED <<files, body, last, stem, acked, orig, copy, spare,
                  base, raced, user, upsets>>

LEMMA UndoBackupEffect ==
    ASSUME NEW w \in Writers, IInv, UndoBackup(w)
    PROVE  UndoBackupChanges(w)
  <1> USE DEF UndoBackupChanges
  <1>1. "drop" \in Stage /\ "bakNew" \in Names
    BY DEF Stage, Locked, Names
  <1>2. Moves(w, "drop") /\ pc' \in [Writers -> Stage]
    BY <1>1, GotoMoves DEF UndoBackup, IInv
  <1> QED
    BY <1>1, <1>2, BindType DEF UndoBackup, Remove, IInv

(* UndoBackup keeps the invariant.                                         *)
LEMMA UndoBackupKeeps ==
    ASSUME NEW w \in Writers, IInv, UndoBackup(w)
    PROVE  IInv'
  <1> USE DEF UndoBackupChanges
  <1>1. UndoBackupChanges(w)
    BY UndoBackupEffect
  <1>2. TypeOK'
    BY <1>1 DEF IInv, TypeOK, DirType
  <1>3. Fresh'
    BY <1>1 DEF IInv, Moves, Binds, Fresh, Dirs, Names
  <1>4. Shape'
    BY <1>1 DEF IInv, Moves, Binds, Shape, OwnsWork, BeforeSpare
  <1>5. Unpublished'
    BY <1>1 DEF IInv, Moves, Binds, Unpublished, NeverData, Dirs, Names
  <1>6. Excluded'
    BY <1>1 DEF IInv, Moves, Binds, Excluded, Locked
  <1>7. Complete'
    BY <1>1 DEF IInv, Moves, Binds, Complete, Finished
  <1>8. Current'
    BY <1>1 DEF IInv, Moves, Binds, Current, Writing, OwnsWork, Names
  <1>9. DataWhole'
    BY <1>1 DEF IInv, Moves, Binds, DataWhole, Dirs, Names
  <1>10. WorkOwned'
    BY <1>1 DEF IInv, Moves, Binds, WorkOwned, OwnsWork, Names
  <1>11. BackupOwned'
    BY <1>1, OneBackup DEF IInv, Moves, Binds, BackupOwned, BackupFile,
       OwnsBackup, Names
  <1>12. Apart'
    BY <1>1 DEF IInv, Apart
  <1> QED
    BY <1>1, <1>2, <1>3, <1>4, <1>5, <1>6, <1>7, <1>8, <1>9, <1>10,
       <1>11, <1>12 DEF IInv

(* What DropWorkFirst changes.                                             *)
DropWorkFirstChanges(w) ==
    /\ pc[w] = "dropBoth" /\ Moves(w, "dropBak") /\ pc' \in [Writers -> Stage]
    /\ Binds("work", 0) /\ dir' \in DirType /\ past' \in SUBSET DirType
    /\ UNCHANGED <<files, body, last, stem, acked, orig, copy, spare,
                  base, raced, user, upsets>>

LEMMA DropWorkFirstEffect ==
    ASSUME NEW w \in Writers, IInv, DropWorkFirst(w)
    PROVE  DropWorkFirstChanges(w)
  <1> USE DEF DropWorkFirstChanges
  <1>1. "dropBak" \in Stage /\ "work" \in Names
    BY DEF Stage, Locked, Names
  <1>2. Moves(w, "dropBak") /\ pc' \in [Writers -> Stage]
    BY <1>1, GotoMoves DEF DropWorkFirst, IInv
  <1> QED
    BY <1>1, <1>2, BindType DEF DropWorkFirst, Remove, IInv

(* DropWorkFirst keeps the invariant.                                      *)
LEMMA DropWorkFirstKeeps ==
    ASSUME NEW w \in Writers, IInv, DropWorkFirst(w)
    PROVE  IInv'
  <1> USE DEF DropWorkFirstChanges
  <1>1. DropWorkFirstChanges(w)
    BY DropWorkFirstEffect
  <1>2. TypeOK'
    BY <1>1 DEF IInv, TypeOK, DirType
  <1>3. Fresh'
    BY <1>1 DEF IInv, Moves, Binds, Fresh, Dirs, Names
  <1>4. Shape'
    BY <1>1 DEF IInv, Moves, Binds, Shape, OwnsWork, BeforeSpare
  <1>5. Unpublished'
    BY <1>1 DEF IInv, Moves, Binds, Unpublished, NeverData, Dirs, Names
  <1>6. Excluded'
    BY <1>1 DEF IInv, Moves, Binds, Excluded, Locked
  <1>7. Complete'
    BY <1>1 DEF IInv, Moves, Binds, Complete, Finished
  <1>8. Current'
    BY <1>1 DEF IInv, Moves, Binds, Current, Writing, OwnsWork, Names
  <1>9. DataWhole'
    BY <1>1 DEF IInv, Moves, Binds, DataWhole, Dirs, Names
  <1>10. WorkOwned'
    BY <1>1, OneWork DEF IInv, Moves, Binds, WorkOwned, OwnsWork, Names
  <1>11. BackupOwned'
    BY <1>1 DEF IInv, Moves, Binds, BackupOwned, BackupFile, OwnsBackup,
       Names
  <1>12. Apart'
    BY <1>1 DEF IInv, Apart
  <1> QED
    BY <1>1, <1>2, <1>3, <1>4, <1>5, <1>6, <1>7, <1>8, <1>9, <1>10,
       <1>11, <1>12 DEF IInv

(* What DropWork changes.                                                  *)
DropWorkChanges(w) ==
    /\ pc[w] = "drop" /\ Closes(w)
    /\ pc' \in [Writers -> Stage] /\ raced' \subseteq Writers
    /\ orig' \in [Writers -> 0 .. MaxFiles]
    /\ copy' \in [Writers -> 0 .. MaxFiles]
    /\ spare' \in [Writers -> 0 .. MaxFiles]
    /\ base' \in [Writers -> 0 .. MaxVersion]
    /\ Binds("work", 0) /\ dir' \in DirType /\ past' \in SUBSET DirType
    /\ UNCHANGED <<files, body, last, stem, acked, user, upsets>>

LEMMA DropWorkEffect ==
    ASSUME NEW w \in Writers, IInv, DropWork(w)
    PROVE  DropWorkChanges(w)
  <1> USE DEF DropWorkChanges
  <1>1. "work" \in Names
    BY DEF Names
  <1> QED
    BY <1>1, CloseSessionCloses, BindType DEF DropWork, Remove, IInv

(* DropWork keeps the invariant.                                           *)
LEMMA DropWorkKeeps ==
    ASSUME NEW w \in Writers, IInv, DropWork(w)
    PROVE  IInv'
  <1> USE DEF DropWorkChanges
  <1>1. DropWorkChanges(w)
    BY DropWorkEffect
  <1>2. TypeOK'
    BY <1>1 DEF IInv, TypeOK, DirType
  <1>3. Fresh'
    BY <1>1 DEF IInv, Moves, Closes, Binds, Fresh, Dirs, Names
  <1>4. Shape'
    BY <1>1 DEF IInv, Moves, Closes, Binds, Shape, OwnsWork, BeforeSpare
  <1>5. Apart'
    BY <1>1 DEF IInv, Moves, Closes, Binds, Apart
  <1>6. Unpublished'
    BY <1>1 DEF IInv, Moves, Closes, Binds, Unpublished, NeverData, Dirs,
       Names, Shape, OwnsWork, BeforeSpare
  <1>7. Excluded'
    BY <1>1 DEF IInv, Moves, Closes, Binds, Excluded, Locked
  <1>8. Complete'
    BY <1>1 DEF IInv, Moves, Closes, Binds, Complete, Finished
  <1>9. Current'
    BY <1>1 DEF IInv, Moves, Closes, Binds, Current, Writing, OwnsWork,
       Names
  <1>10. DataWhole'
    BY <1>1 DEF IInv, Moves, Closes, Binds, DataWhole, Dirs, Names
  <1>11. WorkOwned'
    BY <1>1, OneWork DEF IInv, Moves, Closes, Binds, WorkOwned, OwnsWork,
       Names
  <1>12. BackupOwned'
    BY <1>1 DEF IInv, Moves, Closes, Binds, BackupOwned, BackupFile,
       OwnsBackup, Names
  <1> QED
    BY <1>1, <1>2, <1>3, <1>4, <1>5, <1>6, <1>7, <1>8, <1>9, <1>10,
       <1>11, <1>12 DEF IInv

(* What DropBackup changes.                                                *)
DropBackupChanges(w) ==
    /\ pc[w] = "dropBak" /\ Closes(w)
    /\ pc' \in [Writers -> Stage] /\ raced' \subseteq Writers
    /\ orig' \in [Writers -> 0 .. MaxFiles]
    /\ copy' \in [Writers -> 0 .. MaxFiles]
    /\ spare' \in [Writers -> 0 .. MaxFiles]
    /\ base' \in [Writers -> 0 .. MaxVersion]
    /\ Binds("bakNew", 0) /\ dir' \in DirType /\ past' \in SUBSET DirType
    /\ UNCHANGED <<files, body, last, stem, acked, user, upsets>>

LEMMA DropBackupEffect ==
    ASSUME NEW w \in Writers, IInv, DropBackup(w)
    PROVE  DropBackupChanges(w)
  <1> USE DEF DropBackupChanges
  <1>1. "bakNew" \in Names
    BY DEF Names
  <1> QED
    BY <1>1, CloseSessionCloses, BindType DEF DropBackup, Remove, IInv

(* DropBackup keeps the invariant.                                         *)
LEMMA DropBackupKeeps ==
    ASSUME NEW w \in Writers, IInv, DropBackup(w)
    PROVE  IInv'
  <1> USE DEF DropBackupChanges
  <1>1. DropBackupChanges(w)
    BY DropBackupEffect
  <1>2. TypeOK'
    BY <1>1 DEF IInv, TypeOK, DirType
  <1>3. Fresh'
    BY <1>1 DEF IInv, Moves, Closes, Binds, Fresh, Dirs, Names
  <1>4. Shape'
    BY <1>1 DEF IInv, Moves, Closes, Binds, Shape, OwnsWork, BeforeSpare
  <1>5. Apart'
    BY <1>1 DEF IInv, Moves, Closes, Binds, Apart
  <1>6. Unpublished'
    BY <1>1 DEF IInv, Moves, Closes, Binds, Unpublished, NeverData, Dirs,
       Names, Shape, OwnsWork, BeforeSpare
  <1>7. Excluded'
    BY <1>1 DEF IInv, Moves, Closes, Binds, Excluded, Locked
  <1>8. Complete'
    BY <1>1 DEF IInv, Moves, Closes, Binds, Complete, Finished
  <1>9. Current'
    BY <1>1 DEF IInv, Moves, Closes, Binds, Current, Writing, OwnsWork,
       Names
  <1>10. DataWhole'
    BY <1>1 DEF IInv, Moves, Closes, Binds, DataWhole, Dirs, Names
  <1>11. WorkOwned'
    BY <1>1 DEF IInv, Moves, Closes, Binds, WorkOwned, OwnsWork, Names
  <1>12. BackupOwned'
    BY <1>1, OneBackup DEF IInv, Moves, Closes, Binds, BackupOwned,
       BackupFile, OwnsBackup, Names
  <1> QED
    BY <1>1, <1>2, <1>3, <1>4, <1>5, <1>6, <1>7, <1>8, <1>9, <1>10,
       <1>11, <1>12 DEF IInv

(* Crash keeps the invariant.                                              *)
LEMMA CrashKeeps ==
    ASSUME NEW w \in Writers, IInv, Crash(w)
    PROVE  IInv'
  BY ClosingKeeps, UpsetType DEF Crash, IInv, TypeOK, disk, session

(* What PowerCut changes.                                                  *)
PowerCutChanges ==
    /\ dir' \in Dirs /\ past' = {dir'} /\ Dirs' = {dir'}
    /\ Dirs' \subseteq Dirs
    /\ raced' = {}
    /\ \A w \in Writers : /\ pc'[w] = "idle" /\ orig'[w] = 0 /\ copy'[w] = 0
                          /\ spare'[w] = 0 /\ base'[w] = 0
    /\ \A u \in Users : user'[u] = 0
    /\ upsets' \in 0 .. MaxUpsets
    /\ UNCHANGED <<files, body, last, stem, acked>>

LEMMA PowerCutEffect ==
    ASSUME IInv, PowerCut
    PROVE  PowerCutChanges
  <1> USE DEF PowerCutChanges
  <1> QED
    BY UpsetType DEF PowerCut, Dirs, IInv, TypeOK

(* PowerCut keeps the invariant.                                           *)
LEMMA PowerCutKeeps ==
    ASSUME IInv, PowerCut
    PROVE  IInv'
  <1> USE DEF PowerCutChanges
  <1>1. PowerCutChanges
    BY PowerCutEffect
  <1>2. TypeOK'
    <2>1. dir' \in DirType /\ past' \in SUBSET DirType
      BY <1>1 DEF Dirs, IInv, TypeOK, DirType
    <2>2. pc' \in [Writers -> Stage]
      BY DEF PowerCut, Stage
    <2>3. /\ orig' \in [Writers -> 0 .. MaxFiles]
          /\ copy' \in [Writers -> 0 .. MaxFiles]
          /\ spare' \in [Writers -> 0 .. MaxFiles]
          /\ base' \in [Writers -> 0 .. MaxVersion]
          /\ user' \in [Users -> 0 .. MaxFiles]
      BY DEF PowerCut
    <2> QED
      BY <1>1, <2>1, <2>2, <2>3 DEF IInv, TypeOK, DirType
  <1>3. Fresh'
    BY <1>1 DEF IInv, Fresh, Dirs, Names
  <1>4. Shape'
    BY <1>1 DEF IInv, Shape, OwnsWork, BeforeSpare
  <1>5. Apart'
    BY <1>1 DEF IInv, Apart
  <1>6. Unpublished'
    BY <1>1 DEF IInv, Unpublished, NeverData, Dirs
  <1>7. Excluded'
    BY <1>1 DEF IInv, Excluded, Locked
  <1>8. Complete'
    BY <1>1 DEF IInv, Complete, Finished
  <1>9. Current'
    BY <1>1 DEF IInv, Current, Writing, OwnsWork
  <1>10. DataWhole'
    BY <1>1 DEF IInv, DataWhole, Dirs
  <1>11. WorkOwned'
    BY <1>1 DEF IInv, WorkOwned, OwnsWork
  <1>12. BackupOwned'
    BY <1>1 DEF IInv, BackupOwned, BackupFile, OwnsBackup
  <1> QED
    BY <1>1, <1>2, <1>3, <1>4, <1>5, <1>6, <1>7, <1>8, <1>9, <1>10,
       <1>11, <1>12 DEF IInv

(* What OperatorDeletesWork changes.                                       *)
OperatorDeletesWorkChanges ==
    /\ \A w \in Writers : pc[w] = "idle"
    /\ Binds("work", 0) /\ dir' \in DirType /\ past' \in SUBSET DirType
    /\ UNCHANGED <<files, body, last, stem, acked, pc, orig, copy,
                  spare, base, raced, user, upsets>>

LEMMA OperatorDeletesWorkEffect ==
    ASSUME IInv, OperatorDeletesWork
    PROVE  OperatorDeletesWorkChanges
  <1> USE DEF OperatorDeletesWorkChanges
  <1>1. "work" \in Names
    BY DEF Names
  <1> QED
    BY <1>1, BindType DEF OperatorDeletesWork, Quiet, Remove, session, IInv

(* OperatorDeletesWork keeps the invariant.                                *)
LEMMA OperatorDeletesWorkKeeps ==
    ASSUME IInv, OperatorDeletesWork
    PROVE  IInv'
  <1> USE DEF OperatorDeletesWorkChanges
  <1>1. OperatorDeletesWorkChanges
    BY OperatorDeletesWorkEffect
  <1>2. TypeOK'
    BY <1>1 DEF IInv, TypeOK, DirType
  <1>3. Fresh'
    BY <1>1 DEF IInv, Binds, Fresh, Dirs, Names
  <1>4. Unpublished'
    BY <1>1 DEF IInv, Binds, Unpublished, NeverData, Dirs, Names
  <1>5. Current'
    BY <1>1 DEF IInv, Binds, Current, Writing, OwnsWork, Names
  <1>6. DataWhole'
    BY <1>1 DEF IInv, Binds, DataWhole, Dirs, Names
  <1>7. WorkOwned'
    BY <1>1 DEF IInv, Binds, WorkOwned, OwnsWork, Names
  <1>8. BackupOwned'
    BY <1>1 DEF IInv, Binds, BackupOwned, BackupFile, OwnsBackup, Names
  <1>9. (Shape /\ Apart /\ Excluded /\ Complete)'
    BY <1>1 DEF IInv, Shape, Apart, Excluded, Complete
  <1> QED
    BY <1>1, <1>2, <1>3, <1>4, <1>5, <1>6, <1>7, <1>8, <1>9 DEF IInv

(* What OperatorSettlesBackup changes.                                     *)
OperatorSettlesBackupChanges ==
    /\ \A w \in Writers : pc[w] = "idle"
    /\ dir' \in DirType /\ past' \in SUBSET DirType
    /\ Dirs' \subseteq Dirs \cup {dir'}
    /\ dir'["data"] = dir["data"] /\ dir'["work"] = dir["work"]
    /\ dir["bakNew"] # 0 /\ dir'["bakNew"] = 0
    /\ dir'["bak"] = IF body[dir["bakNew"]] = stem[Db]
                     THEN dir["bakNew"] ELSE dir["bak"]
    /\ UNCHANGED <<files, body, last, stem, acked, pc, orig, copy,
                  spare, base, raced, user, upsets>>

LEMMA OperatorSettlesBackupEffect ==
    ASSUME IInv, OperatorSettlesBackup
    PROVE  OperatorSettlesBackupChanges
  <1> USE DEF OperatorSettlesBackupChanges
  <1>1. {"data", "work", "bakNew", "bak"} \subseteq Names
    BY DEF Names
  <1>2. CASE body[dir["bakNew"]] = stem[Db]
    <2>1. Rename("bakNew", "bak")
      BY <1>2 DEF OperatorSettlesBackup
    <2> QED
      BY <1>1, <1>2, <2>1, RenameType
         DEF OperatorSettlesBackup, Quiet, session, IInv
  <1>3. CASE body[dir["bakNew"]] # stem[Db]
    <2>1. SetDir([dir EXCEPT !["bakNew"] = 0])
      BY <1>3 DEF OperatorSettlesBackup, Remove
    <2>2. /\ Binds("bakNew", 0)
          /\ dir' \in DirType /\ past' \in SUBSET DirType
      BY <1>1, <2>1, BindType DEF IInv
    <2> QED
      BY <1>1, <1>3, <2>2 DEF OperatorSettlesBackup, Quiet, Binds, session
  <1> QED
    BY <1>2, <1>3

(* OperatorSettlesBackup keeps the invariant.                              *)
LEMMA OperatorSettlesBackupKeeps ==
    ASSUME IInv, OperatorSettlesBackup
    PROVE  IInv'
  <1> USE DEF OperatorSettlesBackupChanges
  <1>1. OperatorSettlesBackupChanges
    BY OperatorSettlesBackupEffect
  <1>2. TypeOK'
    BY <1>1 DEF IInv, TypeOK, DirType
  <1>3. Fresh'
    BY <1>1 DEF IInv, Fresh, Dirs, Names
  <1>4. Unpublished'
    BY <1>1 DEF IInv, Unpublished, NeverData, Dirs, Names
  <1>5. Current'
    BY <1>1 DEF IInv, Current, Writing, OwnsWork, Names
  <1>6. DataWhole'
    BY <1>1 DEF IInv, DataWhole, Dirs, Names
  <1>7. WorkOwned'
    BY <1>1 DEF IInv, WorkOwned, OwnsWork, Names
  <1>8. BackupOwned'
    BY <1>1 DEF IInv, BackupOwned, BackupFile, OwnsBackup, Names
  <1>9. (Shape /\ Apart /\ Excluded /\ Complete)'
    BY <1>1 DEF IInv, Shape, Apart, Excluded, Complete
  <1> QED
    BY <1>1, <1>2, <1>3, <1>4, <1>5, <1>6, <1>7, <1>8, <1>9 DEF IInv

(* What ReplaceUnlocked changes.                                           *)
ReplaceUnlockedChanges ==
    /\ files + 1 \in File /\ files' = files + 1
    /\ Binds("data", files + 1)
    /\ dir' \in DirType /\ past' \in SUBSET DirType
    /\ Writes(files + 1, last + 1) /\ last + 1 # 0
    /\ body' \in [File -> 0 .. MaxVersion]
    /\ Begins(0)
    /\ last' \in Version /\ stem' \in [Version -> 0 .. MaxVersion]
    /\ raced' \subseteq Writers /\ raced \subseteq raced'
    /\ \A w \in Writers : pc[w] = "final" => w \in raced'
    /\ upsets' \in 0 .. MaxUpsets
    /\ UNCHANGED <<acked, pc, orig, copy, spare, base, user>>

LEMMA ReplaceUnlockedEffect ==
    ASSUME IInv, ReplaceUnlocked
    PROVE  ReplaceUnlockedChanges
  <1> USE DEF ReplaceUnlockedChanges
  <1>1. "data" \in Names
    BY DEF Names
  <1>2. files + 1 \in File /\ files + 1 \in 0 .. MaxFiles
    BY DEF ReplaceUnlocked, IInv, TypeOK, File
  <1>3. /\ last + 1 \in Version /\ last + 1 # 0 /\ Begins(0)
        /\ last' \in Version /\ stem' \in [Version -> 0 .. MaxVersion]
    BY NewVersionType DEF ReplaceUnlocked, IInv
  <1>4. last + 1 \in 0 .. MaxVersion
    BY <1>3 DEF Version
  <1>5. /\ Binds("data", files + 1)
        /\ dir' \in DirType /\ past' \in SUBSET DirType
    BY <1>1, <1>2, BindType DEF ReplaceUnlocked, IInv
  <1>6. Writes(files + 1, last + 1) /\ body' \in [File -> 0 .. MaxVersion]
    BY <1>2, <1>4, WriteType DEF ReplaceUnlocked, IInv
  <1>7. /\ raced' \subseteq Writers /\ raced \subseteq raced'
        /\ \A w \in Writers : pc[w] = "final" => w \in raced'
    BY DEF ReplaceUnlocked, IInv, TypeOK
  <1> QED
    BY <1>2, <1>3, <1>5, <1>6, <1>7, UpsetType DEF ReplaceUnlocked, IInv

(* ReplaceUnlocked keeps the invariant.                                    *)
LEMMA ReplaceUnlockedKeeps ==
    ASSUME IInv, ReplaceUnlocked
    PROVE  IInv'
  <1> USE DEF ReplaceUnlockedChanges
  <1>1. ReplaceUnlockedChanges
    BY ReplaceUnlockedEffect
  <1>2. TypeOK'
    BY <1>1 DEF IInv, TypeOK, DirType
  <1>3. Fresh'
    BY <1>1 DEF IInv, Binds, Writes, Fresh, Dirs, Names
  <1>4. Unpublished'
    BY <1>1, NewNumber DEF IInv, Binds, Writes, Unpublished, NeverData,
       Dirs, Names
  <1>5. Complete'
    BY <1>1, NewNumber, InFile DEF IInv, Binds, Writes, Complete, Finished,
       Shape, OwnsWork, BeforeSpare
  <1>6. Current'
    BY <1>1, NewNumber, InFile DEF IInv, Binds, Writes, Current, Writing,
       OwnsWork, Shape, BeforeSpare
  <1>7. DataWhole'
    BY <1>1, NewNumber, InFile DEF IInv, Binds, Writes, DataWhole, Dirs,
       Names
  <1>8. WorkOwned'
    BY <1>1 DEF IInv, Binds, Writes, WorkOwned, OwnsWork, Names
  <1>9. BackupOwned'
    BY <1>1 DEF IInv, Binds, Writes, BackupOwned, BackupFile, OwnsBackup,
       Names
  <1>10. (Shape /\ Apart /\ Excluded)'
    BY <1>1 DEF IInv, Shape, Apart, Excluded
  <1> QED
    BY <1>1, <1>2, <1>3, <1>4, <1>5, <1>6, <1>7, <1>8, <1>9, <1>10 DEF
       IInv

(* What UserOpens changes.                                                 *)
UserOpensChanges(u) ==
    /\ user'[u] = dir["data"] /\ \A v \in Users \ {u} : user'[v] = user[v]
    /\ user' \in [Users -> 0 .. MaxFiles]
    /\ \A w \in Writers : ~(pc[w] \in Locked /\ orig[w] = dir["data"])
    /\ UNCHANGED <<dir, past, files, body, last, stem, acked, pc, orig,
                  copy, spare, base, raced, upsets>>

LEMMA UserOpensEffect ==
    ASSUME NEW u \in Users, IInv, UserOpens(u)
    PROVE  UserOpensChanges(u)
  <1> USE DEF UserOpensChanges
  <1>1. dir["data"] \in 0 .. MaxFiles
    BY DEF IInv, TypeOK, Names
  <1> QED
    BY <1>1 DEF UserOpens, LockedBy, disk, session, IInv, TypeOK

(* UserOpens keeps the invariant.                                          *)
LEMMA UserOpensKeeps ==
    ASSUME NEW u \in Users, IInv, UserOpens(u)
    PROVE  IInv'
  <1> USE DEF UserOpensChanges
  <1>1. UserOpensChanges(u)
    BY UserOpensEffect
  <1>2. TypeOK'
    BY <1>1 DEF IInv, TypeOK, DirType
  <1>3. Fresh'
    BY <1>1 DEF IInv, Fresh, Dirs, Names
  <1>4. Unpublished'
    BY <1>1 DEF IInv, Unpublished, NeverData, Dirs
  <1>5. Excluded'
    BY <1>1 DEF IInv, Excluded, Locked
  <1>6. Complete'
    BY <1>1 DEF IInv, Complete, Finished, DataWhole, Dirs
  <1>7. (Shape /\ Apart /\ Current /\ DataWhole /\ WorkOwned /\
          BackupOwned)'
    BY <1>1 DEF IInv, Shape, Apart, Current, DataWhole, WorkOwned,
       BackupOwned, BackupFile
  <1> QED
    BY <1>1, <1>2, <1>3, <1>4, <1>5, <1>6, <1>7 DEF IInv

(* What UserEdits changes.                                                 *)
UserEditsChanges(u) ==
    /\ user[u] # 0 /\ user[u] \in File
    /\ Writes(user[u], last + 1) /\ last + 1 # 0
    /\ body' \in [File -> 0 .. MaxVersion]
    /\ Begins(stem[body[user[u]]])
    /\ last' \in Version /\ stem' \in [Version -> 0 .. MaxVersion]
    /\ UNCHANGED <<dir, past, files, acked, pc, orig, copy, spare, base,
                  raced, user, upsets>>

LEMMA UserEditsEffect ==
    ASSUME NEW u \in Users, IInv, UserEdits(u)
    PROVE  UserEditsChanges(u)
  <1> USE DEF UserEditsChanges
  <1>1. user[u] \in File /\ body[user[u]] \in Version
    BY DEF UserEdits, IInv, TypeOK, Complete, File, Version
  <1>2. stem[body[user[u]]] \in 0 .. MaxVersion
    BY <1>1 DEF IInv, TypeOK
  <1>3. /\ last + 1 \in Version /\ last + 1 # 0
        /\ Begins(stem[body[user[u]]])
        /\ last' \in Version /\ stem' \in [Version -> 0 .. MaxVersion]
    BY <1>2, NewVersionType DEF UserEdits, IInv
  <1>4. last + 1 \in 0 .. MaxVersion
    BY <1>3 DEF Version
  <1>5. Writes(user[u], last + 1) /\ body' \in [File -> 0 .. MaxVersion]
    BY <1>1, <1>4, WriteType DEF UserEdits, IInv
  <1> QED
    BY <1>1, <1>3, <1>5 DEF UserEdits, session

(* UserEdits keeps the invariant.                                          *)
LEMMA UserEditsKeeps ==
    ASSUME NEW u \in Users, IInv, UserEdits(u)
    PROVE  IInv'
  <1> USE DEF UserEditsChanges
  <1>1. UserEditsChanges(u)
    BY UserEditsEffect
  <1>2. TypeOK'
    BY <1>1 DEF IInv, TypeOK, DirType
  <1>3. Complete'
    BY <1>1, InFile DEF IInv, Writes, Complete, Finished, Shape, OwnsWork,
       BeforeSpare
  <1>4. Current'
    BY <1>1, InFile DEF IInv, Writes, Current, Writing, OwnsWork, Shape,
       BeforeSpare, Excluded, Locked
  <1>5. DataWhole'
    BY <1>1, InFile DEF IInv, Writes, DataWhole, Dirs
  <1>6. (Fresh /\ Shape /\ Apart /\ Unpublished /\ Excluded /\ WorkOwned /\
          BackupOwned)'
    BY <1>1 DEF IInv, Fresh, Dirs, Shape, Apart, Unpublished, NeverData,
       Excluded, WorkOwned, BackupOwned, BackupFile
  <1> QED
    BY <1>1, <1>2, <1>3, <1>4, <1>5, <1>6 DEF IInv

(* What UserCloses changes.                                                *)
UserClosesChanges(u) ==
    /\ user'[u] = 0 /\ \A v \in Users \ {u} : user'[v] = user[v]
    /\ user' \in [Users -> 0 .. MaxFiles]
    /\ UNCHANGED <<dir, past, files, body, last, stem, acked, pc, orig,
                  copy, spare, base, raced, upsets>>

LEMMA UserClosesEffect ==
    ASSUME NEW u \in Users, IInv, UserCloses(u)
    PROVE  UserClosesChanges(u)
  <1> USE DEF UserClosesChanges
  <1> QED
    BY DEF UserCloses, disk, session, IInv, TypeOK

(* UserCloses keeps the invariant.                                         *)
LEMMA UserClosesKeeps ==
    ASSUME NEW u \in Users, IInv, UserCloses(u)
    PROVE  IInv'
  <1> USE DEF UserClosesChanges
  <1>1. UserClosesChanges(u)
    BY UserClosesEffect
  <1>2. TypeOK'
    BY <1>1 DEF IInv, TypeOK, DirType
  <1>3. Fresh'
    BY <1>1 DEF IInv, Fresh, Dirs, Names
  <1>4. Unpublished'
    BY <1>1 DEF IInv, Unpublished, NeverData, Dirs, Shape, OwnsWork,
       BeforeSpare
  <1>5. Excluded'
    BY <1>1 DEF IInv, Excluded, Locked, Shape, OwnsWork, BeforeSpare
  <1>6. Complete'
    BY <1>1 DEF IInv, Complete, Finished
  <1>7. (Shape /\ Apart /\ Current /\ DataWhole /\ WorkOwned /\
          BackupOwned)'
    BY <1>1 DEF IInv, Shape, Apart, Current, DataWhole, WorkOwned,
       BackupOwned, BackupFile
  <1> QED
    BY <1>1, <1>2, <1>3, <1>4, <1>5, <1>6, <1>7 DEF IInv

-----------------------------------------------------------------------------
(* The invariant holds initially.                                          *)
LEMMA InitIInv == Init => IInv
  <1> SUFFICES ASSUME Init PROVE IInv
    OBVIOUS
  <1>1. TypeOK
    BY DEF Init, TypeOK, Names, File, Version, Stage
  <1>2. Dirs = {dir}
    BY DEF Init, Dirs
  <1>3. /\ dir["data"] = 1 /\ \A n \in Names \ {"data"} : dir[n] = 0
        /\ files = 1 /\ body[1] = 1
    BY DEF Init, Names, File
  <1>4. /\ \A w \in Writers : /\ pc[w] = "idle" /\ orig[w] = 0
                              /\ copy[w] = 0 /\ spare[w] = 0
        /\ \A u \in Users : user[u] = 0
    BY DEF Init
  <1>5. Fresh /\ DataWhole
    BY <1>2, <1>3, <1>4 DEF Fresh, DataWhole, Dirs
  <1> QED
    BY <1>1, <1>2, <1>3, <1>4, <1>5 DEF IInv, Shape, Apart, Unpublished,
       NeverData, Excluded, Complete, Current, WorkOwned, BackupOwned,
       OwnsWork, OwnsBackup, Locked, Finished, Writing, BeforeSpare

(* Every step, and every stuttering one, keeps the invariant.              *)
LEMMA NextIInv == IInv /\ [Next]_vars => IInv'
  <1> SUFFICES ASSUME IInv, [Next]_vars PROVE IInv'
    OBVIOUS
  <1>1. ASSUME NEW w \in Writers, OpenData(w) PROVE IInv'
    BY <1>1, OpenDataKeeps
  <1>2. ASSUME NEW w \in Writers, Step(w) PROVE IInv'
    BY <1>2, LockDataKeeps, RequireBindingKeeps, EndUnwrittenKeeps,
       CreateWorkKeeps, WriteCopyKeeps, WriteCopyFailsKeeps,
       CheckBindingKeeps, LinkBackupKeeps, LinkFailsKeeps,
       RequireLinkLeafKeeps, CreateBackupKeeps, CreateBackupFailsKeeps,
       CopyBackupKeeps, CopyBackupFailsKeeps, FinalCheckKeeps,
       RenameDataKeeps, RenameBackupKeeps, SyncAndReportKeeps,
       UndoBackupKeeps, DropWorkKeeps, DropWorkFirstKeeps, DropBackupKeeps
       DEF Step
  <1>3. ASSUME NEW w \in Writers, Fault(w) PROVE IInv'
    BY <1>3, RenameDataFailsKeeps, RenameBackupFailsKeeps, CrashKeeps
       DEF Fault
  <1>4. ASSUME NEW u \in Users, UserOpens(u) \/ UserEdits(u) \/ UserCloses(u)
        PROVE  IInv'
    BY <1>4, UserOpensKeeps, UserEditsKeeps, UserClosesKeeps
  <1>5. CASE PowerCut \/ OperatorDeletesWork \/ OperatorSettlesBackup
             \/ ReplaceUnlocked
    BY <1>5, PowerCutKeeps, OperatorDeletesWorkKeeps,
       OperatorSettlesBackupKeeps, ReplaceUnlockedKeeps
  <1>6. CASE UNCHANGED vars
    <2>1. UNCHANGED <<dir, past, files, body, last, stem, acked, pc, orig,
                      copy, spare, base, raced, user, upsets>>
      BY <1>6 DEF vars, disk, session
    <2>2. (TypeOK /\ Fresh /\ Shape /\ Apart /\ Unpublished)'
      BY <2>1 DEF IInv, TypeOK, Fresh, Shape, Apart, Unpublished, NeverData,
         Dirs
    <2>3. (Excluded /\ Complete /\ Current /\ DataWhole /\ WorkOwned
           /\ BackupOwned)'
      BY <2>1 DEF IInv, Excluded, Complete, Current, DataWhole, WorkOwned,
         BackupOwned, BackupFile
    <2> QED
      BY <2>2, <2>3 DEF IInv
  <1> QED
    BY <1>1, <1>2, <1>3, <1>4, <1>5, <1>6 DEF Next

(* The inductive invariant holds of every reachable state.                  *)
THEOREM Invariance == Spec => []IInv
  <1> QED
    BY InitIInv, NextIInv, PTL DEF Spec

(* The variables have the values they are meant to have.                    *)
THEOREM Typing == Spec => []TypeOK
  <1>1. IInv => TypeOK
    BY DEF IInv
  <1> QED
    BY <1>1, Invariance, PTL

(* Whatever crashes, failures, power cuts and unlocked replacements happen, *)
(* the data file's name leads to a complete database.                       *)
THEOREM AlwaysWhole == Spec => []DataWhole
  <1>1. IInv => DataWhole
    BY DEF IInv
  <1> QED
    BY <1>1, Invariance, PTL

(* However many writers there are, none publishes, overwrites or removes    *)
(* the work file or the backup of another.                                  *)
THEOREM Ownership == Spec => []FilesOwned
  <1>1. IInv => FilesOwned
    BY DEF IInv, FilesOwned
  <1> QED
    BY <1>1, Invariance, PTL

(* A publication replaces the version its copy was made from.               *)
THEOREM PublicationIsCurrent == Spec => NoLostUpdate
  <1> DEFINE Ready == \A w \in Writers :
                 pc[w] = "final" /\ w \notin raced => base[w] = Db
             Faithful == \A w \in Writers :
                 (pc[w] = "final" /\ pc'[w] = "published" /\ w \notin raced)
                    => base[w] = Db
  <1>1. IInv => Ready
    BY DEF IInv, Current, Db, Writing, OwnsWork
  <1>2. Ready => [Faithful]_vars
    OBVIOUS
  <1>3. Spec => []Ready
    BY <1>1, Invariance, PTL
  <1>4. []Ready => [][Faithful]_vars
    BY <1>2, PTL
  <1> QED
    BY <1>3, <1>4 DEF NoLostUpdate

===============================================================================
