------------------------ MODULE FileDbRecovery_proofs ------------------------
(***************************************************************************)
(* What a write of a file infobase leaves behind, for any writers and      *)
(* users and any bounds: the version a publication replaced is kept        *)
(* (RecoveryKept), a reported publication survives (AckedDurable), nothing *)
(* is left that blocks the next write (NothingLeft), and the protocol does *)
(* what InfobaseStore promises (ImplementsStore).                          *)
(*                                                                         *)
(* The first two rest on the invariant of FileDbPublish_proofs and on RInv: a       *)
(* version comes after the one it replaced (Versions), a work copy is seen *)
(* by nobody before its rename (Unseen), and a file that holds a version   *)
(* to recover is retired: it is not the database any more and nobody has   *)
(* it open to edit it (BackupsRetired, RecoveryRetired).                   *)
(***************************************************************************)
EXTENDS FileDbPublish_proofs

Replaced(d) == stem[body[d["data"]]]

(* A file that nobody will edit any more.                                  *)
Retired(f) == dir["data"] # f /\ \A u \in Users : user[u] # f

Versions ==
    /\ \A f \in File : body[f] <= last
    /\ \A v \in Version : stem[v] < v

(* A work copy has no name but `work`, and nobody has it open.             *)
Unseen ==
    \A w \in Writers : pc[w] \in OwnsWork =>
        /\ \A d \in Dirs : \A n \in {"data", "bak", "bakNew"} : d[n] # copy[w]
        /\ \A v \in Writers : orig[v] # copy[w]
        /\ \A u \in Users : user[u] # copy[w]

(* What a session made so far of its copies.                               *)
Empty ==
    \A w \in Writers :
        /\ pc[w] = "copying" => body[copy[w]] = 0
        /\ pc[w] \in {"spare", "undo"} => body[spare[w]] = 0

Copied == {"prepared", "final", "published", "dropBoth", "dropBak"}

Copies ==
    \A w \in Writers :
        /\ pc[w] \in Finished => stem[body[copy[w]]] = base[w]
        /\ pc[w] \in Copied /\ spare[w] # 0 => body[spare[w]] = body[orig[w]]

(* From the check of the binding on the database is the file the session   *)
(* holds, or one put there without a lock, which replaced nothing.         *)
Bound == {"bound", "linked", "fallback", "spare", "undo", "prepared",
          "final", "dropBoth", "dropBak"}

Bindings ==
    \A w \in Writers :
        /\ pc[w] \in Bound => dir["data"] = orig[w] \/ Replaced(dir) = 0
        /\ pc[w] = "published" =>
              dir["data"] # orig[w] /\ Replaced(dir) \in {0, base[w]}

BackupsRetired ==
    \A d \in Dirs : d["bak"] # 0 => d["bak"] # d["data"] /\ Retired(d["bak"])

RecoveryRetired ==
    \A d \in Dirs :
        d["bakNew"] # 0 /\ Replaced(d) # 0 /\ body[d["bakNew"]] = Replaced(d)
            => Retired(d["bakNew"])

(* Work copies are numbered in the order they are published in.            *)
Publishers == {"published", "renamed"}

Ordered ==
    \A w \in Writers :
        /\ pc[w] \in OwnsWork =>
              /\ acked < copy[w]
              /\ \A v \in Writers : pc[v] \in Publishers => copy[v] < copy[w]
        /\ pc[w] \in Publishers => copy[w] <= dir["data"]

RInv ==
    /\ Versions /\ Unseen /\ Empty /\ Copies /\ Bindings
    /\ BackupsRetired /\ RecoveryRetired /\ RecoveryKept
    /\ Ordered /\ AckedDurable

-----------------------------------------------------------------------------
(* Versions are numbered in order, and what a directory calls the database *)
(* holds one of them.                                                      *)
LEMMA Numbers ==
    ASSUME IInv, RInv
    PROVE  /\ last \in Nat /\ acked \in Nat /\ files \in Nat
           /\ \A f \in File : body[f] \in Nat /\ body[f] <= last
           /\ \A v \in Version : stem[v] \in Nat /\ stem[v] < v
           /\ \A f \in File : body[f] # 0 => body[f] \in Version
           /\ \A d \in Dirs : d["data"] \in File /\ body[d["data"]] \in Version
<1>1. last \in Nat /\ acked \in Nat /\ files \in Nat
  BY FileDbAssumption DEF IInv, TypeOK, Version, File
<1>2. \A f \in File : body[f] \in 0 .. MaxVersion
  BY DEF IInv, TypeOK
<1>3. \A f \in File : body[f] \in Nat /\ body[f] <= last
  BY <1>2, FileDbAssumption DEF RInv, Versions
<1>4. \A v \in Version : stem[v] \in 0 .. MaxVersion
  BY DEF IInv, TypeOK
<1>5. \A v \in Version : stem[v] \in Nat /\ stem[v] < v
  BY <1>4, FileDbAssumption DEF RInv, Versions
<1>6. \A f \in File : body[f] # 0 => body[f] \in Version
  BY <1>2, FileDbAssumption DEF Version
<1>7. \A d \in Dirs : d["data"] \in File /\ body[d["data"]] # 0
  BY InFile DEF IInv, DataWhole, Dirs
<1>. QED
  BY <1>1, <1>3, <1>5, <1>6, <1>7

(* A new version leaves the history of those there were.                   *)
LEMMA OldStem ==
    ASSUME IInv, RInv, NEW s, Begins(s), NEW f \in File, body[f] # 0
    PROVE  stem'[body[f]] = stem[body[f]]
<1>1. body[f] \in Version /\ body[f] # last + 1
  BY Numbers
<1>. QED
  BY <1>1 DEF Begins

(* A database does not hold the version it replaced.                       *)
LEMMA NotItself ==
    ASSUME IInv, RInv, NEW d \in Dirs
    PROVE  Replaced(d) # body[d["data"]] /\ Replaced(d) <= last
<1>1. /\ body[d["data"]] \in Version /\ body[d["data"]] \in Nat
      /\ body[d["data"]] <= last /\ last \in Nat
  BY Numbers
<1>2. Replaced(d) \in Nat /\ Replaced(d) < body[d["data"]]
  BY <1>1, Numbers DEF Replaced
<1>. QED
  BY <1>1, <1>2

(* What is needed is held by a file nobody edits any more.                 *)
LEMMA KeptFile ==
    ASSUME IInv, RInv, NEW d \in Dirs, Replaced(d) # 0
    PROVE  \E n \in {"bak", "bakNew"} :
               d[n] # 0 /\ body[d[n]] = Replaced(d) /\ Retired(d[n])
<1>1. PICK n \in {"bak", "bakNew"} : d[n] # 0 /\ body[d[n]] = Replaced(d)
  BY DEF RInv, RecoveryKept, Replaced, Dirs
<1>2. CASE n = "bak"
  BY <1>1, <1>2 DEF RInv, BackupsRetired
<1>3. CASE n = "bakNew"
  BY <1>1, <1>3 DEF RInv, RecoveryRetired
<1>. QED
  BY <1>1, <1>2, <1>3

(* A step that leaves such files, and the names they have, loses nothing.  *)
LEMMA StillKept ==
    ASSUME IInv, RInv,
           \A e \in Dirs : stem'[body'[e["data"]]] = Replaced(e),
           \A e \in Dirs : \A n \in {"bak", "bakNew"} :
               e[n] # 0 /\ body[e[n]] # 0 /\ Retired(e[n])
                   => body'[e[n]] = body[e[n]],
           \A d \in Dirs' :
               \/ stem'[body'[d["data"]]] = 0
               \/ \E e \in Dirs :
                      /\ d["data"] = e["data"] /\ d["bak"] = e["bak"]
                      /\ d["bakNew"] = e["bakNew"] \/ e["bakNew"] = 0
    PROVE  RecoveryKept'
<1>. SUFFICES ASSUME NEW d \in Dirs', stem'[body'[d["data"]]] # 0
              PROVE  \E n \in {"bak", "bakNew"} :
                         d[n] # 0 /\ body'[d[n]] = stem'[body'[d["data"]]]
  BY DEF RecoveryKept, Dirs
<1>1. PICK e \in Dirs : /\ d["data"] = e["data"] /\ d["bak"] = e["bak"]
                        /\ d["bakNew"] = e["bakNew"] \/ e["bakNew"] = 0
  OBVIOUS
<1>2. stem'[body'[d["data"]]] = Replaced(e)
  BY <1>1
<1>3. PICK n \in {"bak", "bakNew"} :
          e[n] # 0 /\ body[e[n]] = Replaced(e) /\ Retired(e[n])
  BY <1>2, KeptFile
<1>4. body'[e[n]] = Replaced(e)
  BY <1>2, <1>3
<1>5. d[n] = e[n]
  BY <1>1, <1>3
<1>. QED
  BY <1>2, <1>3, <1>4, <1>5

(* Every name there is leads to a file.                                    *)
LEMMA NamedFiles ==
    ASSUME IInv
    PROVE  \A d \in Dirs : \A n \in Names : d[n] # 0 => d[n] \in File
  BY FileDbAssumption DEF IInv, Fresh, File, TypeOK

-----------------------------------------------------------------------------
(* Each step keeps the invariant.                                          *)

(* A session that ends, leaving the disk alone.                            *)
LEMMA ClosingRecovery ==
    ASSUME NEW w \in Writers, IInv, RInv, CloseSession(w),
           UNCHANGED <<dir, past, files, body, last, stem, acked, user>>
    PROVE  RInv'
<1>. USE DEF IInv, RInv, Moves, Closes, Binds, Writes, Begins
<1>1. Closes(w)
  BY CloseSessionCloses DEF IInv
<1>2. Versions'
  BY <1>1 DEF Versions
<1>3. Unseen'
  BY <1>1 DEF Unseen, OwnsWork, Dirs, Shape
<1>4. Empty'
  BY <1>1 DEF Empty
<1>5. Copies'
  BY <1>1 DEF Copies, Copied, Finished
<1>6. Bindings'
  BY <1>1 DEF Bindings, Bound, Replaced
<1>7. BackupsRetired'
  BY <1>1 DEF BackupsRetired, Retired, Dirs, Names
<1>8. RecoveryRetired'
  BY <1>1 DEF RecoveryRetired, Retired, Replaced, Dirs, Names
<1>9. RecoveryKept'
  BY <1>1 DEF RecoveryKept, Dirs, Names
<1>10. Ordered'
  BY <1>1 DEF Ordered, OwnsWork, Publishers
<1>11. AckedDurable'
  BY <1>1 DEF AckedDurable, Dirs, Names
<1>. QED
  BY <1>2, <1>3, <1>4, <1>5, <1>6, <1>7, <1>8, <1>9, <1>10, <1>11 DEF RInv

(* A session that moves to a stage that claims nothing new.                *)
LEMMA MoveRecovery ==
    ASSUME NEW w \in Writers, NEW s \in Locked, IInv, RInv, Goto(w, s),
           UNCHANGED <<dir, past, files, body, last, stem, acked, orig, copy,
                       spare, base, user>>,
           s \notin {"copying", "published", "renamed"},
           s \in OwnsWork => pc[w] \in OwnsWork,
           s \in {"spare", "undo"} => pc[w] = "spare",
           s \in Finished => pc[w] \in Finished,
           s \in Copied => pc[w] \in Copied \/ spare[w] = 0,
           s \in Bound => pc[w] \in Bound \/ dir["data"] = orig[w]
    PROVE  RInv'
<1>. USE DEF IInv, RInv, Moves, Closes, Binds, Writes, Begins
<1>1. Moves(w, s)
  BY GotoMoves DEF IInv, Stage
<1>2. Versions'
  BY <1>1 DEF Versions
<1>3. Unseen'
  BY <1>1 DEF Unseen, OwnsWork, Dirs, Names
<1>4. Empty'
  BY <1>1 DEF Empty
<1>5. Copies'
  BY <1>1 DEF Copies, Copied, Finished
<1>6. Bindings'
  BY <1>1 DEF Bindings, Bound, Replaced
<1>7. BackupsRetired'
  BY <1>1 DEF BackupsRetired, Retired, Dirs, Names
<1>8. RecoveryRetired'
  BY <1>1 DEF RecoveryRetired, Retired, Replaced, Dirs, Names
<1>9. RecoveryKept'
  BY <1>1 DEF RecoveryKept, Dirs, Names
<1>10. Ordered'
  BY <1>1 DEF Ordered, OwnsWork, Publishers
<1>11. AckedDurable'
  BY <1>1 DEF AckedDurable, Dirs, Names
<1>. QED
  BY <1>2, <1>3, <1>4, <1>5, <1>6, <1>7, <1>8, <1>9, <1>10, <1>11 DEF RInv

LEMMA OpenDataRecovery ==
    ASSUME NEW w \in Writers, IInv, RInv, OpenData(w)
    PROVE  RInv'
<1>. USE DEF IInv, RInv, OpenDataChanges, Moves, Closes, Binds, Writes, Begins
<1>1. OpenDataChanges(w)
  BY OpenDataEffect
<1>2. Versions'
  BY <1>1 DEF Versions
<1>3. Unseen'
  BY <1>1 DEF Unseen, OwnsWork, Dirs, Names
<1>4. Empty'
  BY <1>1 DEF Empty
<1>5. Copies'
  BY <1>1 DEF Copies, Copied, Finished
<1>6. Bindings'
  BY <1>1 DEF Bindings, Bound, Replaced
<1>7. BackupsRetired'
  BY <1>1 DEF BackupsRetired, Retired, Dirs, Names
<1>8. RecoveryRetired'
  BY <1>1 DEF RecoveryRetired, Retired, Replaced, Dirs, Names
<1>9. RecoveryKept'
  BY <1>1 DEF RecoveryKept, Dirs, Names
<1>10. Ordered'
  BY <1>1 DEF Ordered, OwnsWork, Publishers
<1>11. AckedDurable'
  BY <1>1 DEF AckedDurable, Dirs, Names
<1>. QED
  BY <1>2, <1>3, <1>4, <1>5, <1>6, <1>7, <1>8, <1>9, <1>10, <1>11 DEF RInv

LEMMA CreateWorkRecovery ==
    ASSUME NEW w \in Writers, IInv, RInv, CreateWork(w),
           dir["data"] = orig[w], dir["work"] = 0
    PROVE  RInv'
<1>. USE DEF IInv, RInv, CreateWorkChanges, Moves, Closes, Binds, Writes,
        Begins
<1>1. CreateWorkChanges(w)
  BY CreateWorkEffect
<1>2. Versions'
  <2>1. \A f \in File : body'[f] <= last
    BY <1>1, Numbers
  <2>. QED
    BY <1>1, <2>1 DEF Versions
<1>3. Unseen'
  BY <1>1, NewNumber DEF Unseen, Dirs, Names
<1>4. Empty'
  BY <1>1, InFile DEF Empty, Shape, OwnsWork
<1>5. Copies'
  BY <1>1, InFile, NewNumber DEF Copies, Copied, Finished, Shape, OwnsWork
<1>6. Bindings'
  BY <1>1, InFile, NewNumber DEF Bindings, Replaced, Shape, Names
<1>7. BackupsRetired'
  BY <1>1 DEF BackupsRetired, Retired, Dirs, Names
<1>8. RecoveryRetired'
  BY <1>1, InFile, NewNumber DEF RecoveryRetired, Retired, Replaced, Dirs,
     Names
<1>9. RecoveryKept'
  <2>1. \A d \in Dirs : \A n \in Names :
            d[n] # 0 => d[n] \in File \ {files + 1}
    BY NewNumber, FileDbAssumption DEF IInv, Fresh, File, TypeOK
  <2>2. \A d \in Dirs : stem'[body'[d["data"]]] = Replaced(d)
    BY <1>1, InFile, NewNumber DEF Replaced, Names
  <2>3. \A d \in Dirs : \A n \in {"bak", "bakNew"} :
            d[n] # 0 => body'[d[n]] = body[d[n]]
    BY <1>1, <2>1 DEF Names
  <2>4. \A d \in Dirs' : d \in Dirs \/ /\ d["data"] = dir["data"]
                                       /\ d["bak"] = dir["bak"]
                                       /\ d["bakNew"] = dir["bakNew"]
    BY <1>1 DEF Names
  <2>. QED
    BY <2>2, <2>3, <2>4, StillKept DEF Dirs
<1>10. Ordered'
  <2>1. acked < files + 1
    BY Numbers DEF AckedDurable, Fresh
  <2>2. \A v \in Writers : copy[v] \in 0 .. files
    BY DEF IInv, Fresh
  <2>3. \A v \in Writers : pc'[v] \in OwnsWork => v = w
    BY <1>1, OneWork DEF OwnsWork, WorkOwned, Shape
  <2>4. \A v \in Writers : pc'[v] \in Publishers => v # w /\ pc[v] = pc'[v]
    BY <1>1 DEF Publishers
  <2>. QED
    BY <1>1, <2>1, <2>2, <2>3, <2>4, Numbers DEF Ordered, OwnsWork, Names
<1>11. AckedDurable'
  BY <1>1, InFile, NewNumber, OneWork DEF AckedDurable, Dirs, Names
<1>. QED
  BY <1>2, <1>3, <1>4, <1>5, <1>6, <1>7, <1>8, <1>9, <1>10, <1>11 DEF RInv

LEMMA WriteCopyRecovery ==
    ASSUME NEW w \in Writers, IInv, RInv, WriteCopy(w)
    PROVE  RInv'
<1>. USE DEF IInv, RInv, WriteCopyChanges, Moves, Closes, Binds, Writes, Begins
<1>1. WriteCopyChanges(w)
  BY WriteCopyEffect
<1>2. Versions'
  <2>1. \A f \in File : body'[f] <= last'
    BY <1>1, Numbers
  <2>2. base[w] = body[orig[w]] /\ orig[w] \in File
    BY <1>1, InFile DEF Current, Writing, OwnsWork, Shape
  <2>3. base[w] < last + 1
    BY <2>2, Numbers
  <2>. QED
    BY <1>1, <2>1, <2>3, Numbers DEF Versions
<1>3. Unseen'
  BY <1>1, InFile, OneWork DEF Unseen, OwnsWork, Dirs, Names
<1>4. Empty'
  BY <1>1, OneWork DEF Empty, OwnsWork
<1>5. Copies'
  BY <1>1, InFile, OneWork DEF Copies, Copied, Finished, Shape, BeforeSpare,
     OwnsWork, Names, Dirs, Unseen, BackupOwned, OwnsBackup, BackupFile
<1>6. Bindings'
  <2>1. \A d \in Dirs : d["data"] # copy[w] /\ d["data"] \in File
    BY <1>1, InFile DEF Unpublished, NeverData
  <2>2. \A d \in Dirs : stem'[body'[d["data"]]] = Replaced(d)
    BY <1>1, <2>1, OldStem DEF DataWhole, Dirs, Replaced
  <2>3. Replaced(dir)' = Replaced(dir)
    BY <1>1, <2>2 DEF Replaced, Dirs
  <2>. QED
    BY <1>1, <2>3 DEF Bindings, Bound
<1>7. BackupsRetired'
  BY <1>1, InFile, OneWork DEF BackupsRetired, Retired, Dirs, Names
<1>8. RecoveryRetired'
  <2>1. \A d \in Dirs : d["data"] # copy[w] /\ d["data"] \in File
    BY <1>1, InFile DEF Unpublished, NeverData
  <2>2. \A d \in Dirs : stem'[body'[d["data"]]] = Replaced(d)
    BY <1>1, <2>1, OldStem DEF DataWhole, Dirs, Replaced
  <2>3. \A d \in Dirs : d["bakNew"] # 0 =>
            d["bakNew"] \in File /\ body'[d["bakNew"]] = body[d["bakNew"]]
    BY <1>1, NamedFiles DEF Unseen, OwnsWork, Names
  <2>. QED
    BY <1>1, <2>2, <2>3 DEF RecoveryRetired, Retired, Replaced, Dirs
<1>9. RecoveryKept'
  <2>1. \A d \in Dirs : d["data"] # copy[w] /\ d["data"] \in File
    BY <1>1, InFile DEF Unpublished, NeverData
  <2>2. \A d \in Dirs : stem'[body'[d["data"]]] = Replaced(d)
    BY <1>1, <2>1, OldStem DEF DataWhole, Dirs, Replaced
  <2>3. \A d \in Dirs : \A n \in {"bak", "bakNew"} :
            d[n] # 0 => body'[d[n]] = body[d[n]]
    BY <1>1, NamedFiles DEF Unseen, OwnsWork, Names
  <2>4. \A d \in Dirs' : d \in Dirs
    BY <1>1 DEF Dirs
  <2>. QED
    BY <2>2, <2>3, <2>4, StillKept
<1>10. Ordered'
  BY <1>1, InFile, OneWork DEF Ordered, OwnsWork, Publishers
<1>11. AckedDurable'
  BY <1>1, InFile, OneWork DEF AckedDurable, Dirs, Names
<1>. QED
  BY <1>2, <1>3, <1>4, <1>5, <1>6, <1>7, <1>8, <1>9, <1>10, <1>11 DEF RInv

LEMMA LinkBackupRecovery ==
    ASSUME NEW w \in Writers, IInv, RInv, LinkBackup(w)
    PROVE  RInv'
<1>. USE DEF IInv, RInv, LinkBackupChanges, Moves, Closes, Binds, Writes,
        Begins
<1>1. LinkBackupChanges(w)
  BY LinkBackupEffect
<1>2. Versions'
  BY <1>1 DEF Versions
<1>3. Unseen'
  BY <1>1 DEF Unseen, OwnsWork, Dirs, Names
<1>4. Empty'
  BY <1>1 DEF Empty
<1>5. Copies'
  BY <1>1 DEF Copies, Copied, Finished
<1>6. Bindings'
  BY <1>1 DEF Bindings, Bound, Replaced, Names
<1>7. BackupsRetired'
  BY <1>1 DEF BackupsRetired, Retired, Dirs, Names
<1>8. RecoveryRetired'
  <2>1. \A d \in Dirs' : d \in Dirs \/ d = dir'
    BY <1>1
  <2>2. dir'["data"] = dir["data"] /\ dir'["bakNew"] = dir["data"]
    BY <1>1 DEF Names
  <2>3. Replaced(dir) # body[dir["data"]]
    BY NotItself DEF Dirs
  <2>. QED
    BY <1>1, <2>1, <2>2, <2>3 DEF RecoveryRetired, Retired, Replaced
<1>9. RecoveryKept'
  BY <1>1 DEF RecoveryKept, Dirs, Names
<1>10. Ordered'
  BY <1>1 DEF Ordered, OwnsWork, Publishers, Names
<1>11. AckedDurable'
  BY <1>1 DEF AckedDurable, Dirs, Names
<1>. QED
  BY <1>2, <1>3, <1>4, <1>5, <1>6, <1>7, <1>8, <1>9, <1>10, <1>11 DEF RInv

LEMMA CreateBackupRecovery ==
    ASSUME NEW w \in Writers, IInv, RInv, CreateBackup(w)
    PROVE  RInv'
<1>. USE DEF IInv, RInv, CreateBackupChanges, Moves, Closes, Binds, Writes,
        Begins
<1>1. CreateBackupChanges(w)
  BY CreateBackupEffect
<1>2. Versions'
  <2>1. \A f \in File : body'[f] <= last
    BY <1>1, Numbers
  <2>. QED
    BY <1>1, <2>1 DEF Versions
<1>3. Unseen'
  BY <1>1, NewNumber DEF Unseen, OwnsWork, Dirs, Names
<1>4. Empty'
  BY <1>1, InFile DEF Empty, Shape, OwnsWork
<1>5. Copies'
  BY <1>1, InFile, NewNumber DEF Copies, Copied, Finished, Shape, OwnsWork
<1>6. Bindings'
  BY <1>1, InFile, NewNumber DEF Bindings, Bound, Replaced, Names, Dirs
<1>7. BackupsRetired'
  BY <1>1 DEF BackupsRetired, Retired, Dirs, Names
<1>8. RecoveryRetired'
  BY <1>1, InFile, NewNumber DEF RecoveryRetired, Retired, Replaced, Dirs,
     Names
<1>9. RecoveryKept'
  <2>1. \A d \in Dirs : \A n \in Names :
            d[n] # 0 => d[n] \in File \ {files + 1}
    BY NewNumber, FileDbAssumption DEF IInv, Fresh, File, TypeOK
  <2>2. \A d \in Dirs : stem'[body'[d["data"]]] = Replaced(d)
    BY <1>1, InFile, NewNumber DEF Replaced, Names
  <2>3. \A d \in Dirs : \A n \in {"bak", "bakNew"} :
            d[n] # 0 => body'[d[n]] = body[d[n]]
    BY <1>1, <2>1 DEF Names
  <2>4. \A d \in Dirs' : d \in Dirs \/ /\ d["data"] = dir["data"]
                                       /\ d["bak"] = dir["bak"]
                                       /\ dir["bakNew"] = 0
    BY <1>1 DEF Names
  <2>. QED
    BY <2>2, <2>3, <2>4, StillKept, <1>1 DEF Dirs
<1>10. Ordered'
  BY <1>1 DEF Ordered, OwnsWork, Publishers, Names
<1>11. AckedDurable'
  BY <1>1, InFile, NewNumber, OneBackup DEF AckedDurable, Dirs, Names
<1>. QED
  BY <1>2, <1>3, <1>4, <1>5, <1>6, <1>7, <1>8, <1>9, <1>10, <1>11 DEF RInv

LEMMA CopyBackupRecovery ==
    ASSUME NEW w \in Writers, IInv, RInv, CopyBackup(w)
    PROVE  RInv'
<1>. USE DEF IInv, RInv, CopyBackupChanges, Moves, Closes, Binds, Writes,
        Begins
<1>1. CopyBackupChanges(w)
  BY CopyBackupEffect
<1>2. Versions'
  BY <1>1, InFile DEF Versions, Shape
<1>3. Unseen'
  BY <1>1, InFile, OneBackup DEF Unseen, OwnsWork, Dirs, Names
<1>4. Empty'
  BY <1>1, InFile, OneBackup DEF Empty, Shape, BeforeSpare, OwnsWork, Finished,
     Names, Dirs, Unseen, BackupOwned, OwnsBackup, BackupFile
<1>5. Copies'
  BY <1>1, InFile, OneBackup DEF Copies, Copied, Finished, Shape, BeforeSpare,
     OwnsWork, Names, Dirs, Unseen, BackupOwned, OwnsBackup, BackupFile
<1>6. Bindings'
  BY <1>1, InFile DEF Bindings, Bound, Replaced, Shape, BeforeSpare, OwnsWork,
     Finished, Names, Dirs, Unpublished, NeverData
<1>7. BackupsRetired'
  BY <1>1, InFile, OneBackup DEF BackupsRetired, Retired, Dirs, Names
<1>8. RecoveryRetired'
  BY <1>1, InFile DEF RecoveryRetired, Retired, Replaced, Dirs, Names, Shape,
     BeforeSpare, Unpublished, NeverData
<1>9. RecoveryKept'
  <2>1. \A d \in Dirs : d["data"] # spare[w] /\ d["data"] \in File
    BY <1>1, InFile DEF Unpublished, NeverData
  <2>2. \A d \in Dirs : stem'[body'[d["data"]]] = Replaced(d)
    BY <1>1, <2>1 DEF Replaced
  <2>3. \A d \in Dirs : \A n \in {"bak", "bakNew"} :
            d[n] # 0 /\ body[d[n]] # 0 => body'[d[n]] = body[d[n]]
    BY <1>1, NamedFiles DEF Empty, Names
  <2>4. \A d \in Dirs' : d \in Dirs
    BY <1>1 DEF Dirs
  <2>. QED
    BY <2>2, <2>3, <2>4, StillKept
<1>10. Ordered'
  BY <1>1, InFile, OneBackup DEF Ordered, OwnsWork, Publishers
<1>11. AckedDurable'
  BY <1>1, InFile, OneBackup DEF AckedDurable, Dirs, Names
<1>. QED
  BY <1>2, <1>3, <1>4, <1>5, <1>6, <1>7, <1>8, <1>9, <1>10, <1>11 DEF RInv

LEMMA RenameDataRecovery ==
    ASSUME NEW w \in Writers, IInv, RInv, RenameData(w)
    PROVE  RInv'
<1>. USE DEF IInv, RInv, RenameDataChanges, Moves, Closes, Binds, Writes,
        Begins
<1>1. RenameDataChanges(w)
  BY RenameDataEffect
<1>2. Versions'
  BY <1>1, InFile, OneWork, OneBackup DEF Versions
<1>3. Unseen'
  BY <1>1, OneWork DEF Unseen, OwnsWork
<1>4. Empty'
  BY <1>1, InFile, OneWork, OneBackup DEF Empty
<1>5. Copies'
  BY <1>1, InFile, OneWork, OneBackup DEF Copies, Copied, Finished
<1>6. Bindings'
  <2>1. dir'["data"] = copy[w]
    BY <1>1 DEF WorkOwned, OwnsWork
  <2>2. copy[w] # orig[w] /\ Replaced(dir)' = base[w]
    BY <1>1, <2>1 DEF Unseen, OwnsWork, Copies, Finished, Replaced
  <2>3. \A v \in Writers \ {w} : pc[v] \notin Bound \cup {"published"}
    BY <1>1, OneWork, OneBackup DEF Bound, OwnsWork, OwnsBackup
  <2>. QED
    BY <1>1, <2>1, <2>2, <2>3 DEF Bindings, Bound
<1>7. BackupsRetired'
  BY <1>1 DEF BackupsRetired, Retired, Dirs, Names, Shape, BeforeSpare,
     OwnsWork, Unseen, WorkOwned
<1>8. RecoveryRetired'
  BY <1>1 DEF RecoveryRetired, Retired, Replaced, Dirs, Names, Shape,
     BeforeSpare, OwnsWork, Unpublished, NeverData, Unseen, Excluded, Locked,
     BackupOwned, OwnsBackup, BackupFile, WorkOwned
<1>9. RecoveryKept'
  <2>1. dir'["data"] = copy[w] /\ Replaced(dir)' = base[w]
    BY <1>1 DEF WorkOwned, OwnsWork, Copies, Finished, Replaced
  <2>2. dir'["bakNew"] = BackupFile(w) /\ BackupFile(w) # 0
    BY <1>1 DEF BackupOwned, OwnsBackup, Shape, BackupFile
  <2>3. body[BackupFile(w)] = base[w]
    BY <1>1 DEF BackupFile, Copies, Copied, Current, Writing, OwnsWork
  <2>4. \A d \in Dirs' : d \in Dirs \/ d = dir'
    BY <1>1
  <2>. QED
    BY <1>1, <2>1, <2>2, <2>3, <2>4 DEF RecoveryKept, Replaced, Dirs
<1>10. Ordered'
  BY <1>1, OneWork DEF Ordered, OwnsWork, Publishers, Shape, BeforeSpare,
     Finished, Names, Dirs, TypeOK, WorkOwned
<1>11. AckedDurable'
  <2>1. dir'["data"] = copy[w]
    BY <1>1 DEF WorkOwned, OwnsWork
  <2>2. acked < copy[w] /\ acked \in Nat /\ copy[w] \in Nat
    BY <1>1, Numbers, FileDbAssumption DEF Ordered, OwnsWork, TypeOK
  <2>3. \A d \in Dirs' : d \in Dirs \/ d = dir'
    BY <1>1
  <2>. QED
    BY <1>1, <2>1, <2>2, <2>3 DEF AckedDurable, Dirs
<1>. QED
  BY <1>2, <1>3, <1>4, <1>5, <1>6, <1>7, <1>8, <1>9, <1>10, <1>11 DEF RInv

LEMMA RenameBackupRecovery ==
    ASSUME NEW w \in Writers, IInv, RInv, RenameBackup(w)
    PROVE  RInv'
<1>. USE DEF IInv, RInv, RenameBackupChanges, Moves, Closes, Binds, Writes,
        Begins
<1>1. RenameBackupChanges(w)
  BY RenameBackupEffect
<1>2. Versions'
  BY <1>1, InFile, OneBackup DEF Versions
<1>3. Unseen'
  BY <1>1 DEF Unseen, OwnsWork, Dirs, Shape
<1>4. Empty'
  BY <1>1, InFile, OneBackup DEF Empty
<1>5. Copies'
  BY <1>1, InFile, OneBackup DEF Copies, Copied, Finished
<1>6. Bindings'
  BY <1>1, InFile, OneBackup DEF Bindings, Bound, Replaced
<1>7. BackupsRetired'
  <2>1. dir'["bak"] = BackupFile(w)
    BY <1>1 DEF BackupOwned, OwnsBackup
  <2>2. Retired(BackupFile(w))
    BY <1>1 DEF BackupFile, Retired, Bindings, Excluded, Locked, Unpublished,
       NeverData, Dirs
  <2>3. \A d \in Dirs' : d \in Dirs \/ d = dir'
    BY <1>1
  <2>. QED
    BY <1>1, <2>1, <2>2, <2>3 DEF BackupsRetired, Retired
<1>8. RecoveryRetired'
  BY <1>1 DEF RecoveryRetired, Retired, Replaced
<1>9. RecoveryKept'
  <2>1. dir'["bak"] = BackupFile(w) /\ BackupFile(w) # 0
    BY <1>1 DEF BackupOwned, OwnsBackup, Shape, BackupFile
  <2>2. body[BackupFile(w)] = base[w]
    BY <1>1 DEF BackupFile, Copies, Copied, Current, Writing
  <2>3. Replaced(dir)' \in {0, base[w]}
    BY <1>1 DEF Bindings, Replaced
  <2>4. \A d \in Dirs' : d \in Dirs \/ d = dir'
    BY <1>1
  <2>. QED
    BY <1>1, <2>1, <2>2, <2>3, <2>4 DEF RecoveryKept, Replaced, Dirs
<1>10. Ordered'
  BY <1>1, InFile, OneBackup DEF Ordered, OwnsWork, Publishers
<1>11. AckedDurable'
  BY <1>1, InFile, OneBackup DEF AckedDurable, Dirs, Names
<1>. QED
  BY <1>2, <1>3, <1>4, <1>5, <1>6, <1>7, <1>8, <1>9, <1>10, <1>11 DEF RInv

LEMMA SyncAndReportRecovery ==
    ASSUME NEW w \in Writers, IInv, RInv, SyncAndReport(w)
    PROVE  RInv'
<1>. USE DEF IInv, RInv, SyncAndReportChanges, Moves, Closes, Binds, Writes,
        Begins
<1>1. SyncAndReportChanges(w)
  BY SyncAndReportEffect
<1>2. Versions'
  BY <1>1 DEF Versions
<1>3. Unseen'
  BY <1>1 DEF Unseen, OwnsWork, Shape
<1>4. Empty'
  BY <1>1 DEF Empty
<1>5. Copies'
  BY <1>1 DEF Copies, Copied, Finished
<1>6. Bindings'
  BY <1>1 DEF Bindings, Bound, Replaced
<1>7. BackupsRetired'
  BY <1>1 DEF BackupsRetired, Retired, Dirs, Names
<1>8. RecoveryRetired'
  BY <1>1 DEF RecoveryRetired, Retired, Replaced, Dirs, Names
<1>9. RecoveryKept'
  BY <1>1 DEF RecoveryKept, Dirs, Names
<1>10. Ordered'
  BY <1>1 DEF Ordered, OwnsWork, Publishers
<1>11. AckedDurable'
  <2>1. copy[w] <= dir["data"] /\ acked <= dir["data"]
    BY <1>1 DEF Ordered, Publishers, AckedDurable, Dirs
  <2>. QED
    BY <1>1, <2>1 DEF AckedDurable
<1>. QED
  BY <1>2, <1>3, <1>4, <1>5, <1>6, <1>7, <1>8, <1>9, <1>10, <1>11 DEF RInv

LEMMA UndoBackupRecovery ==
    ASSUME NEW w \in Writers, IInv, RInv, UndoBackup(w)
    PROVE  RInv'
<1>. USE DEF IInv, RInv, UndoBackupChanges, Moves, Closes, Binds, Writes,
        Begins
<1>1. UndoBackupChanges(w)
  BY UndoBackupEffect
<1>2. Versions'
  BY <1>1, InFile, OneBackup DEF Versions
<1>3. Unseen'
  BY <1>1 DEF Unseen, OwnsWork, Dirs, Names, Shape
<1>4. Empty'
  BY <1>1, InFile, OneBackup DEF Empty
<1>5. Copies'
  BY <1>1, InFile, OneBackup DEF Copies, Copied, Finished
<1>6. Bindings'
  BY <1>1 DEF Bindings, Bound, Replaced, Names
<1>7. BackupsRetired'
  BY <1>1, InFile, OneBackup DEF BackupsRetired, Retired, Dirs, Names
<1>8. RecoveryRetired'
  BY <1>1 DEF RecoveryRetired, Retired, Replaced, Names
<1>9. RecoveryKept'
  <2>1. body[dir["bakNew"]] = 0
    BY <1>1 DEF BackupOwned, OwnsBackup, BackupFile, Shape, Empty
  <2>2. \A d \in Dirs' : d \in Dirs \/ d = dir'
    BY <1>1
  <2>3. dir'["data"] = dir["data"] /\ dir'["bak"] = dir["bak"]
    BY <1>1 DEF Names
  <2>. QED
    BY <1>1, <2>1, <2>2, <2>3 DEF RecoveryKept, Dirs
<1>10. Ordered'
  BY <1>1 DEF Ordered, OwnsWork, Publishers, Names
<1>11. AckedDurable'
  BY <1>1, InFile, OneBackup DEF AckedDurable, Dirs, Names
<1>. QED
  BY <1>2, <1>3, <1>4, <1>5, <1>6, <1>7, <1>8, <1>9, <1>10, <1>11 DEF RInv

LEMMA DropWorkRecovery ==
    ASSUME NEW w \in Writers, IInv, RInv, DropWork(w)
    PROVE  RInv'
<1>. USE DEF IInv, RInv, DropWorkChanges, Moves, Closes, Binds, Writes, Begins
<1>1. DropWorkChanges(w)
  BY DropWorkEffect
<1>2. Versions'
  BY <1>1 DEF Versions
<1>3. Unseen'
  BY <1>1 DEF Unseen, OwnsWork, Dirs, Names, Shape
<1>4. Empty'
  BY <1>1 DEF Empty
<1>5. Copies'
  BY <1>1 DEF Copies, Copied, Finished
<1>6. Bindings'
  BY <1>1 DEF Bindings, Bound, Replaced, Names
<1>7. BackupsRetired'
  BY <1>1 DEF BackupsRetired, Retired, Dirs, Names
<1>8. RecoveryRetired'
  BY <1>1 DEF RecoveryRetired, Retired, Replaced, Dirs, Names
<1>9. RecoveryKept'
  BY <1>1 DEF RecoveryKept, Dirs, Names
<1>10. Ordered'
  BY <1>1 DEF Ordered, OwnsWork, Publishers, Names
<1>11. AckedDurable'
  BY <1>1 DEF AckedDurable, Dirs, Names
<1>. QED
  BY <1>2, <1>3, <1>4, <1>5, <1>6, <1>7, <1>8, <1>9, <1>10, <1>11 DEF RInv

LEMMA DropWorkFirstRecovery ==
    ASSUME NEW w \in Writers, IInv, RInv, DropWorkFirst(w)
    PROVE  RInv'
<1>. USE DEF IInv, RInv, DropWorkFirstChanges, Moves, Closes, Binds, Writes,
        Begins
<1>1. DropWorkFirstChanges(w)
  BY DropWorkFirstEffect
<1>2. Versions'
  BY <1>1 DEF Versions
<1>3. Unseen'
  BY <1>1 DEF Unseen, OwnsWork, Dirs, Names
<1>4. Empty'
  BY <1>1 DEF Empty
<1>5. Copies'
  BY <1>1 DEF Copies, Copied, Finished
<1>6. Bindings'
  BY <1>1 DEF Bindings, Bound, Replaced, Names
<1>7. BackupsRetired'
  BY <1>1 DEF BackupsRetired, Retired, Dirs, Names
<1>8. RecoveryRetired'
  BY <1>1 DEF RecoveryRetired, Retired, Replaced, Dirs, Names
<1>9. RecoveryKept'
  BY <1>1 DEF RecoveryKept, Dirs, Names
<1>10. Ordered'
  BY <1>1 DEF Ordered, OwnsWork, Publishers, Names
<1>11. AckedDurable'
  BY <1>1 DEF AckedDurable, Dirs, Names
<1>. QED
  BY <1>2, <1>3, <1>4, <1>5, <1>6, <1>7, <1>8, <1>9, <1>10, <1>11 DEF RInv

LEMMA DropBackupRecovery ==
    ASSUME NEW w \in Writers, IInv, RInv, DropBackup(w)
    PROVE  RInv'
<1>. USE DEF IInv, RInv, DropBackupChanges, Moves, Closes, Binds, Writes,
        Begins
<1>1. DropBackupChanges(w)
  BY DropBackupEffect
<1>2. Versions'
  BY <1>1, InFile, OneBackup DEF Versions
<1>3. Unseen'
  BY <1>1 DEF Unseen, OwnsWork, Dirs, Names, Shape
<1>4. Empty'
  BY <1>1, InFile, OneBackup DEF Empty
<1>5. Copies'
  BY <1>1, InFile, OneBackup DEF Copies, Copied, Finished
<1>6. Bindings'
  BY <1>1 DEF Bindings, Bound, Replaced, Names
<1>7. BackupsRetired'
  BY <1>1, InFile, OneBackup DEF BackupsRetired, Retired, Dirs, Names
<1>8. RecoveryRetired'
  BY <1>1 DEF RecoveryRetired, Retired, Replaced, Names
<1>9. RecoveryKept'
  <2>1. body[dir["bakNew"]] = body[orig[w]]
    BY <1>1 DEF BackupOwned, OwnsBackup, BackupFile, Copies, Copied
  <2>2. Replaced(dir) = 0 \/ Replaced(dir) # body[dir["bakNew"]]
    BY <1>1, <2>1, NotItself DEF Bindings, Bound, Dirs
  <2>3. \A d \in Dirs' : d \in Dirs \/ d = dir'
    BY <1>1
  <2>4. dir'["data"] = dir["data"] /\ dir'["bak"] = dir["bak"]
    BY <1>1 DEF Names
  <2>. QED
    BY <1>1, <2>2, <2>3, <2>4 DEF RecoveryKept, Replaced, Dirs
<1>10. Ordered'
  BY <1>1 DEF Ordered, OwnsWork, Publishers, Names
<1>11. AckedDurable'
  BY <1>1, InFile, OneBackup DEF AckedDurable, Dirs, Names
<1>. QED
  BY <1>2, <1>3, <1>4, <1>5, <1>6, <1>7, <1>8, <1>9, <1>10, <1>11 DEF RInv

LEMMA PowerCutRecovery ==
    ASSUME IInv, RInv, PowerCut
    PROVE  RInv'
<1>. USE DEF IInv, RInv, PowerCutChanges, Moves, Closes, Binds, Writes, Begins
<1>1. PowerCutChanges
  BY PowerCutEffect
<1>2. Versions'
  BY <1>1 DEF Versions
<1>3. Unseen'
  BY <1>1 DEF Unseen, OwnsWork, Dirs, Names
<1>4. Empty'
  BY <1>1 DEF Empty
<1>5. Copies'
  BY <1>1 DEF Copies, Copied, Finished
<1>6. Bindings'
  BY <1>1 DEF Bindings, Bound, Replaced
<1>7. BackupsRetired'
  BY <1>1 DEF BackupsRetired, Retired, Dirs, Names
<1>8. RecoveryRetired'
  <2>1. Replaced(dir') # body[dir'["data"]]
    BY <1>1, NotItself
  <2>2. \A u \in Users : user'[u] = 0
    BY <1>1
  <2>. QED
    BY <1>1, <2>1, <2>2 DEF RecoveryRetired, Retired, Replaced
<1>9. RecoveryKept'
  BY <1>1 DEF RecoveryKept, Dirs, Names
<1>10. Ordered'
  BY <1>1 DEF Ordered, OwnsWork, Publishers
<1>11. AckedDurable'
  BY <1>1 DEF AckedDurable, Dirs, Names
<1>. QED
  BY <1>2, <1>3, <1>4, <1>5, <1>6, <1>7, <1>8, <1>9, <1>10, <1>11 DEF RInv

LEMMA OperatorDeletesWorkRecovery ==
    ASSUME IInv, RInv, OperatorDeletesWork
    PROVE  RInv'
<1>. USE DEF IInv, RInv, OperatorDeletesWorkChanges, Moves, Closes, Binds,
        Writes, Begins
<1>1. OperatorDeletesWorkChanges
  BY OperatorDeletesWorkEffect
<1>2. Versions'
  BY <1>1 DEF Versions
<1>3. Unseen'
  BY <1>1 DEF Unseen, OwnsWork, Dirs, Names
<1>4. Empty'
  BY <1>1 DEF Empty
<1>5. Copies'
  BY <1>1 DEF Copies, Copied, Finished
<1>6. Bindings'
  BY <1>1 DEF Bindings, Bound, Replaced
<1>7. BackupsRetired'
  BY <1>1 DEF BackupsRetired, Retired, Dirs, Names
<1>8. RecoveryRetired'
  BY <1>1 DEF RecoveryRetired, Retired, Replaced, Dirs, Names
<1>9. RecoveryKept'
  BY <1>1 DEF RecoveryKept, Dirs, Names
<1>10. Ordered'
  BY <1>1 DEF Ordered, OwnsWork, Publishers
<1>11. AckedDurable'
  BY <1>1 DEF AckedDurable, Dirs, Names
<1>. QED
  BY <1>2, <1>3, <1>4, <1>5, <1>6, <1>7, <1>8, <1>9, <1>10, <1>11 DEF RInv

LEMMA OperatorSettlesBackupRecovery ==
    ASSUME IInv, RInv, OperatorSettlesBackup
    PROVE  RInv'
<1>. USE DEF IInv, RInv, OperatorSettlesBackupChanges, Moves, Closes, Binds,
        Writes, Begins
<1>1. OperatorSettlesBackupChanges
  BY OperatorSettlesBackupEffect
<1>2. Versions'
  BY <1>1 DEF Versions
<1>3. Unseen'
  BY <1>1 DEF Unseen, OwnsWork, Dirs, Names
<1>4. Empty'
  BY <1>1 DEF Empty
<1>5. Copies'
  BY <1>1 DEF Copies, Copied, Finished
<1>6. Bindings'
  BY <1>1 DEF Bindings, Bound, Replaced
<1>7. BackupsRetired'
  <2>1. \A d \in Dirs' : d \in Dirs \/ d = dir'
    BY <1>1
  <2>2. ASSUME body[dir["bakNew"]] = stem[Db]
        PROVE  Retired(dir["bakNew"])
    <3>1. CASE stem[Db] = 0
      <4>1. body[dir["data"]] # 0 /\ \A u \in Users :
                user[u] # 0 => body[user[u]] # 0
        BY DEF DataWhole, Complete
      <4>. QED
        BY <1>1, <2>2, <3>1, <4>1 DEF Retired
    <3>2. CASE stem[Db] # 0
      BY <1>1, <2>2, <3>2 DEF RecoveryRetired, Replaced, Db, Dirs
    <3>. QED
      BY <3>1, <3>2
  <2>3. dir'["bak"] # 0 => dir'["bak"] # dir'["data"] /\ Retired(dir'["bak"])
    BY <1>1, <2>2 DEF BackupsRetired, Retired, Dirs
  <2>. QED
    BY <1>1, <2>1, <2>3 DEF BackupsRetired, Retired
<1>8. RecoveryRetired'
  BY <1>1 DEF RecoveryRetired, Retired, Replaced, Dirs, Names
<1>9. RecoveryKept'
  <2>1. \A d \in Dirs' : d \in Dirs \/ d = dir'
    BY <1>1
  <2>2. stem[Db] # 0 => dir'["bak"] # 0 /\ body[dir'["bak"]] = stem[Db]
    BY <1>1 DEF RecoveryKept, Db, Dirs
  <2>. QED
    BY <1>1, <2>1, <2>2 DEF RecoveryKept, Db, Dirs
<1>10. Ordered'
  BY <1>1 DEF Ordered, OwnsWork, Publishers
<1>11. AckedDurable'
  BY <1>1 DEF AckedDurable, Dirs, Names
<1>. QED
  BY <1>2, <1>3, <1>4, <1>5, <1>6, <1>7, <1>8, <1>9, <1>10, <1>11 DEF RInv

LEMMA ReplaceUnlockedRecovery ==
    ASSUME IInv, RInv, ReplaceUnlocked
    PROVE  RInv'
<1>. USE DEF IInv, RInv, ReplaceUnlockedChanges, Moves, Closes, Binds, Writes,
        Begins
<1>1. ReplaceUnlockedChanges
  BY ReplaceUnlockedEffect
<1>2. Versions'
  BY <1>1 DEF Versions, Shape, BeforeSpare, OwnsWork, Finished, TypeOK
<1>3. Unseen'
  BY <1>1, NewNumber DEF Unseen, Dirs, Names
<1>4. Empty'
  BY <1>1, InFile, NewNumber DEF Empty, Shape, OwnsWork
<1>5. Copies'
  <2>1. \A v \in Writers : pc[v] \in Finished =>
            /\ copy[v] \in File \ {files + 1} /\ body[copy[v]] # 0
            /\ stem'[body[copy[v]]] = stem[body[copy[v]]]
    BY <1>1, InFile, NewNumber, OldStem DEF Complete, Shape, Finished, OwnsWork
  <2>2. \A v \in Writers : pc[v] \in Copied /\ spare[v] # 0 =>
            /\ spare[v] \in File \ {files + 1}
            /\ orig[v] \in File \ {files + 1}
    BY InFile, NewNumber DEF Shape, Copied
  <2>. QED
    BY <1>1, <2>1, <2>2 DEF Copies
<1>6. Bindings'
  BY <1>1, NewNumber DEF Bindings, Replaced
<1>7. BackupsRetired'
  BY <1>1, NewNumber DEF BackupsRetired, Retired, Dirs, Names
<1>8. RecoveryRetired'
  <2>1. \A d \in Dirs : \A n \in Names :
            d[n] # 0 => d[n] \in File \ {files + 1}
    BY NewNumber, FileDbAssumption DEF IInv, Fresh, File, TypeOK
  <2>2. \A d \in Dirs : stem'[body'[d["data"]]] = Replaced(d)
    BY <1>1, <2>1, OldStem DEF DataWhole, Dirs, Names, Replaced
  <2>3. \A d \in Dirs : \A n \in {"bak", "bakNew"} :
            d[n] # 0 => body'[d[n]] = body[d[n]]
    BY <1>1, <2>1 DEF Names
  <2>4. stem'[body'[dir'["data"]]] = 0
    BY <1>1
  <2>5. \A d \in Dirs' : d \in Dirs \/ d = dir'
    BY <1>1
  <2>6. \A d \in Dirs : dir'["data"] # d["bakNew"]
    BY <1>1, NewNumber DEF Names
  <2>. QED
    BY <1>1, <2>2, <2>3, <2>4, <2>5, <2>6 DEF RecoveryRetired, Retired,
                                              Replaced
<1>9. RecoveryKept'
  <2>1. \A d \in Dirs : \A n \in Names :
            d[n] # 0 => d[n] \in File \ {files + 1}
    BY NewNumber, FileDbAssumption DEF IInv, Fresh, File, TypeOK
  <2>2. \A d \in Dirs : stem'[body'[d["data"]]] = Replaced(d)
    BY <1>1, <2>1, OldStem DEF DataWhole, Dirs, Names, Replaced
  <2>3. \A d \in Dirs : \A n \in {"bak", "bakNew"} :
            d[n] # 0 => body'[d[n]] = body[d[n]]
    BY <1>1, <2>1 DEF Names
  <2>4. stem'[body'[dir'["data"]]] = 0
    BY <1>1
  <2>5. \A d \in Dirs' : d \in Dirs \/ d = dir'
    BY <1>1
  <2>. QED
    BY <2>2, <2>3, <2>4, <2>5, StillKept
<1>10. Ordered'
  <2>1. \A v \in Writers : copy[v] \in 0 .. files
    BY DEF Fresh
  <2>2. \A v \in Writers : copy[v] <= files + 1
    BY <2>1, NewNumber
  <2>. QED
    BY <1>1, <2>2 DEF Ordered
<1>11. AckedDurable'
  <2>1. dir["data"] >= acked /\ dir["data"] \in 0 .. files
    BY DEF AckedDurable, Fresh, Dirs, Names
  <2>2. files + 1 >= acked
    BY <2>1, Numbers
  <2>3. \A d \in Dirs' : d \in Dirs \/ d["data"] = files + 1
    BY <1>1
  <2>. QED
    BY <1>1, <2>2, <2>3 DEF AckedDurable, Dirs
<1>. QED
  BY <1>2, <1>3, <1>4, <1>5, <1>6, <1>7, <1>8, <1>9, <1>10, <1>11 DEF RInv

LEMMA UserOpensRecovery ==
    ASSUME NEW u \in Users, IInv, RInv, UserOpens(u)
    PROVE  RInv'
<1>. USE DEF IInv, RInv, UserOpensChanges, Moves, Closes, Binds, Writes, Begins
<1>1. UserOpensChanges(u)
  BY UserOpensEffect
<1>2. Versions'
  BY <1>1 DEF Versions
<1>3. Unseen'
  BY <1>1 DEF Unseen, OwnsWork, Dirs, Names
<1>4. Empty'
  BY <1>1 DEF Empty
<1>5. Copies'
  BY <1>1 DEF Copies, Copied, Finished
<1>6. Bindings'
  BY <1>1 DEF Bindings, Bound, Replaced
<1>7. BackupsRetired'
  BY <1>1 DEF BackupsRetired, Retired, Dirs, Names
<1>8. RecoveryRetired'
  BY <1>1 DEF RecoveryRetired, Retired, Replaced, Dirs, Names
<1>9. RecoveryKept'
  BY <1>1 DEF RecoveryKept, Dirs, Names
<1>10. Ordered'
  BY <1>1 DEF Ordered, OwnsWork, Publishers
<1>11. AckedDurable'
  BY <1>1 DEF AckedDurable, Dirs, Names
<1>. QED
  BY <1>2, <1>3, <1>4, <1>5, <1>6, <1>7, <1>8, <1>9, <1>10, <1>11 DEF RInv

LEMMA UserEditsRecovery ==
    ASSUME NEW u \in Users, IInv, RInv, UserEdits(u)
    PROVE  RInv'
<1>. USE DEF IInv, RInv, UserEditsChanges, Moves, Closes, Binds, Writes, Begins
<1>1. UserEditsChanges(u)
  BY UserEditsEffect
<1>2. Versions'
  <2>1. body[user[u]] \in Version /\ user[u] \in File
    BY <1>1, Numbers DEF Complete
  <2>2. stem[body[user[u]]] < last + 1
    BY <2>1, Numbers
  <2>3. \A f \in File : body'[f] <= last'
    BY <1>1, Numbers
  <2>. QED
    BY <1>1, <2>2, <2>3, Numbers DEF Versions
<1>3. Unseen'
  BY <1>1, InFile DEF Unseen, OwnsWork, Dirs, Names
<1>4. Empty'
  BY <1>1, InFile DEF Empty, Shape, BeforeSpare, OwnsWork, Finished,
     Unpublished, NeverData
<1>5. Copies'
  <2>1. \A v \in Writers : pc[v] \in Finished =>
            /\ copy[v] \in File /\ body[copy[v]] # 0 /\ copy[v] # user[u]
            /\ stem'[body[copy[v]]] = stem[body[copy[v]]]
    BY <1>1, InFile, OldStem DEF Complete, Shape, Finished, OwnsWork, Unseen
  <2>2. \A v \in Writers : pc[v] \in Copied /\ spare[v] # 0 =>
            /\ spare[v] \in File /\ spare[v] # user[u]
            /\ orig[v] \in File /\ orig[v] # user[u]
    BY InFile DEF Shape, Copied, Unpublished, NeverData, Excluded, Locked
  <2>. QED
    BY <1>1, <2>1, <2>2 DEF Copies
<1>6. Bindings'
  <2>1. \A d \in Dirs : d["data"] \in File /\ body[d["data"]] # 0
    BY InFile DEF DataWhole, Dirs
  <2>2. \A d \in Dirs : stem'[body'[d["data"]]] = Replaced(d)
    BY <1>1, <2>1, OldStem DEF Replaced
  <2>3. Replaced(dir)' = Replaced(dir)
    BY <1>1, <2>2 DEF Replaced, Dirs
  <2>. QED
    BY <1>1, <2>3 DEF Bindings
<1>7. BackupsRetired'
  BY <1>1, InFile DEF BackupsRetired, Retired, Dirs, Names
<1>8. RecoveryRetired'
  <2>1. \A d \in Dirs : d["data"] \in File /\ body[d["data"]] # 0
    BY InFile DEF DataWhole, Dirs
  <2>2. \A d \in Dirs : stem'[body'[d["data"]]] = Replaced(d)
    BY <1>1, <2>1, OldStem DEF Replaced
  <2>3. \A d \in Dirs : d["bakNew"] # 0 => d["bakNew"] \in File
    BY FileDbAssumption DEF TypeOK, File, Dirs, Names
  <2>4. \A d \in Dirs : Replaced(d) # last + 1
    BY NotItself, Numbers DEF Replaced
  <2>5. \A d \in Dirs : d["bakNew"] # 0 /\ body'[d["bakNew"]] = Replaced(d)
            => body[d["bakNew"]] = Replaced(d)
    BY <1>1, <2>3, <2>4
  <2>6. Dirs' = Dirs
    BY <1>1 DEF Dirs
  <2>. QED
    BY <1>1, <2>2, <2>5, <2>6 DEF RecoveryRetired, Retired, Replaced
<1>9. RecoveryKept'
  <2>1. \A d \in Dirs : d["data"] \in File /\ body[d["data"]] # 0
    BY InFile DEF DataWhole, Dirs
  <2>2. \A d \in Dirs : stem'[body'[d["data"]]] = Replaced(d)
    BY <1>1, <2>1, OldStem DEF Replaced
  <2>3. \A d \in Dirs : \A n \in {"bak", "bakNew"} :
            d[n] # 0 /\ Retired(d[n]) => body'[d[n]] = body[d[n]]
    BY <1>1, NamedFiles DEF Retired, Names
  <2>4. \A d \in Dirs' : d \in Dirs
    BY <1>1 DEF Dirs
  <2>. QED
    BY <2>2, <2>3, <2>4, StillKept
<1>10. Ordered'
  BY <1>1, InFile DEF Ordered, OwnsWork, Publishers
<1>11. AckedDurable'
  BY <1>1, InFile DEF AckedDurable, Dirs, Names
<1>. QED
  BY <1>2, <1>3, <1>4, <1>5, <1>6, <1>7, <1>8, <1>9, <1>10, <1>11 DEF RInv

LEMMA UserClosesRecovery ==
    ASSUME NEW u \in Users, IInv, RInv, UserCloses(u)
    PROVE  RInv'
<1>. USE DEF IInv, RInv, UserClosesChanges, Moves, Closes, Binds, Writes,
        Begins
<1>1. UserClosesChanges(u)
  BY UserClosesEffect
<1>2. Versions'
  BY <1>1 DEF Versions
<1>3. Unseen'
  BY <1>1 DEF Unseen, Dirs, Shape
<1>4. Empty'
  BY <1>1 DEF Empty
<1>5. Copies'
  BY <1>1 DEF Copies, Copied, Finished
<1>6. Bindings'
  BY <1>1 DEF Bindings, Bound, Replaced
<1>7. BackupsRetired'
  BY <1>1 DEF BackupsRetired, Retired, Dirs, Names
<1>8. RecoveryRetired'
  BY <1>1 DEF RecoveryRetired, Retired, Replaced, Dirs, Names
<1>9. RecoveryKept'
  BY <1>1 DEF RecoveryKept, Dirs, Names
<1>10. Ordered'
  BY <1>1 DEF Ordered, OwnsWork, Publishers
<1>11. AckedDurable'
  BY <1>1 DEF AckedDurable, Dirs, Names
<1>. QED
  BY <1>2, <1>3, <1>4, <1>5, <1>6, <1>7, <1>8, <1>9, <1>10, <1>11 DEF RInv

-----------------------------------------------------------------------------
(* The steps that only move a session on, or end it.                       *)

LEMMA EndUnwrittenRecovery ==
    ASSUME NEW w \in Writers, IInv, RInv, EndUnwritten(w)
    PROVE  RInv'
  BY ClosingRecovery DEF EndUnwritten, disk, session

LEMMA RenameBackupFailsRecovery ==
    ASSUME NEW w \in Writers, IInv, RInv, RenameBackupFails(w)
    PROVE  RInv'
  BY ClosingRecovery DEF RenameBackupFails, disk, session

LEMMA CrashRecovery ==
    ASSUME NEW w \in Writers, IInv, RInv, Crash(w)
    PROVE  RInv'
  BY ClosingRecovery DEF Crash, disk, session

LEMMA WriteCopyFailsRecovery ==
    ASSUME NEW w \in Writers, IInv, RInv, WriteCopyFails(w)
    PROVE  RInv'
  BY MoveRecovery DEF WriteCopyFails, disk, Locked, OwnsWork, Finished, Copied,
     Bound

LEMMA LinkFailsRecovery ==
    ASSUME NEW w \in Writers, IInv, RInv, LinkFails(w)
    PROVE  RInv'
  BY MoveRecovery DEF LinkFails, disk, Locked, OwnsWork, Finished, Copied,
     Bound

LEMMA CreateBackupFailsRecovery ==
    ASSUME NEW w \in Writers, IInv, RInv, CreateBackupFails(w)
    PROVE  RInv'
  BY MoveRecovery DEF CreateBackupFails, disk, Locked, OwnsWork, Finished,
     Copied, Bound

LEMMA CopyBackupFailsRecovery ==
    ASSUME NEW w \in Writers, IInv, RInv, CopyBackupFails(w)
    PROVE  RInv'
  BY MoveRecovery DEF CopyBackupFails, disk, Locked, OwnsWork, Finished,
     Copied, Bound

LEMMA RenameDataFailsRecovery ==
    ASSUME NEW w \in Writers, IInv, RInv, RenameDataFails(w)
    PROVE  RInv'
  BY MoveRecovery DEF RenameDataFails, disk, Locked, OwnsWork, Finished,
     Copied, Bound

LEMMA CheckBindingRecovery ==
    ASSUME NEW w \in Writers, IInv, RInv, CheckBinding(w)
    PROVE  RInv'
<1>1. CASE Goto(w, "bound")
  BY <1>1, MoveRecovery DEF CheckBinding, disk, Locked, OwnsWork, Finished,
     Copied, Bound
<1>2. CASE Goto(w, "drop")
  BY <1>2, MoveRecovery DEF CheckBinding, disk, Locked, OwnsWork, Finished,
     Copied, Bound
<1>. QED
  BY <1>1, <1>2 DEF CheckBinding

LEMMA RequireLinkLeafRecovery ==
    ASSUME NEW w \in Writers, IInv, RInv, RequireLinkLeaf(w)
    PROVE  RInv'
<1>1. CASE Goto(w, "prepared")
  BY <1>1, MoveRecovery DEF RequireLinkLeaf, disk, Locked, OwnsWork, Finished,
     Bound, IInv, Shape, BeforeSpare
<1>2. CASE Goto(w, "drop")
  BY <1>2, MoveRecovery DEF RequireLinkLeaf, disk, Locked, OwnsWork, Finished,
     Copied, Bound
<1>. QED
  BY <1>1, <1>2 DEF RequireLinkLeaf

LEMMA FinalCheckRecovery ==
    ASSUME NEW w \in Writers, IInv, RInv, FinalCheck(w)
    PROVE  RInv'
<1>1. CASE Goto(w, "final")
  BY <1>1, MoveRecovery DEF FinalCheck, disk, Locked, OwnsWork, Finished,
     Copied, Bound
<1>2. CASE Goto(w, "dropBoth")
  BY <1>2, MoveRecovery DEF FinalCheck, disk, Locked, OwnsWork, Finished,
     Copied, Bound
<1>. QED
  BY <1>1, <1>2 DEF FinalCheck

LEMMA LockDataRecovery ==
    ASSUME NEW w \in Writers, IInv, RInv, LockData(w)
    PROVE  RInv'
<1>1. CASE Goto(w, "locked") /\ UNCHANGED <<orig, copy, spare, base, raced>>
  BY <1>1, MoveRecovery DEF LockData, disk, Locked, OwnsWork, Finished, Copied,
     Bound
<1>2. CASE CloseSession(w)
  BY <1>2, ClosingRecovery DEF LockData, disk
<1>. QED
  BY <1>1, <1>2 DEF LockData

LEMMA RequireBindingRecovery ==
    ASSUME NEW w \in Writers, IInv, RInv, RequireBinding(w)
    PROVE  RInv'
<1>1. CASE Goto(w, "session") /\ UNCHANGED <<orig, copy, spare, base, raced>>
  BY <1>1, MoveRecovery DEF RequireBinding, disk, Locked, OwnsWork, Finished,
     Copied, Bound
<1>2. CASE CloseSession(w)
  BY <1>2, ClosingRecovery DEF RequireBinding, disk
<1>. QED
  BY <1>1, <1>2 DEF RequireBinding

-----------------------------------------------------------------------------
(* RInv holds initially.                                                   *)
LEMMA InitRecovery == Init => RInv
<1>. SUFFICES ASSUME Init
              PROVE  RInv
  OBVIOUS
<1>1. /\ Dirs = {dir} /\ dir["data"] = 1
      /\ \A n \in Names \ {"data"} : dir[n] = 0
  BY DEF Init, Dirs, Names
<1>2. /\ last = 1 /\ acked = 0 /\ \A f \in File : body[f] \in {0, 1}
      /\ \A v \in Version : stem[v] = 0
  BY DEF Init
<1>3. body[1] = 1 /\ stem[1] = 0
  BY FileDbAssumption DEF Init, File, Version
<1>4. /\ \A w \in Writers : pc[w] = "idle"
      /\ \A u \in Users : user[u] = 0
  BY DEF Init
<1>5. Versions
  BY <1>2, FileDbAssumption DEF Versions, Version
<1>6. Unseen /\ Empty /\ Copies /\ Bindings /\ Ordered
  BY <1>4 DEF Unseen, Empty, Copies, Bindings, Ordered, OwnsWork, Finished,
     Copied, Bound, Publishers
<1>7. BackupsRetired /\ RecoveryRetired /\ RecoveryKept /\ AckedDurable
  BY <1>1, <1>2, <1>3 DEF BackupsRetired, RecoveryRetired, RecoveryKept,
     AckedDurable, Dirs, Names
<1>. QED
  BY <1>5, <1>6, <1>7 DEF RInv

(* Every step, and every stuttering one, keeps RInv.                       *)
LEMMA NextRecovery == IInv /\ RInv /\ [Next]_vars => RInv'
<1>. SUFFICES ASSUME IInv, RInv, [Next]_vars
              PROVE  RInv'
  OBVIOUS
<1>1. ASSUME NEW w \in Writers, OpenData(w) \/ Step(w) \/ Fault(w)
      PROVE  RInv'
  <2>1. CASE CreateWork(w)
    <3>1. CASE dir["data"] = orig[w] /\ dir["work"] = 0
      BY <2>1, <3>1, CreateWorkRecovery
    <3>2. CASE ~(dir["data"] = orig[w] /\ dir["work"] = 0)
      BY <2>1, <3>2, ClosingRecovery DEF CreateWork, disk
    <3>. QED
      BY <3>1, <3>2
  <2>2. CASE \/ OpenData(w) \/ LockData(w) \/ RequireBinding(w)
             \/ EndUnwritten(w) \/ WriteCopy(w) \/ WriteCopyFails(w)
             \/ CheckBinding(w) \/ Fault(w)
    BY <2>2, OpenDataRecovery, LockDataRecovery, RequireBindingRecovery,
       EndUnwrittenRecovery, WriteCopyRecovery, WriteCopyFailsRecovery,
       CheckBindingRecovery, RenameDataFailsRecovery,
       RenameBackupFailsRecovery, CrashRecovery DEF Fault
  <2>3. CASE \/ LinkBackup(w) \/ LinkFails(w) \/ RequireLinkLeaf(w)
             \/ CreateBackup(w) \/ CreateBackupFails(w)
             \/ CopyBackup(w) \/ CopyBackupFails(w) \/ FinalCheck(w)
    BY <2>3, LinkBackupRecovery, LinkFailsRecovery, RequireLinkLeafRecovery,
       CreateBackupRecovery, CreateBackupFailsRecovery, CopyBackupRecovery,
       CopyBackupFailsRecovery, FinalCheckRecovery
  <2>4. CASE \/ RenameData(w) \/ RenameBackup(w) \/ SyncAndReport(w)
             \/ UndoBackup(w) \/ DropWork(w) \/ DropWorkFirst(w)
             \/ DropBackup(w)
    BY <2>4, RenameDataRecovery, RenameBackupRecovery, SyncAndReportRecovery,
       UndoBackupRecovery, DropWorkRecovery, DropWorkFirstRecovery,
       DropBackupRecovery
  <2>. QED
    BY <1>1, <2>1, <2>2, <2>3, <2>4 DEF Step
<1>2. ASSUME NEW u \in Users, UserOpens(u) \/ UserEdits(u) \/ UserCloses(u)
      PROVE  RInv'
  BY <1>2, UserOpensRecovery, UserEditsRecovery, UserClosesRecovery
<1>3. CASE PowerCut \/ OperatorDeletesWork \/ OperatorSettlesBackup
           \/ ReplaceUnlocked
  BY <1>3, PowerCutRecovery, OperatorDeletesWorkRecovery,
     OperatorSettlesBackupRecovery, ReplaceUnlockedRecovery
<1>4. CASE UNCHANGED vars
  <2>1. UNCHANGED <<dir, past, files, body, last, stem, acked, pc, orig, copy,
                    spare, base, raced, user>>
    BY <1>4 DEF vars, disk, session
  <2>2. (Versions /\ Unseen /\ Empty /\ Copies /\ Bindings)'
    BY <2>1 DEF RInv, Versions, Unseen, Empty, Copies, Bindings, Replaced, Dirs
  <2>3. (BackupsRetired /\ RecoveryRetired /\ RecoveryKept)'
    BY <2>1 DEF RInv, BackupsRetired, RecoveryRetired, RecoveryKept, Replaced,
       Retired, Dirs
  <2>4. (Ordered /\ AckedDurable)'
    BY <2>1 DEF RInv, Ordered, AckedDurable
  <2>. QED
    BY <2>2, <2>3, <2>4 DEF RInv
<1>. QED
  BY <1>1, <1>2, <1>3, <1>4 DEF Next

(* Both invariants hold of every reachable state.                          *)
THEOREM RecoveryInvariance == Spec => []RInv
<1>1. Init => IInv /\ RInv
  BY InitIInv, InitRecovery
<1>2. (IInv /\ RInv) /\ [Next]_vars => (IInv /\ RInv)'
  BY NextIInv, NextRecovery
<1>. QED
  BY <1>1, <1>2, PTL DEF Spec

(* Whatever crashes, failed renames, power cuts and clean-ups by hand fall *)
(* around a publication, the version it replaced is still there, under the *)
(* name of the backup or of the recovery (lib.rs, publish_files).          *)
THEOREM RecoveryIsKept == Spec => []RecoveryKept
<1>1. RInv => RecoveryKept
  BY DEF RInv
<1>. QED
  BY <1>1, RecoveryInvariance, PTL

(* A write that was reported as published survives every later power cut   *)
(* (lib.rs: the directory is synced before the report).                    *)
THEOREM ReportsSurvive == Spec => []AckedDurable
<1>1. RInv => AckedDurable
  BY DEF RInv
<1>. QED
  BY <1>1, RecoveryInvariance, PTL

-----------------------------------------------------------------------------
(* What a write leaves behind, and the steps of InfobaseStore.             *)

(* Before the first fault, who owns `work` or a link holds the database.   *)
Undisturbed ==
    upsets = 0 =>
        \A w \in Writers :
            /\ pc[w] \in OwnsWork => dir["data"] = orig[w]
            /\ pc[w] = "linked" => dir["bakNew"] = orig[w]

(* Before the first fault, what lies beside the database belongs to someone. *)
OwnsLink == OwnsBackup \cup {"linked"}

Accounted ==
    upsets = 0 =>
        /\ dir["work"] # 0 => \E w \in Writers : pc[w] \in OwnsWork
        /\ dir["bakNew"] # 0 => \E w \in Writers : pc[w] \in OwnsLink

(* With no power cut and nobody around the lock, users have the database   *)
(* open, and the backup holds an older version than the database.          *)
Cooperative == ~PowerCuts /\ ~Unlocked

UsersAgree ==
    Cooperative =>
        raced = {} /\ \A u \in Users : user[u] # 0 => user[u] = dir["data"]

Replacing ==
    Cooperative =>
        \A w \in Writers : pc[w] = "published" => Replaced(dir) = base[w]

Older ==
    Cooperative /\ dir["bak"] # 0 =>
        dir["bak"] # dir["bakNew"] /\ body[dir["bak"]] < Db

SInv == Undisturbed /\ Accounted /\ UsersAgree /\ Replacing /\ Older

(* The database, and what it replaced, stay as they are.                   *)
Steady == Cooperative => Db' = Db /\ (stem[Db])' = stem[Db]

-----------------------------------------------------------------------------
(* A step that writes neither the database nor the backup leaves both.     *)
LEMMA SameFiles ==
    ASSUME IInv, RInv, SInv, NEW f, NEW version, Writes(f, version),
           f # dir["data"], f # dir["bak"],
           dir'["data"] = dir["data"], dir'["bak"] = dir["bak"],
           stem'[Db] = stem[Db],
           Cooperative /\ dir'["bak"] # 0 => dir'["bak"] # dir'["bakNew"],
           \A w \in Writers : pc'[w] = "published" =>
               pc[w] = "published" /\ base'[w] = base[w]
    PROVE  Replacing' /\ Older' /\ Steady
<1>1. dir["data"] \in File /\ (dir["bak"] # 0 => dir["bak"] \in File)
  BY NamedFiles, InFile DEF Dirs, Names
<1>2. Db' = Db /\ (dir["bak"] # 0 => body'[dir["bak"]] = body[dir["bak"]])
  BY <1>1 DEF Writes, Db
<1>3. Steady
  BY <1>2 DEF Steady
<1>4. Older'
  BY <1>2 DEF SInv, Older, Cooperative
<1>5. Replacing'
  BY <1>2 DEF SInv, Replacing, Replaced, Db, Cooperative
<1>. QED
  BY <1>3, <1>4, <1>5

(* A session that ends before it wrote.                                    *)
LEMMA ClosingStands ==
    ASSUME NEW w \in Writers, IInv, RInv, SInv, CloseSession(w),
           pc[w] \in {"opened", "locked", "session"},
           UNCHANGED <<dir, past, files, body, last, stem, acked, user,
                       upsets>>
    PROVE  SInv' /\ Steady
<1>. USE DEF IInv, RInv, SInv, Moves, Closes
<1>1. Closes(w) /\ raced' = raced \ {w}
  BY CloseSessionCloses DEF IInv, CloseSession
<1>2. Undisturbed'
  BY <1>1 DEF Undisturbed, OwnsWork
<1>3. Accounted'
  BY <1>1 DEF Accounted, OwnsWork, OwnsLink, OwnsBackup
<1>4. UsersAgree'
  BY <1>1 DEF UsersAgree, Cooperative
<1>5. Replacing'
  BY <1>1 DEF Replacing, Cooperative, Replaced
<1>6. Older'
  BY <1>1 DEF Older, Cooperative, Db
<1>7. Steady
  BY <1>1 DEF Steady, Cooperative, Db
<1>. QED
  BY <1>2, <1>3, <1>4, <1>5, <1>6, <1>7 DEF SInv

(* A session that moves on with the names it owns.                         *)
LEMMA MoveStands ==
    ASSUME NEW w \in Writers, NEW s \in Locked, IInv, RInv, SInv, Goto(w, s),
           UNCHANGED <<dir, past, files, body, last, stem, acked, orig, copy,
                       spare, base, raced, user, upsets>>,
           s \notin {"linked", "published"},
           s \in OwnsWork <=> pc[w] \in OwnsWork,
           pc[w] \in OwnsLink => s \in OwnsBackup \/ upsets # 0
    PROVE  SInv' /\ Steady
<1>. USE DEF IInv, RInv, SInv, Moves
<1>1. Moves(w, s)
  BY GotoMoves DEF IInv, Stage
<1>2. Undisturbed'
  BY <1>1 DEF Undisturbed, OwnsWork
<1>3. Accounted'
  BY <1>1 DEF Accounted, OwnsWork, OwnsLink, OwnsBackup
<1>4. UsersAgree'
  BY <1>1 DEF UsersAgree, Cooperative
<1>5. Replacing'
  BY <1>1 DEF Replacing, Cooperative, Replaced
<1>6. Older'
  BY <1>1 DEF Older, Cooperative, Db
<1>7. Steady
  BY <1>1 DEF Steady, Cooperative, Db
<1>. QED
  BY <1>2, <1>3, <1>4, <1>5, <1>6, <1>7 DEF SInv

(* A fault that leaves the disk alone.                                     *)
LEMMA UpsetStands ==
    ASSUME IInv, RInv, SInv, Upset, raced' \subseteq raced,
           UNCHANGED <<dir, past, files, body, last, stem, acked, user>>,
           \A w \in Writers : pc'[w] = "published" =>
               pc[w] = "published" /\ base'[w] = base[w]
    PROVE  SInv' /\ Steady
<1>. USE DEF IInv, RInv, SInv
<1>1. upsets' # 0
  BY DEF Upset, IInv, TypeOK
<1>2. Undisturbed'
  BY <1>1 DEF Undisturbed, OwnsWork
<1>3. Accounted'
  BY <1>1 DEF Accounted, OwnsWork, OwnsLink, OwnsBackup
<1>4. UsersAgree'
  BY <1>1 DEF UsersAgree, Cooperative
<1>5. Replacing'
  BY <1>1 DEF Replacing, Cooperative, Replaced
<1>6. Older'
  BY <1>1 DEF Older, Cooperative, Db
<1>7. Steady
  BY <1>1 DEF Steady, Cooperative, Db
<1>. QED
  BY <1>2, <1>3, <1>4, <1>5, <1>6, <1>7 DEF SInv

LEMMA OpenDataStands ==
    ASSUME NEW w \in Writers, IInv, RInv, SInv, OpenData(w)
    PROVE  SInv' /\ Steady
<1>. USE DEF IInv, RInv, SInv, OpenDataChanges, Moves, Closes, Binds, Writes,
        Begins
<1>1. OpenDataChanges(w)
  BY OpenDataEffect
<1>2. Undisturbed'
  BY <1>1 DEF Undisturbed, OwnsWork
<1>3. Accounted'
  BY <1>1 DEF Accounted, OwnsWork, OwnsLink, OwnsBackup
<1>4. UsersAgree'
  BY <1>1 DEF UsersAgree, Cooperative
<1>5. Replacing'
  BY <1>1 DEF Replacing, Cooperative, Replaced
<1>6. Older'
  BY <1>1 DEF Older, Cooperative, Db
<1>7. Steady
  BY <1>1 DEF Steady, Cooperative, Db
<1>. QED
  BY <1>2, <1>3, <1>4, <1>5, <1>6, <1>7 DEF SInv

LEMMA CreateWorkStands ==
    ASSUME NEW w \in Writers, IInv, RInv, SInv, CreateWork(w),
           dir["data"] = orig[w], dir["work"] = 0
    PROVE  SInv' /\ Steady
<1>. USE DEF IInv, RInv, SInv, CreateWorkChanges, Moves, Closes, Binds, Writes,
        Begins
<1>1. CreateWorkChanges(w)
  BY CreateWorkEffect
<1>2. Replacing' /\ Older' /\ Steady
  <2>1. files + 1 # dir["data"] /\ files + 1 # dir["bak"]
    BY NewNumber DEF Dirs, Names
  <2>. QED
    BY <1>1, <2>1, SameFiles DEF Older, Replacing, Names
<1>3. Undisturbed'
  BY <1>1 DEF Undisturbed, Names
<1>4. Accounted'
  BY <1>1 DEF Accounted, OwnsWork, OwnsLink, OwnsBackup, Names
<1>5. UsersAgree'
  BY <1>1 DEF UsersAgree, Names
<1>. QED
  BY <1>2, <1>3, <1>4, <1>5 DEF SInv

LEMMA WriteCopyStands ==
    ASSUME NEW w \in Writers, IInv, RInv, SInv, WriteCopy(w)
    PROVE  SInv' /\ Steady
<1>. USE DEF IInv, RInv, SInv, WriteCopyChanges, Moves, Closes, Binds, Writes,
        Begins
<1>1. WriteCopyChanges(w)
  BY WriteCopyEffect
<1>2. Replacing' /\ Older' /\ Steady
  <2>1. copy[w] # dir["data"] /\ copy[w] # dir["bak"]
    BY <1>1 DEF Unseen, OwnsWork, Dirs
  <2>2. stem'[Db] = stem[Db]
    BY <1>1, InFile, OldStem DEF Db, DataWhole, Dirs
  <2>. QED
    BY <1>1, <2>1, <2>2, SameFiles DEF Older, Replacing
<1>3. Undisturbed'
  BY <1>1, OneWork DEF Undisturbed, OwnsWork
<1>4. Accounted'
  BY <1>1, OneWork DEF Accounted, OwnsWork, OwnsLink, OwnsBackup
<1>5. UsersAgree'
  BY <1>1, OneWork DEF UsersAgree, Cooperative
<1>. QED
  BY <1>2, <1>3, <1>4, <1>5 DEF SInv

LEMMA LinkBackupStands ==
    ASSUME NEW w \in Writers, IInv, RInv, SInv, LinkBackup(w)
    PROVE  SInv' /\ Steady
<1>. USE DEF IInv, RInv, SInv, LinkBackupChanges, Moves, Closes, Binds, Writes,
        Begins
<1>1. LinkBackupChanges(w)
  BY LinkBackupEffect
<1>2. Undisturbed'
  BY <1>1 DEF Undisturbed, OwnsWork, Names
<1>3. Accounted'
  BY <1>1 DEF Accounted, OwnsWork, OwnsLink, OwnsBackup
<1>4. UsersAgree'
  BY <1>1 DEF UsersAgree, Names
<1>5. Replacing'
  BY <1>1 DEF Replacing, Replaced, Names
<1>6. Older'
  BY <1>1 DEF Older, Cooperative, Db, Names, Dirs, BackupsRetired
<1>7. Steady
  BY <1>1 DEF Steady, Db, Names
<1>. QED
  BY <1>2, <1>3, <1>4, <1>5, <1>6, <1>7 DEF SInv

LEMMA CreateBackupStands ==
    ASSUME NEW w \in Writers, IInv, RInv, SInv, CreateBackup(w)
    PROVE  SInv' /\ Steady
<1>. USE DEF IInv, RInv, SInv, CreateBackupChanges, Moves, Closes, Binds,
        Writes, Begins
<1>1. CreateBackupChanges(w)
  BY CreateBackupEffect
<1>2. Replacing' /\ Older' /\ Steady
  <2>1. files + 1 # dir["data"] /\ files + 1 # dir["bak"]
    BY NewNumber DEF Dirs, Names
  <2>. QED
    BY <1>1, <2>1, SameFiles DEF Older, Replacing, Names
<1>3. Undisturbed'
  BY <1>1 DEF Undisturbed, OwnsWork, Names, Shape
<1>4. Accounted'
  BY <1>1, OneBackup DEF Accounted, OwnsWork, OwnsLink, OwnsBackup
<1>5. UsersAgree'
  BY <1>1 DEF UsersAgree, Names
<1>. QED
  BY <1>2, <1>3, <1>4, <1>5 DEF SInv

LEMMA CopyBackupStands ==
    ASSUME NEW w \in Writers, IInv, RInv, SInv, CopyBackup(w)
    PROVE  SInv' /\ Steady
<1>. USE DEF IInv, RInv, SInv, CopyBackupChanges, Moves, Closes, Binds, Writes,
        Begins
<1>1. CopyBackupChanges(w)
  BY CopyBackupEffect
<1>2. Replacing' /\ Older' /\ Steady
  <2>1. spare[w] # dir["data"] /\ spare[w] = dir["bakNew"]
    BY <1>1 DEF Unpublished, NeverData, Dirs, BackupOwned, BackupFile,
                OwnsBackup
  <2>2. CASE ~Cooperative
    BY <2>2, <1>1 DEF Replacing, Older, Steady, Cooperative
  <2>3. CASE Cooperative
    <3>1. spare[w] # dir["bak"]
      BY <1>1, <2>1, <2>3 DEF Older
    <3>. QED
      BY <1>1, <2>1, <2>3, <3>1, SameFiles DEF Older, Replacing
  <2>. QED
    BY <2>2, <2>3
<1>3. Undisturbed'
  BY <1>1 DEF Undisturbed, OwnsWork
<1>4. Accounted'
  BY <1>1 DEF Accounted, OwnsWork, OwnsLink, OwnsBackup
<1>5. UsersAgree'
  BY <1>1 DEF UsersAgree, Cooperative
<1>. QED
  BY <1>2, <1>3, <1>4, <1>5 DEF SInv

LEMMA RenameDataStands ==
    ASSUME NEW w \in Writers, IInv, RInv, SInv, RenameData(w)
    PROVE  SInv'
<1>. USE DEF IInv, RInv, SInv, RenameDataChanges, Moves, Closes, Binds, Writes,
        Begins
<1>1. RenameDataChanges(w)
  BY RenameDataEffect
<1>2. /\ dir["work"] = copy[w] /\ body[copy[w]] \in Version
      /\ stem[body[copy[w]]] = base[w] /\ body[orig[w]] = base[w]
  BY <1>1, InFile, Numbers DEF WorkOwned, OwnsWork, Copies, Finished, Complete,
     Shape, Current, Writing
<1>3. Cooperative => dir["data"] = orig[w]
  BY <1>1 DEF UsersAgree, Current
<1>4. Undisturbed'
  BY <1>1, OneWork, OneBackup DEF Undisturbed, OwnsWork
<1>5. Accounted'
  BY <1>1, OneWork, OneBackup DEF Accounted, OwnsWork, OwnsLink, OwnsBackup
<1>6. UsersAgree'
  <2>1. Cooperative => \A u \in Users : user[u] = 0
    BY <1>1, <1>3 DEF UsersAgree, Excluded, Locked
  <2>. QED
    BY <1>1, <2>1 DEF UsersAgree, Cooperative
<1>7. Replacing'
  <2>1. \A v \in Writers : pc'[v] = "published" => v = w
    BY <1>1, OneBackup DEF OwnsBackup
  <2>. QED
    BY <1>1, <1>2, <2>1 DEF Replacing, Replaced
<1>8. Older'
  <2>1. base[w] \in Nat /\ base[w] < body[copy[w]] /\ body[copy[w]] \in Nat
    BY <1>2, Numbers, FileDbAssumption DEF Version
  <2>2. Db' = body[copy[w]] /\ (Cooperative => Db = base[w])
    BY <1>1, <1>2, <1>3 DEF Db
  <2>3. dir["bak"] # 0 => body[dir["bak"]] \in Nat
    BY NamedFiles, Numbers DEF Dirs, Names
  <2>. QED
    BY <1>1, <2>1, <2>2, <2>3 DEF Older, Cooperative
<1>. QED
  BY <1>4, <1>5, <1>6, <1>7, <1>8 DEF SInv

LEMMA RenameBackupStands ==
    ASSUME NEW w \in Writers, IInv, RInv, SInv, RenameBackup(w)
    PROVE  SInv' /\ Steady
<1>. USE DEF IInv, RInv, SInv, RenameBackupChanges, Moves, Closes, Binds,
        Writes, Begins
<1>1. RenameBackupChanges(w)
  BY RenameBackupEffect
<1>2. Undisturbed'
  BY <1>1 DEF Undisturbed, OwnsWork, OwnsBackup, Locked, Excluded, BackupOwned,
     BackupFile, Unpublished, NeverData
<1>3. Accounted'
  BY <1>1, OneBackup DEF Accounted, OwnsWork, OwnsLink, OwnsBackup
<1>4. UsersAgree'
  BY <1>1, OneBackup DEF UsersAgree, Cooperative
<1>5. Replacing'
  BY <1>1, OneBackup DEF Replacing, Cooperative, Replaced
<1>6. Older'
  <2>1. body[BackupFile(w)] = base[w] /\ dir["bakNew"] = BackupFile(w)
    BY <1>1 DEF BackupOwned, OwnsBackup, BackupFile, Copies, Copied, Current,
       Writing
  <2>2. Replaced(dir) < Db
    BY Numbers DEF Replaced, Db, Dirs
  <2>. QED
    BY <1>1, <2>1, <2>2 DEF Older, Replacing, Cooperative, Db
<1>7. Steady
  BY <1>1, OneBackup DEF Steady, Cooperative, Db
<1>. QED
  BY <1>2, <1>3, <1>4, <1>5, <1>6, <1>7 DEF SInv

LEMMA SyncAndReportStands ==
    ASSUME NEW w \in Writers, IInv, RInv, SInv, SyncAndReport(w)
    PROVE  SInv' /\ Steady
<1>. USE DEF IInv, RInv, SInv, SyncAndReportChanges, Moves, Closes, Binds,
        Writes, Begins
<1>1. SyncAndReportChanges(w)
  BY SyncAndReportEffect
<1>2. Undisturbed'
  BY <1>1, OneWork, OneBackup DEF Undisturbed, OwnsWork
<1>3. Accounted'
  BY <1>1, OneWork, OneBackup DEF Accounted, OwnsWork, OwnsLink, OwnsBackup
<1>4. UsersAgree'
  <2>1. raced' = raced \ {w}
    BY DEF SyncAndReport, CloseSession
  <2>. QED
    BY <1>1, <2>1 DEF UsersAgree, Cooperative, Names
<1>5. Replacing'
  BY <1>1, OneWork, OneBackup DEF Replacing, Cooperative, Replaced
<1>6. Older'
  BY <1>1, OneWork, OneBackup DEF Older, Cooperative, Db
<1>7. Steady
  BY <1>1, OneWork, OneBackup DEF Steady, Cooperative, Db
<1>. QED
  BY <1>2, <1>3, <1>4, <1>5, <1>6, <1>7 DEF SInv

LEMMA UndoBackupStands ==
    ASSUME NEW w \in Writers, IInv, RInv, SInv, UndoBackup(w)
    PROVE  SInv' /\ Steady
<1>. USE DEF IInv, RInv, SInv, UndoBackupChanges, Moves, Closes, Binds, Writes,
        Begins
<1>1. UndoBackupChanges(w)
  BY UndoBackupEffect
<1>2. Undisturbed'
  BY <1>1 DEF Undisturbed, OwnsWork, Names, Locked, Excluded
<1>3. Accounted'
  BY <1>1, OneBackup DEF Accounted, OwnsWork, OwnsLink, OwnsBackup
<1>4. UsersAgree'
  BY <1>1 DEF UsersAgree, Names
<1>5. Replacing'
  BY <1>1 DEF Replacing, Replaced, Names
<1>6. Older'
  BY <1>1 DEF Older, Db, Names
<1>7. Steady
  BY <1>1 DEF Steady, Db, Names
<1>. QED
  BY <1>2, <1>3, <1>4, <1>5, <1>6, <1>7 DEF SInv

LEMMA DropWorkStands ==
    ASSUME NEW w \in Writers, IInv, RInv, SInv, DropWork(w)
    PROVE  SInv' /\ Steady
<1>. USE DEF IInv, RInv, SInv, DropWorkChanges, Moves, Closes, Binds, Writes,
        Begins
<1>1. DropWorkChanges(w)
  BY DropWorkEffect
<1>2. Undisturbed'
  BY <1>1, OneWork DEF Undisturbed, OwnsWork
<1>3. Accounted'
  BY <1>1 DEF Accounted, OwnsLink, OwnsBackup, Names
<1>4. UsersAgree'
  <2>1. raced' = raced \ {w}
    BY DEF DropWork, CloseSession
  <2>. QED
    BY <1>1, <2>1 DEF UsersAgree, Cooperative, Names
<1>5. Replacing'
  BY <1>1 DEF Replacing, Replaced, Names
<1>6. Older'
  BY <1>1 DEF Older, Db, Names
<1>7. Steady
  BY <1>1 DEF Steady, Db, Names
<1>. QED
  BY <1>2, <1>3, <1>4, <1>5, <1>6, <1>7 DEF SInv

LEMMA DropWorkFirstStands ==
    ASSUME NEW w \in Writers, IInv, RInv, SInv, DropWorkFirst(w)
    PROVE  SInv' /\ Steady
<1>. USE DEF IInv, RInv, SInv, DropWorkFirstChanges, Moves, Closes, Binds,
        Writes, Begins
<1>1. DropWorkFirstChanges(w)
  BY DropWorkFirstEffect
<1>2. Undisturbed'
  BY <1>1, OneWork DEF Undisturbed, OwnsWork
<1>3. Accounted'
  BY <1>1, OneWork DEF Accounted, OwnsWork, OwnsLink, OwnsBackup
<1>4. UsersAgree'
  BY <1>1 DEF UsersAgree, Names
<1>5. Replacing'
  BY <1>1 DEF Replacing, Replaced, Names
<1>6. Older'
  BY <1>1 DEF Older, Db, Names
<1>7. Steady
  BY <1>1 DEF Steady, Db, Names
<1>. QED
  BY <1>2, <1>3, <1>4, <1>5, <1>6, <1>7 DEF SInv

LEMMA DropBackupStands ==
    ASSUME NEW w \in Writers, IInv, RInv, SInv, DropBackup(w)
    PROVE  SInv' /\ Steady
<1>. USE DEF IInv, RInv, SInv, DropBackupChanges, Moves, Closes, Binds, Writes,
        Begins
<1>1. DropBackupChanges(w)
  BY DropBackupEffect
<1>2. Undisturbed'
  BY <1>1 DEF Undisturbed, OwnsWork, Names, OwnsBackup, Locked, Excluded,
     BackupOwned, BackupFile, Unpublished, NeverData
<1>3. Accounted'
  BY <1>1 DEF Accounted, OwnsWork, Names
<1>4. UsersAgree'
  <2>1. raced' = raced \ {w}
    BY DEF DropBackup, CloseSession
  <2>. QED
    BY <1>1, <2>1 DEF UsersAgree, Cooperative, Names
<1>5. Replacing'
  BY <1>1 DEF Replacing, Replaced, Names
<1>6. Older'
  BY <1>1 DEF Older, Db, Names
<1>7. Steady
  BY <1>1 DEF Steady, Db, Names
<1>. QED
  BY <1>2, <1>3, <1>4, <1>5, <1>6, <1>7 DEF SInv

LEMMA PowerCutStands ==
    ASSUME IInv, RInv, SInv, PowerCut
    PROVE  SInv' /\ Steady
<1>. USE DEF IInv, RInv, SInv, PowerCutChanges, Moves, Closes, Binds, Writes,
        Begins
<1>1. PowerCutChanges /\ PowerCuts /\ upsets' # 0
  BY PowerCutEffect DEF PowerCut, Upset, IInv, TypeOK
<1>2. Undisturbed'
  BY <1>1 DEF Undisturbed, OwnsWork
<1>3. Accounted'
  BY <1>1 DEF Accounted, OwnsWork, OwnsLink, OwnsBackup
<1>4. UsersAgree'
  BY <1>1 DEF UsersAgree, Cooperative
<1>5. Replacing'
  BY <1>1 DEF Replacing, Cooperative, Replaced
<1>6. Older'
  BY <1>1 DEF Older, Cooperative, Db
<1>7. Steady
  BY <1>1 DEF Steady, Cooperative, Db
<1>. QED
  BY <1>2, <1>3, <1>4, <1>5, <1>6, <1>7 DEF SInv

LEMMA OperatorDeletesWorkStands ==
    ASSUME IInv, RInv, SInv, OperatorDeletesWork
    PROVE  SInv' /\ Steady
<1>. USE DEF IInv, RInv, SInv, OperatorDeletesWorkChanges, Moves, Closes,
        Binds, Writes, Begins
<1>1. OperatorDeletesWorkChanges
  BY OperatorDeletesWorkEffect
<1>2. Undisturbed'
  BY <1>1 DEF Undisturbed, OwnsWork
<1>3. Accounted'
  BY <1>1 DEF Accounted, Names
<1>4. UsersAgree'
  BY <1>1 DEF UsersAgree, Names
<1>5. Replacing'
  BY <1>1 DEF Replacing, Cooperative, Replaced
<1>6. Older'
  BY <1>1 DEF Older, Db, Names
<1>7. Steady
  BY <1>1 DEF Steady, Db, Names
<1>. QED
  BY <1>2, <1>3, <1>4, <1>5, <1>6, <1>7 DEF SInv

LEMMA OperatorSettlesBackupStands ==
    ASSUME IInv, RInv, SInv, OperatorSettlesBackup
    PROVE  SInv' /\ Steady
<1>. USE DEF IInv, RInv, SInv, OperatorSettlesBackupChanges, Moves, Closes,
        Binds, Writes, Begins
<1>1. OperatorSettlesBackupChanges
  BY OperatorSettlesBackupEffect
<1>2. Undisturbed'
  BY <1>1 DEF Undisturbed, OwnsWork
<1>3. Accounted'
  BY <1>1 DEF Accounted, OwnsWork, OwnsLink, OwnsBackup
<1>4. UsersAgree'
  BY <1>1 DEF UsersAgree, Cooperative
<1>5. Replacing'
  BY <1>1 DEF Replacing, Cooperative, Replaced
<1>6. Older'
  <2>1. stem[Db] < Db
    BY Numbers DEF Db, Dirs
  <2>. QED
    BY <1>1, <2>1 DEF Older, Cooperative, Db
<1>7. Steady
  BY <1>1 DEF Steady, Cooperative, Db
<1>. QED
  BY <1>2, <1>3, <1>4, <1>5, <1>6, <1>7 DEF SInv

LEMMA ReplaceUnlockedStands ==
    ASSUME IInv, RInv, SInv, ReplaceUnlocked
    PROVE  SInv' /\ Steady
<1>. USE DEF IInv, RInv, SInv, ReplaceUnlockedChanges, Moves, Closes, Binds,
        Writes, Begins
<1>1. ReplaceUnlockedChanges /\ Unlocked /\ upsets' # 0
  BY ReplaceUnlockedEffect DEF ReplaceUnlocked, Upset, IInv, TypeOK
<1>2. Undisturbed'
  BY <1>1 DEF Undisturbed, OwnsWork
<1>3. Accounted'
  BY <1>1 DEF Accounted, OwnsWork, OwnsLink, OwnsBackup
<1>4. UsersAgree'
  BY <1>1 DEF UsersAgree, Cooperative
<1>5. Replacing'
  BY <1>1 DEF Replacing, Cooperative, Replaced
<1>6. Older'
  BY <1>1 DEF Older, Cooperative, Db
<1>7. Steady
  BY <1>1 DEF Steady, Cooperative, Db
<1>. QED
  BY <1>2, <1>3, <1>4, <1>5, <1>6, <1>7 DEF SInv

LEMMA UserOpensStands ==
    ASSUME NEW u \in Users, IInv, RInv, SInv, UserOpens(u)
    PROVE  SInv' /\ Steady
<1>. USE DEF IInv, RInv, SInv, UserOpensChanges, Moves, Closes, Binds, Writes,
        Begins
<1>1. UserOpensChanges(u)
  BY UserOpensEffect
<1>2. Undisturbed'
  BY <1>1 DEF Undisturbed, OwnsWork
<1>3. Accounted'
  BY <1>1 DEF Accounted, OwnsWork, OwnsLink, OwnsBackup
<1>4. UsersAgree'
  BY <1>1 DEF UsersAgree, Cooperative
<1>5. Replacing'
  BY <1>1 DEF Replacing, Cooperative, Replaced
<1>6. Older'
  BY <1>1 DEF Older, Cooperative, Db
<1>7. Steady
  BY <1>1 DEF Steady, Cooperative, Db
<1>. QED
  BY <1>2, <1>3, <1>4, <1>5, <1>6, <1>7 DEF SInv

LEMMA UserEditsStands ==
    ASSUME NEW u \in Users, IInv, RInv, SInv, UserEdits(u)
    PROVE  SInv'
<1>. USE DEF IInv, RInv, SInv, UserEditsChanges, Moves, Closes, Binds, Writes,
        Begins
<1>1. UserEditsChanges(u)
  BY UserEditsEffect
<1>2. Cooperative =>
          user[u] = dir["data"] /\ Db' = last + 1 /\ stem'[last + 1] = stem[Db]
  BY <1>1 DEF UsersAgree, Db
<1>3. Undisturbed'
  BY <1>1 DEF Undisturbed, OwnsWork
<1>4. Accounted'
  BY <1>1 DEF Accounted, OwnsWork, OwnsLink, OwnsBackup
<1>5. UsersAgree'
  BY <1>1 DEF UsersAgree, Cooperative
<1>6. Replacing'
  BY <1>1, <1>2 DEF Replacing, Replaced, Cooperative, Db
<1>7. Older'
  <2>1. dir["bak"] # 0 =>
            /\ dir["bak"] \in File /\ dir["bak"] # user[u]
            /\ body[dir["bak"]] \in Nat /\ body[dir["bak"]] <= last
    BY NamedFiles, Numbers DEF Dirs, Names, BackupsRetired, Retired
  <2>2. last \in Nat
    BY Numbers
  <2>. QED
    BY <1>1, <1>2, <2>1, <2>2 DEF Older, Cooperative
<1>. QED
  BY <1>3, <1>4, <1>5, <1>6, <1>7 DEF SInv

LEMMA UserClosesStands ==
    ASSUME NEW u \in Users, IInv, RInv, SInv, UserCloses(u)
    PROVE  SInv' /\ Steady
<1>. USE DEF IInv, RInv, SInv, UserClosesChanges, Moves, Closes, Binds, Writes,
        Begins
<1>1. UserClosesChanges(u)
  BY UserClosesEffect
<1>2. Undisturbed'
  BY <1>1 DEF Undisturbed, OwnsWork
<1>3. Accounted'
  BY <1>1 DEF Accounted, OwnsWork, OwnsLink, OwnsBackup
<1>4. UsersAgree'
  BY <1>1 DEF UsersAgree, Cooperative
<1>5. Replacing'
  BY <1>1 DEF Replacing, Cooperative, Replaced
<1>6. Older'
  BY <1>1 DEF Older, Cooperative, Db
<1>7. Steady
  BY <1>1 DEF Steady, Cooperative, Db
<1>. QED
  BY <1>2, <1>3, <1>4, <1>5, <1>6, <1>7 DEF SInv

LEMMA LockDataStands ==
    ASSUME NEW w \in Writers, IInv, RInv, SInv, LockData(w)
    PROVE  SInv' /\ Steady
<1>1. CASE Goto(w, "locked") /\ UNCHANGED <<orig, copy, spare, base, raced>>
  BY <1>1, MoveStands DEF LockData, disk, Locked, OwnsWork, OwnsLink,
     OwnsBackup
<1>2. CASE CloseSession(w)
  BY <1>2, ClosingStands DEF LockData, disk
<1>. QED
  BY <1>1, <1>2 DEF LockData

LEMMA RequireBindingStands ==
    ASSUME NEW w \in Writers, IInv, RInv, SInv, RequireBinding(w)
    PROVE  SInv' /\ Steady
<1>1. CASE Goto(w, "session") /\ UNCHANGED <<orig, copy, spare, base, raced>>
  BY <1>1, MoveStands DEF RequireBinding, disk, Locked, OwnsWork, OwnsLink,
     OwnsBackup
<1>2. CASE CloseSession(w)
  BY <1>2, ClosingStands DEF RequireBinding, disk
<1>. QED
  BY <1>1, <1>2 DEF RequireBinding

LEMMA EndUnwrittenStands ==
    ASSUME NEW w \in Writers, IInv, RInv, SInv, EndUnwritten(w)
    PROVE  SInv' /\ Steady
  BY ClosingStands DEF EndUnwritten, disk

LEMMA WriteCopyFailsStands ==
    ASSUME NEW w \in Writers, IInv, RInv, SInv, WriteCopyFails(w)
    PROVE  SInv' /\ Steady
  BY MoveStands DEF WriteCopyFails, disk, Locked, OwnsWork, OwnsLink,
     OwnsBackup

LEMMA CheckBindingStands ==
    ASSUME NEW w \in Writers, IInv, RInv, SInv, CheckBinding(w)
    PROVE  SInv' /\ Steady
<1>1. CASE Goto(w, "bound")
  BY <1>1, MoveStands DEF CheckBinding, disk, Locked, OwnsWork, OwnsLink,
     OwnsBackup
<1>2. CASE Goto(w, "drop")
  BY <1>2, MoveStands DEF CheckBinding, disk, Locked, OwnsWork, OwnsLink,
     OwnsBackup
<1>. QED
  BY <1>1, <1>2 DEF CheckBinding

LEMMA LinkFailsStands ==
    ASSUME NEW w \in Writers, IInv, RInv, SInv, LinkFails(w)
    PROVE  SInv' /\ Steady
  BY MoveStands DEF LinkFails, disk, Locked, OwnsWork, OwnsLink, OwnsBackup

(* Before the first fault the link is of the locked file.                  *)
LEMMA RequireLinkLeafStands ==
    ASSUME NEW w \in Writers, IInv, RInv, SInv, RequireLinkLeaf(w)
    PROVE  SInv' /\ Steady
<1>1. CASE dir["bakNew"] = orig[w]
  BY <1>1, MoveStands DEF RequireLinkLeaf, disk, Locked, OwnsWork, OwnsBackup
<1>2. CASE dir["bakNew"] # orig[w]
  <2>1. upsets # 0
    BY <1>2 DEF RequireLinkLeaf, SInv, Undisturbed
  <2>. QED
    BY <1>2, <2>1, MoveStands DEF RequireLinkLeaf, disk, Locked, OwnsWork
<1>. QED
  BY <1>1, <1>2

LEMMA CreateBackupFailsStands ==
    ASSUME NEW w \in Writers, IInv, RInv, SInv, CreateBackupFails(w)
    PROVE  SInv' /\ Steady
  BY MoveStands DEF CreateBackupFails, disk, Locked, OwnsWork, OwnsLink,
     OwnsBackup

LEMMA CopyBackupFailsStands ==
    ASSUME NEW w \in Writers, IInv, RInv, SInv, CopyBackupFails(w)
    PROVE  SInv' /\ Steady
  BY MoveStands DEF CopyBackupFails, disk, Locked, OwnsWork, OwnsBackup

LEMMA FinalCheckStands ==
    ASSUME NEW w \in Writers, IInv, RInv, SInv, FinalCheck(w)
    PROVE  SInv' /\ Steady
<1>1. CASE Goto(w, "final")
  BY <1>1, MoveStands DEF FinalCheck, disk, Locked, OwnsWork, OwnsBackup
<1>2. CASE Goto(w, "dropBoth")
  BY <1>2, MoveStands DEF FinalCheck, disk, Locked, OwnsWork, OwnsBackup
<1>. QED
  BY <1>1, <1>2 DEF FinalCheck

LEMMA FaultStands ==
    ASSUME NEW w \in Writers, IInv, RInv, SInv, Fault(w)
    PROVE  SInv' /\ Steady
<1>1. CASE RenameDataFails(w)
  <2>1. Moves(w, "dropBoth")
    BY <1>1, GotoMoves DEF RenameDataFails, IInv, Stage, Locked
  <2>. QED
    BY <1>1, <2>1, UpsetStands DEF RenameDataFails, disk, Moves
<1>2. ASSUME CloseSession(w), Upset,
             UNCHANGED <<dir, past, files, body, last, stem, acked, user>>
      PROVE  SInv' /\ Steady
  <2>1. Closes(w)
    BY <1>2, CloseSessionCloses DEF IInv
  <2>. QED
    BY <1>2, <2>1, UpsetStands DEF CloseSession, Closes, Moves
<1>. QED
  BY <1>1, <1>2 DEF Fault, RenameBackupFails, Crash, disk

-----------------------------------------------------------------------------
(* A closed infobase with one version satisfies SInv.                      *)
LEMMA InitStands == Init => SInv
<1>. SUFFICES ASSUME Init
              PROVE  SInv
  OBVIOUS
<1>1. /\ \A n \in Names \ {"data"} : dir[n] = 0
      /\ \A w \in Writers : pc[w] = "idle"
      /\ \A u \in Users : user[u] = 0
      /\ raced = {}
  BY DEF Init, Names
<1>. QED
  BY <1>1 DEF SInv, Undisturbed, Accounted, UsersAgree, Replacing, Older,
     OwnsWork, Names

(* A step publishes, or edits the database, or leaves it as it is.         *)
LEMMA NextStands ==
    ASSUME IInv, RInv, SInv, [Next]_vars
    PROVE  /\ SInv'
           /\ \/ \E w \in Writers : RenameData(w)
              \/ \E u \in Users : UserEdits(u)
              \/ Steady
<1>1. ASSUME NEW w \in Writers, OpenData(w) \/ Step(w) \/ Fault(w)
      PROVE  SInv' /\ (RenameData(w) \/ Steady)
  <2>1. CASE CreateWork(w)
    <3>1. CASE dir["data"] = orig[w] /\ dir["work"] = 0
      BY <2>1, <3>1, CreateWorkStands
    <3>2. CASE ~(dir["data"] = orig[w] /\ dir["work"] = 0)
      BY <2>1, <3>2, ClosingStands DEF CreateWork, disk
    <3>. QED
      BY <3>1, <3>2
  <2>2. CASE \/ OpenData(w) \/ LockData(w) \/ RequireBinding(w)
             \/ EndUnwritten(w) \/ WriteCopy(w) \/ WriteCopyFails(w)
             \/ CheckBinding(w) \/ Fault(w)
    BY <2>2, OpenDataStands, LockDataStands, RequireBindingStands,
       EndUnwrittenStands, WriteCopyStands, WriteCopyFailsStands,
       CheckBindingStands, FaultStands
  <2>3. CASE \/ LinkBackup(w) \/ LinkFails(w) \/ RequireLinkLeaf(w)
             \/ CreateBackup(w) \/ CreateBackupFails(w)
             \/ CopyBackup(w) \/ CopyBackupFails(w) \/ FinalCheck(w)
    BY <2>3, LinkBackupStands, LinkFailsStands, RequireLinkLeafStands,
       CreateBackupStands, CreateBackupFailsStands, CopyBackupStands,
       CopyBackupFailsStands, FinalCheckStands
  <2>4. CASE \/ RenameData(w) \/ RenameBackup(w) \/ SyncAndReport(w)
             \/ UndoBackup(w) \/ DropWork(w) \/ DropWorkFirst(w)
             \/ DropBackup(w)
    BY <2>4, RenameDataStands, RenameBackupStands, SyncAndReportStands,
       UndoBackupStands, DropWorkStands, DropWorkFirstStands, DropBackupStands
  <2>. QED
    BY <1>1, <2>1, <2>2, <2>3, <2>4 DEF Step
<1>2. ASSUME NEW u \in Users, UserOpens(u) \/ UserEdits(u) \/ UserCloses(u)
      PROVE  SInv' /\ (UserEdits(u) \/ Steady)
  BY <1>2, UserOpensStands, UserEditsStands, UserClosesStands
<1>3. CASE PowerCut \/ OperatorDeletesWork \/ OperatorSettlesBackup
           \/ ReplaceUnlocked
  BY <1>3, PowerCutStands, OperatorDeletesWorkStands,
     OperatorSettlesBackupStands, ReplaceUnlockedStands
<1>4. CASE UNCHANGED vars
  <2>1. UNCHANGED <<dir, body, stem, pc, orig, base, raced, user, upsets>>
    BY <1>4 DEF vars, disk, session
  <2>2. (Undisturbed /\ Accounted /\ UsersAgree)'
    BY <2>1 DEF SInv, Undisturbed, Accounted, UsersAgree, Cooperative
  <2>3. (Replacing /\ Older)' /\ Steady
    BY <2>1 DEF SInv, Replacing, Older, Steady, Replaced, Db
  <2>. QED
    BY <2>2, <2>3 DEF SInv
<1>. QED
  BY <1>1, <1>2, <1>3, <1>4 DEF Next

THEOREM StoreInvariance == Spec => [](IInv /\ RInv /\ SInv)
<1>1. Init => IInv /\ RInv /\ SInv
  BY InitIInv, InitRecovery, InitStands
<1>2. (IInv /\ RInv /\ SInv) /\ [Next]_vars => (IInv /\ RInv /\ SInv)'
  BY NextIInv, NextRecovery, NextStands
<1>. QED
  BY <1>1, <1>2, PTL DEF Spec

(* Before the first fault, sessions that ended left no file behind that    *)
(* would make a later write refuse (lib.rs, write_clone, publish_files).   *)
THEOREM NothingIsLeft == Spec => []NothingLeft
<1>1. IInv /\ SInv => NothingLeft
  BY DEF SInv, Accounted, NothingLeft, Quiet, OwnsWork, OwnsLink, OwnsBackup
<1>. QED
  BY <1>1, StoreInvariance, PTL

-----------------------------------------------------------------------------
(* What is kept, element by element.                                       *)
LEMMA KeptVersions ==
    /\ \A v : v \in Kept <=>
           v # 0 /\ \E n \in {"bak", "bakNew"} : dir[n] # 0 /\ body[dir[n]] = v
    /\ \A v : v \in Kept' <=>
           v # 0 /\ \E n \in {"bak", "bakNew"} :
                        dir'[n] # 0 /\ body'[dir'[n]] = v
  BY DEF Kept

(* The rename of the work copy is the import.                              *)
LEMMA RenameDataImports ==
    ASSUME Cooperative, IInv, RInv, SInv, NEW w \in Writers, RenameData(w)
    PROVE  Store!Import
<1>1. RenameDataChanges(w)
  BY RenameDataEffect
<1>. USE <1>1 DEF RenameDataChanges, IInv, RInv, SInv
<1>2. /\ dir["work"] = copy[w] /\ body[copy[w]] \in Version
      /\ stem[body[copy[w]]] = base[w] /\ body[orig[w]] = base[w]
  BY InFile, Numbers DEF WorkOwned, OwnsWork, Copies, Finished, Complete,
     Shape, Current, Writing
<1>3. dir["data"] = orig[w]
  BY DEF UsersAgree, Current
<1>4. Db = base[w] /\ Db' = body[copy[w]]
  BY <1>2, <1>3 DEF Db
<1>5. Db' \in Version \ {Db}
  BY <1>2, <1>4, Numbers, FileDbAssumption DEF Version
<1>6. (stem[Db])' = Db
  BY <1>2, <1>4
<1>7. Db \in Kept
  <2>1. dir["bakNew"] = BackupFile(w) /\ body[BackupFile(w)] = base[w]
    BY <1>2 DEF BackupOwned, OwnsBackup, BackupFile, Copies, Copied
  <2>2. BackupFile(w) # 0 /\ Db # 0
    BY DEF BackupFile, Shape, Db, DataWhole
  <2>. QED
    BY <1>4, <2>1, <2>2, KeptVersions
<1>8. Kept' = Kept
  BY DEF Kept
<1>. QED
  BY <1>5, <1>6, <1>7, <1>8 DEF Store!Import

(* The platform edits the database it has open, and a recovery link to it. *)
LEMMA UserEditsEdits ==
    ASSUME Cooperative, IInv, RInv, SInv, NEW u \in Users, UserEdits(u)
    PROVE  Store!Edit
<1>1. UserEditsChanges(u)
  BY UserEditsEffect
<1>. USE <1>1 DEF UserEditsChanges, Writes, Begins, IInv, RInv, SInv
<1>2. user[u] = dir["data"] /\ Db' = last + 1 /\ Db \in Version /\ Db <= last
  BY InFile, Numbers DEF UsersAgree, Db, Dirs
<1>3. Db' \in Version \ {Db}
  BY <1>2, Numbers, FileDbAssumption DEF Version
<1>4. (stem[Db])' = stem[Db]
  BY <1>2 DEF Db
<1>5. dir["bak"] # 0 =>
          body'[dir["bak"]] = body[dir["bak"]] /\ body[dir["bak"]] # Db
  <2>1. dir["bak"] # 0 => dir["bak"] # user[u] /\ dir["bak"] \in File
    BY NamedFiles DEF BackupsRetired, Retired, Dirs, Names
  <2>2. dir["bak"] # 0 => body[dir["bak"]] \in Nat /\ Db \in Nat
    BY <1>2, <2>1, Numbers, FileDbAssumption DEF Version
  <2>. QED
    BY <2>1, <2>2 DEF Older
<1>6. Kept' \in {Kept, (Kept \ {Db}) \cup {Db'}}
  <2>1. CASE dir["bakNew"] = dir["data"]
    <3>1. dir["bakNew"] # 0 /\ body[dir["bakNew"]] = Db
      BY <2>1 DEF DataWhole, Db
    <3>2. body'[dir'["bakNew"]] = Db'
      BY <2>1 DEF Db
    <3>3. Kept' = (Kept \ {Db}) \cup {Db'}
      BY <1>2, <1>3, <1>5, <3>1, <3>2, KeptVersions, FileDbAssumption
         DEF Version
    <3>. QED
      BY <3>3
  <2>2. CASE dir["bakNew"] # dir["data"]
    <3>1. dir["bakNew"] # 0 => body'[dir["bakNew"]] = body[dir["bakNew"]]
      BY <1>2, <2>2, NamedFiles DEF Dirs, Names
    <3>2. \A n \in {"bak", "bakNew"} :
              dir'[n] = dir[n] /\ (dir[n] # 0 => body'[dir'[n]] = body[dir[n]])
      BY <1>5, <3>1
    <3>3. Kept' = Kept
      <4>1. \A v : v \in Kept' <=> v \in Kept
        BY <3>2, KeptVersions
      <4>. QED
        BY <4>1, Zenon
    <3>. QED
      BY <3>3
  <2>. QED
    BY <2>1, <2>2
<1>. QED
  BY <1>3, <1>4, <1>6 DEF Store!Edit

(* Every other step only changes what is kept.                             *)
LEMMA SteadyRotates ==
    ASSUME Cooperative, Steady, IInv', RInv'
    PROVE  Store!Rotate
<1>1. Kept' \in SUBSET Version
  <2>1. \A n \in {"bak", "bakNew"} :
            dir'[n] # 0 /\ body'[dir'[n]] # 0 => body'[dir'[n]] \in Version
    <3>1. /\ dir' \in [Names -> 0 .. MaxFiles]
          /\ body' \in [File -> 0 .. MaxVersion]
      BY DEF IInv, TypeOK
    <3>. QED
      BY <3>1, FileDbAssumption DEF Names, File, Version
  <2>. QED
    BY <2>1, KeptVersions
<1>2. stem[Db] # 0 => stem[Db] \in Kept'
  <2>1. Db' = Db /\ (stem[Db])' = stem[Db]
    BY DEF Steady
  <2>2. (stem[Db])' # 0 =>
            \E n \in {"bak", "bakNew"} :
                dir'[n] # 0 /\ body'[dir'[n]] = (stem[Db])'
    BY DEF RInv, RecoveryKept, Db
  <2>. QED
    BY <2>1, <2>2, KeptVersions
<1>. QED
  BY <1>1, <1>2 DEF Store!Rotate, Steady

(* With no power cut and nobody working around the lock, any number of     *)
(* writers, users, crashes and failures do what InfobaseStore promises: an *)
(* import takes effect in the one step that renames the work copy, with    *)
(* the version it replaces already kept (lib.rs, replace_guarded).         *)
THEOREM StoreImplemented ==
    ASSUME ~PowerCuts, ~Unlocked
    PROVE  Spec => ImplementsStore
<1>. Cooperative
  BY DEF Cooperative
<1>1. Init => Store!Init
  <2>. SUFFICES ASSUME Init
                PROVE  Store!Init
    OBVIOUS
  <2>1. Db = 1 /\ stem[Db] = 0 /\ 1 \in Version
    BY FileDbAssumption DEF Init, Db, File, Version, Names
  <2>2. dir["bak"] = 0 /\ dir["bakNew"] = 0
    BY DEF Init, Names
  <2>3. Kept = {}
    BY <2>2, KeptVersions
  <2>. QED
    BY <2>1, <2>3 DEF Store!Init
<1>2. /\ IInv /\ RInv /\ SInv /\ IInv' /\ RInv'
      /\ [Next]_vars
      => [Store!Next]_(Store!vars)
  BY NextStands, RenameDataImports, UserEditsEdits, SteadyRotates
     DEF Store!Next
<1>. QED
  BY <1>1, <1>2, StoreInvariance, PTL DEF Spec, ImplementsStore, Store!Spec

=============================================================================
