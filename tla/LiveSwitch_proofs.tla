--------------------------- MODULE LiveSwitch_proofs ---------------------------
(***************************************************************************)
(* Theorems about LiveSwitch for any number of runs, paths and contents,   *)
(* checked by TLAPS.                                                       *)
(***************************************************************************)
EXTENDS LiveSwitch, TLAPS

Flags == online \in BOOLEAN /\ single \in BOOLEAN /\ work \in BOOLEAN

Amounts ==
    /\ newest \in Contents /\ config \in 0 .. newest /\ stage \in 0 .. newest
    /\ outside \in 0 .. MaxOutside

RunTypes ==
    /\ pc \in [Runs -> Labels] /\ answer \in [Runs -> Answers]
    /\ kind \in [Runs -> Kinds] /\ interrupt \in [Runs -> BOOLEAN]
    /\ plan \in [Runs -> Snapshots]
    /\ path \in [Runs -> Tails \union {NoPath}]
    /\ cycle \in [Runs -> 1 .. 2]

SetTypes ==
    /\ late \subseteq Runs /\ lock \in Runs \union {NoRun}
    /\ recovery \subseteq Snapshots
    /\ artifacts \subseteq [op : Snapshots, file : Tails]
    /\ promoted \subseteq [op : Snapshots, by : Kinds]
    /\ disturbed \subseteq Snapshots

LogSets == [op : Snapshots, cycle : 0 .. 2, file : Tails \union {NoPath}]
FileSets == [op : Snapshots, cycle : 0 .. 2, file : Tails]

LogTypes == log \in Seq(LogSets) /\ tail \in [Tails -> Seq(FileSets)]

(* A run on its way has its path, and the kind that goes with its place.   *)
Bound ==
    \A r \in Runs :
        /\ pc[r] \notin {"idle", "stage", "done", "dead"} => path[r] \in Tails
        /\ pc[r] \in {"verify", "ready", "confirm"} => kind[r] # "legacy"
        /\ pc[r] = "reconnect" => kind[r] = "legacy"
        /\ pc[r] \in {"recovery", "live", "guard", "promote"}
                => plan[r].new # 0

(* A run between the guard of its batch and the end of it holds the lock.  *)
Holding == {"stage", "promote", "single", "backup", "restore", "multi",
            "reconnect"}

Exclusive == \A r \in Runs : pc[r] \in Holding => lock = r

(* Work open beside a run past its check began after that check.           *)
Spared ==
    \A r \in Runs : r \in Checked /\ work => interrupt[r] \/ r \in late

(* The artifacts are there before the promotion.                           *)
Prepared ==
    \A r \in Runs :
        /\ pc[r] \in {"live", "guard", "promote"} => plan[r] \in recovery
        /\ pc[r] \in {"guard", "promote"} /\ kind[r] = "checkpoint"
                => \E a \in artifacts : a.op = plan[r]

(* Up to its guard, and before any answer, a run is in its first cycle.    *)
FirstCycle ==
    \A r \in Runs :
        /\ pc[r] \in {"idle", "stage", "recovery", "live", "guard", "promote",
                      "verify", "ready"} => cycle[r] = 1
        /\ pc[r] # "done" => answer[r] = "none"

(* The file of a first cycle stays empty until it is written.              *)
Unwritten ==
    \A r \in Runs :
        pc[r] \in {"promote", "single", "backup"} /\ cycle[r] = 1
            => tail[path[r]] = << >>

(* No content is promoted twice.                                           *)
PromotedOnce ==
    \A p \in promoted : p.op.new \in 1 .. newest /\ stage # p.op.new

Published == {p.op : p \in promoted}

(* Named sets are those of promotions.                                     *)
Named ==
    \A i \in 1 .. Len(log) : log[i].cycle # 0 => log[i].op \in Published

(* A run that is about to take a named set takes it for the first time,    *)
(* and the second one while nothing but outside backups follow the first.  *)
About(r, number) ==
    kind[r] # "legacy" /\ pc[r] \in {"single", "backup"} /\ cycle[r] = number

AboutToTake ==
    \A r \in Runs :
        /\ About(r, 1) => /\ plan[r] \in Published
                          /\ \A i \in 1 .. Len(log) :
                                log[i].cycle = 1 => log[i].op # plan[r]
        /\ About(r, 2) => \E j \in 1 .. Len(log) :
                /\ log[j] = First(plan[r], path[r])
                /\ \A k \in j + 1 .. Len(log) : log[k] = Unnamed(NoPath)

IInv ==
    /\ Flags /\ Amounts /\ RunTypes /\ SetTypes /\ LogTypes
    /\ Bound /\ Exclusive /\ Spared /\ Prepared /\ PromotedIsRecoverable
    /\ FirstCycle /\ AnswersAreTrue /\ Unwritten /\ LogKept
    /\ PromotedOnce /\ Named /\ AboutToTake /\ CyclesPaired


-----------------------------------------------------------------------------
(* What Append does to the elements of a sequence.                         *)
LEMMA Appended ==
    ASSUME NEW S, NEW s \in Seq(S), NEW e \in S
    PROVE  /\ Append(s, e) \in Seq(S)
           /\ Len(s) \in Nat /\ Len(Append(s, e)) = Len(s) + 1
           /\ \A i \in 1 .. Len(s) : Append(s, e)[i] = s[i]
           /\ Append(s, e)[Len(s) + 1] = e
           /\ DOMAIN s = 1 .. Len(s)
           /\ DOMAIN Append(s, e) = 1 .. Len(s) + 1
  OBVIOUS

(* Plans are made of contents.                                             *)
LEMMA PlanTypes ==
    /\ NoPlan \in Snapshots
    /\ \A old, new \in Contents : [old |-> old, new |-> new] \in Snapshots
  BY LiveAssumption DEF NoPlan, Snapshots, Contents

LEMMA ContentNumbers ==
    ASSUME NEW n \in Contents
    PROVE  /\ n \in Nat /\ 0 \in Contents
           /\ n < MaxContent => n + 1 \in Contents
           /\ 0 .. n \subseteq Contents
  BY LiveAssumption DEF Contents

-----------------------------------------------------------------------------
(* What BackupLog does to the log and to the file of its run.              *)
Grows(r) ==
    /\ Taking(r).file = path[r] /\ path[r] \in Tails
    /\ log \in Seq(LogSets) /\ log' \in Seq(LogSets)
    /\ Len(log) \in Nat /\ Len(log') = Len(log) + 1
    /\ \A i \in 1 .. Len(log) : log'[i] = log[i]
    /\ log'[Len(log) + 1] = Taking(r)
    /\ DOMAIN log = 1 .. Len(log) /\ DOMAIN log' = 1 .. Len(log) + 1
    /\ tail' \in [Tails -> Seq(FileSets)]
    /\ \A f \in Tails \ {path[r]} : tail'[f] = tail[f]
    /\ \E j \in DOMAIN tail'[path[r]] : tail'[path[r]][j] = Taking(r)
    /\ cycle[r] = 2 => \A j \in DOMAIN tail[path[r]] :
            /\ j \in DOMAIN tail'[path[r]]
            /\ tail'[path[r]][j] = tail[path[r]][j]
    /\ cycle[r] = 1 => tail[path[r]] = << >>

LEMMA SetTaken ==
    ASSUME RunTypes, Bound, NEW r \in Runs, pc[r] = "backup"
    PROVE  /\ Taking(r) \in LogSets /\ Taking(r) \in FileSets
           /\ Taking(r).file = path[r] /\ path[r] \in Tails
<1>1. path[r] \in Tails
  BY DEF Bound
<1>2. CASE kind[r] = "legacy"
  BY <1>1, <1>2, PlanTypes DEF Taking, Unnamed, LogSet, LogSets, FileSets
<1>3. CASE kind[r] # "legacy"
  <2>1. plan[r] \in Snapshots /\ cycle[r] \in 0 .. 2
    BY DEF RunTypes
  <2>. QED
    BY <1>1, <1>3, <2>1 DEF Taking, LogSet, LogSets, FileSets
<1>. QED
  BY <1>1, <1>2, <1>3

(* What a file that is continued holds.                                    *)
LEMMA FileGrows ==
    ASSUME NEW S, NEW s \in Seq(S), NEW e \in S
    PROVE  /\ \E j \in DOMAIN Append(s, e) : Append(s, e)[j] = e
           /\ \A j \in DOMAIN s : /\ j \in DOMAIN Append(s, e)
                                  /\ Append(s, e)[j] = s[j]
<1>1. /\ Len(s) \in Nat /\ DOMAIN s = 1 .. Len(s)
      /\ DOMAIN Append(s, e) = 1 .. Len(s) + 1
      /\ Append(s, e)[Len(s) + 1] = e
      /\ \A i \in 1 .. Len(s) : Append(s, e)[i] = s[i]
  BY Appended
<1>2. Len(s) + 1 \in DOMAIN Append(s, e)
  BY <1>1
<1>. QED
  BY <1>1, <1>2

LEMMA BackupLogGrows ==
    ASSUME IInv, NEW r \in Runs, BackupLog(r)
    PROVE  Grows(r)
<1>1. /\ Taking(r) \in LogSets /\ Taking(r) \in FileSets
      /\ Taking(r).file = path[r] /\ path[r] \in Tails
  BY SetTaken DEF IInv, BackupLog
<1>2. /\ log \in Seq(LogSets) /\ log' = Append(log, Taking(r))
      /\ tail \in [Tails -> Seq(FileSets)]
      /\ tail' = [tail EXCEPT ![path[r]] = FileAfter(r)]
  BY DEF IInv, LogTypes, BackupLog
<1>3. /\ log' \in Seq(LogSets)
      /\ Len(log) \in Nat /\ Len(log') = Len(log) + 1
      /\ \A i \in 1 .. Len(log) : log'[i] = log[i]
      /\ log'[Len(log) + 1] = Taking(r)
      /\ DOMAIN log = 1 .. Len(log) /\ DOMAIN log' = 1 .. Len(log) + 1
  BY <1>1, <1>2, Appended
<1>4. tail[path[r]] \in Seq(FileSets) /\ tail'[path[r]] = FileAfter(r)
  BY <1>1, <1>2
<1>5. cycle[r] = 1 => tail[path[r]] = << >>
  BY DEF IInv, BackupLog, Unwritten
<1>6. cycle[r] = 1 \/ cycle[r] = 2
  BY DEF IInv, RunTypes
<1>7. CASE cycle[r] = 1
  <2>1. FileAfter(r) = <<Taking(r)>>
    BY <1>7 DEF FileAfter
  <2>2. /\ FileAfter(r) \in Seq(FileSets) /\ 1 \in DOMAIN FileAfter(r)
        /\ FileAfter(r)[1] = Taking(r)
    BY <1>1, <2>1
  <2>. QED
    BY <1>1, <1>2, <1>3, <1>4, <1>5, <1>7, <2>2 DEF Grows
<1>8. CASE cycle[r] = 2
  <2>1. FileAfter(r) = Append(tail[path[r]], Taking(r))
    BY <1>8 DEF FileAfter
  <2>2. FileAfter(r) \in Seq(FileSets)
    BY <1>1, <1>4, <2>1, Appended
  <2>3. /\ \E j \in DOMAIN FileAfter(r) : FileAfter(r)[j] = Taking(r)
        /\ \A j \in DOMAIN tail[path[r]] :
                /\ j \in DOMAIN FileAfter(r)
                /\ FileAfter(r)[j] = tail[path[r]][j]
    BY <1>1, <1>4, <2>1, FileGrows
  <2>4. /\ tail' \in [Tails -> Seq(FileSets)]
        /\ \A f \in Tails \ {path[r]} : tail'[f] = tail[f]
    BY <1>1, <1>2, <2>2
  <2>. QED
    BY <1>1, <1>2, <1>3, <1>4, <1>5, <1>8, <2>3, <2>4 DEF Grows
<1>. QED
  BY <1>6, <1>7, <1>8

LEMMA LogKeptGrows ==
    ASSUME IInv, NEW r \in Runs, Grows(r)
    PROVE  LogKept'
<1>1. SUFFICES ASSUME NEW i \in DOMAIN log', log'[i].file # NoPath
               PROVE  \E j \in DOMAIN tail'[log'[i].file] :
                            tail'[log'[i].file][j] = log'[i]
  BY DEF LogKept
<1>2. i \in 1 .. Len(log) \/ i = Len(log) + 1
  BY DEF Grows
<1>3. CASE i = Len(log) + 1
  BY <1>3 DEF Grows
<1>4. CASE i \in 1 .. Len(log)
  <2>1. log'[i] = log[i] /\ i \in DOMAIN log
    BY <1>4 DEF Grows
  <2>2. PICK j \in DOMAIN tail[log[i].file] : tail[log[i].file][j] = log[i]
    BY <1>1, <2>1 DEF IInv, LogKept
  <2>3. log[i].file \in Tails
    <3>1. log[i] \in LogSets
      BY <2>1 DEF Grows
    <3>. QED
      BY <1>1, <2>1, <3>1 DEF LogSets
  <2>4. CASE log[i].file # path[r]
    <3>1. tail'[log[i].file] = tail[log[i].file]
      BY <2>3, <2>4 DEF Grows
    <3>. QED
      BY <2>1, <2>2, <3>1
  <2>5. CASE log[i].file = path[r]
    <3>1. j \in DOMAIN tail[path[r]] /\ tail[path[r]][j] = log[i]
      BY <2>2, <2>5
    <3>2. cycle[r] = 2
      <4>1. tail[path[r]] # << >>
        BY <3>1
      <4>. QED
        BY <4>1 DEF Grows, IInv, RunTypes
    <3>3. j \in DOMAIN tail'[path[r]] /\ tail'[path[r]][j] = log[i]
      BY <3>1, <3>2 DEF Grows
    <3>. QED
      BY <2>1, <2>5, <3>3
  <2>. QED
    BY <2>4, <2>5
<1>. QED
  BY <1>2, <1>3, <1>4

(* The set a run takes, when it is named.                                  *)
LEMMA NamedTaken ==
    ASSUME NEW r \in Runs, IInv, pc[r] = "backup", Taking(r).cycle # 0
    PROVE  /\ About(r, cycle[r]) /\ cycle[r] \in {1, 2}
           /\ Taking(r) = LogSet(plan[r], cycle[r], path[r])
           /\ Taking(r).op = plan[r] /\ Taking(r).cycle = cycle[r]
           /\ Taking(r).file = path[r]
           /\ plan[r] \in Published
<1>1. kind[r] # "legacy"
  BY DEF Taking, Unnamed, LogSet
<1>2. About(r, cycle[r]) /\ cycle[r] \in {1, 2}
  BY <1>1 DEF About, IInv, RunTypes
<1>3. Taking(r) = LogSet(plan[r], cycle[r], path[r])
  BY <1>1 DEF Taking
<1>4. plan[r] \in Published
  <2>1. CASE cycle[r] = 1
    BY <1>2, <2>1 DEF IInv, AboutToTake
  <2>2. CASE cycle[r] = 2
    <3>1. PICK j \in 1 .. Len(log) : log[j] = First(plan[r], path[r])
      BY <1>2, <2>2 DEF IInv, AboutToTake
    <3>. QED
      BY <3>1 DEF IInv, Named, First, LogSet
  <2>. QED
    BY <1>2, <2>1, <2>2
<1>. QED
  BY <1>2, <1>3, <1>4 DEF LogSet

LEMMA NamedGrows ==
    ASSUME NEW r \in Runs, IInv, pc[r] = "backup", Grows(r),
           promoted' = promoted
    PROVE  Named'
<1>1. Published' = Published
  BY DEF Published
<1>2. SUFFICES ASSUME NEW i \in 1 .. Len(log'), log'[i].cycle # 0
               PROVE  log'[i].op \in Published
  BY <1>1 DEF Named
<1>3. i \in 1 .. Len(log) \/ i = Len(log) + 1
  BY DEF Grows
<1>4. CASE i \in 1 .. Len(log)
  <2>1. log'[i] = log[i]
    BY <1>4 DEF Grows
  <2>. QED
    BY <1>2, <1>4, <2>1 DEF IInv, Named
<1>5. CASE i = Len(log) + 1
  <2>1. log'[i] = Taking(r)
    BY <1>5 DEF Grows
  <2>. QED
    BY <1>2, <2>1, NamedTaken
<1>. QED
  BY <1>3, <1>4, <1>5

(* A named set is not in the log before it is taken.                       *)
LEMMA TakenOnce ==
    ASSUME NEW r \in Runs, IInv, pc[r] = "backup", Taking(r).cycle # 0,
           NEW i \in 1 .. Len(log),
           log[i].op = Taking(r).op, log[i].cycle = Taking(r).cycle
    PROVE  FALSE
<1>1. /\ About(r, cycle[r]) /\ cycle[r] \in {1, 2}
      /\ log[i].op = plan[r] /\ log[i].cycle = cycle[r]
  BY NamedTaken
<1>2. CASE cycle[r] = 1
  BY <1>1, <1>2 DEF IInv, AboutToTake
<1>3. CASE cycle[r] = 2
  <2>1. PICK j \in 1 .. Len(log) :
            /\ log[j] = First(plan[r], path[r])
            /\ \A k \in j + 1 .. Len(log) : log[k] = Unnamed(NoPath)
    BY <1>1, <1>3 DEF IInv, AboutToTake
  <2>2. Len(log) \in Nat /\ DOMAIN log = 1 .. Len(log) /\ log \in Seq(LogSets)
    BY DEF IInv, LogTypes
  <2>3. log[i] \in LogSets
    BY <2>2
  <2>4. PICK m \in 1 .. i - 1 : log[m] = [log[i] EXCEPT !.cycle = 1]
    BY <1>1, <1>3, <2>2 DEF IInv, CyclesPaired
  <2>5. log[m].op = plan[r] /\ log[m].cycle = 1
    BY <1>1, <2>3, <2>4 DEF LogSets
  <2>6. log[j].op = plan[r] /\ log[j].cycle = 1
    BY <2>1 DEF First, LogSet
  <2>7. m \in DOMAIN log /\ j \in DOMAIN log
    BY <2>1, <2>2, <2>4
  <2>8. m = j
    <3>1. \A a, b \in DOMAIN log :
            log[a].cycle # 0 /\ log[a].op = log[b].op
                /\ log[a].cycle = log[b].cycle => a = b
      BY DEF IInv, CyclesPaired
    <3>. QED
      BY <2>5, <2>6, <2>7, <3>1
  <2>9. i \in j + 1 .. Len(log)
    BY <2>2, <2>4, <2>8
  <2>10. log[i].cycle = 0
    BY <2>1, <2>9 DEF Unnamed, LogSet
  <2>. QED
    BY <1>1, <1>3, <2>10
<1>. QED
  BY <1>1, <1>2, <1>3

LEMMA PairsGrow ==
    ASSUME NEW r \in Runs, IInv, pc[r] = "backup", Grows(r)
    PROVE  CyclesPaired'
<1>0. /\ Len(log) \in Nat /\ DOMAIN log = 1 .. Len(log)
      /\ DOMAIN log' = 1 .. Len(log) + 1
      /\ \A i \in 1 .. Len(log) : log'[i] = log[i]
      /\ log'[Len(log) + 1] = Taking(r)
  BY DEF Grows
<1>1. ASSUME NEW i \in DOMAIN log', log'[i].cycle = 2
      PROVE  \E j \in 1 .. i - 1 :
                  /\ log'[j] = [log'[i] EXCEPT !.cycle = 1]
                  /\ \A k \in j + 1 .. i - 1 : log'[k] = Unnamed(NoPath)
  <2>1. i \in 1 .. Len(log) \/ i = Len(log) + 1
    BY <1>0
  <2>2. CASE i \in 1 .. Len(log)
    <3>1. log'[i] = log[i]
      BY <1>0, <2>2
    <3>2. PICK j \in 1 .. i - 1 :
              /\ log[j] = [log[i] EXCEPT !.cycle = 1]
              /\ \A k \in j + 1 .. i - 1 : log[k] = Unnamed(NoPath)
      BY <1>0, <1>1, <2>2, <3>1 DEF IInv, CyclesPaired
    <3>3. j \in 1 .. Len(log) /\ \A k \in j + 1 .. i - 1 : k \in 1 .. Len(log)
      BY <1>0, <2>2
    <3>4. log'[j] = log[j] /\ \A k \in j + 1 .. i - 1 : log'[k] = log[k]
      BY <1>0, <3>3
    <3>. QED
      BY <3>1, <3>2, <3>4
  <2>3. CASE i = Len(log) + 1
    <3>1. log'[i] = Taking(r) /\ Taking(r).cycle = 2
      BY <1>0, <1>1, <2>3
    <3>2. /\ About(r, 2) /\ Taking(r) = LogSet(plan[r], 2, path[r])
      BY <3>1, NamedTaken
    <3>3. PICK j \in 1 .. Len(log) :
              /\ log[j] = First(plan[r], path[r])
              /\ \A k \in j + 1 .. Len(log) : log[k] = Unnamed(NoPath)
      BY <3>2 DEF IInv, AboutToTake
    <3>4. First(plan[r], path[r]) = [Taking(r) EXCEPT !.cycle = 1]
      BY <3>2 DEF First, LogSet
    <3>5. /\ j \in 1 .. i - 1 /\ log'[j] = log[j]
          /\ \A k \in j + 1 .. i - 1 : /\ k \in 1 .. Len(log)
                                      /\ k \in j + 1 .. Len(log)
      BY <1>0, <2>3
    <3>6. \A k \in j + 1 .. i - 1 : log'[k] = Unnamed(NoPath)
      BY <1>0, <3>3, <3>5
    <3>. QED
      BY <3>1, <3>3, <3>4, <3>5, <3>6
  <2>. QED
    BY <2>1, <2>2, <2>3
<1>2. ASSUME NEW i \in DOMAIN log', NEW j \in DOMAIN log',
             log'[i].cycle # 0, log'[i].op = log'[j].op,
             log'[i].cycle = log'[j].cycle
      PROVE  i = j
  <2>1. CASE i \in 1 .. Len(log) /\ j \in 1 .. Len(log)
    <3>1. i \in DOMAIN log /\ j \in DOMAIN log
      BY <1>0, <2>1
    <3>2. log'[i] = log[i] /\ log'[j] = log[j]
      BY <1>0, <2>1
    <3>. QED
      BY <1>2, <3>1, <3>2 DEF IInv, CyclesPaired
  <2>2. CASE i = Len(log) + 1 /\ j \in 1 .. Len(log)
    <3>1. log'[i] = Taking(r) /\ log'[j] = log[j]
      BY <1>0, <2>2
    <3>. QED
      BY <1>2, <2>2, <3>1, TakenOnce
  <2>3. CASE j = Len(log) + 1 /\ i \in 1 .. Len(log)
    <3>1. log'[j] = Taking(r) /\ log'[i] = log[i]
      BY <1>0, <2>3
    <3>. QED
      BY <1>2, <2>3, <3>1, TakenOnce
  <2>. QED
    BY <1>0, <2>1, <2>2, <2>3
<1>. QED
  BY <1>1, <1>2 DEF CyclesPaired

-----------------------------------------------------------------------------
(* Each action keeps the invariant.                                        *)

LEMMA StageGuardKeeps ==
    ASSUME IInv, NEW r \in Runs, StageGuard(r)
    PROVE  IInv'
<1>. USE DEF IInv, StageGuard, Guarded, Locks, Goto, database, backups, disk,
        run, history
<1>1. Flags' /\ Amounts' /\ LogTypes' /\ PromotedIsRecoverable' /\
      AnswersAreTrue' /\ LogKept' /\ PromotedOnce' /\ Named' /\ CyclesPaired'
  BY DEF Flags, Amounts, LogTypes, PromotedIsRecoverable, AnswersAreTrue,
     Contiguous, LogKept, PromotedOnce, Named, Published, CyclesPaired
<1>2. RunTypes'
  BY DEF RunTypes, Labels, Kinds, Answers
<1>3. SetTypes'
  BY DEF SetTypes
<1>4. Bound'
  BY DEF Bound
<1>5. Exclusive'
  BY LiveAssumption DEF Exclusive, Holding, RunTypes, Labels, Kinds, Answers,
     SetTypes
<1>6. Spared'
  BY DEF Spared, Checked
<1>7. Prepared'
  BY DEF Prepared
<1>8. FirstCycle'
  BY DEF FirstCycle
<1>9. Unwritten'
  BY DEF Unwritten
<1>10. AboutToTake'
  BY DEF AboutToTake, About, Published
<1>. QED
  BY <1>1, <1>2, <1>3, <1>4, <1>5, <1>6, <1>7, <1>8, <1>9, <1>10

LEMMA StageKeeps ==
    ASSUME IInv, NEW r \in Runs, Stage(r)
    PROVE  IInv'
<1>. USE DEF IInv, Stage, Unlocks, Ends, Goto, database, backups, disk, run,
        history
<1>1. Flags' /\ LogTypes' /\ Named'
  BY DEF Flags, LogTypes, Named, Published
<1>2. PromotedIsRecoverable'
  BY DEF PromotedIsRecoverable
<1>3. LogKept'
  BY DEF LogKept
<1>4. CyclesPaired'
  BY DEF CyclesPaired
<1>5. Amounts'
  BY LiveAssumption DEF Amounts, Contents
<1>6. RunTypes'
  BY DEF RunTypes, Labels, Kinds, Answers
<1>7. SetTypes'
  BY DEF SetTypes
<1>8. Bound'
  BY DEF Bound
<1>9. Exclusive'
  BY DEF Exclusive, Holding, RunTypes, Labels, Kinds, Answers, SetTypes
<1>10. Spared'
  BY DEF Spared, Checked
<1>11. Prepared'
  BY DEF Prepared
<1>12. FirstCycle'
  BY DEF FirstCycle, RunTypes, Labels, Kinds, Answers
<1>13. AnswersAreTrue'
  BY DEF AnswersAreTrue, Contiguous, FirstCycle, RunTypes, Labels, Kinds,
     Answers, Bound
<1>14. Unwritten'
  BY DEF Unwritten
<1>15. PromotedOnce'
  BY LiveAssumption DEF PromotedOnce, Amounts, Contents, SetTypes, Snapshots
<1>16. AboutToTake'
  BY DEF AboutToTake, About, Published
<1>. QED
  BY <1>1, <1>2, <1>3, <1>4, <1>5, <1>6, <1>7, <1>8, <1>9, <1>10, <1>11, <1>12,
     <1>13, <1>14, <1>15, <1>16

LEMMA ReadInputsKeeps ==
    ASSUME IInv, NEW r \in Runs, NEW mode \in {"legacy", "checkpoint"},
           NEW leave \in BOOLEAN, NEW t \in Tails,
           ReadInputs(r, mode, leave, t)
    PROVE  IInv'
<1>. USE DEF IInv, ReadInputs, Goto, database, backups, disk, run, history
<1>1. Flags' /\ Amounts' /\ SetTypes' /\ LogTypes' /\ PromotedIsRecoverable' /\
      LogKept' /\ PromotedOnce' /\ Named' /\ CyclesPaired'
  BY DEF Flags, Amounts, SetTypes, LogTypes, PromotedIsRecoverable, LogKept,
     PromotedOnce, Named, Published, CyclesPaired
<1>2. RunTypes'
  BY PlanTypes, ContentNumbers DEF RunTypes, Labels, Kinds, Answers, Amounts
<1>3. Bound'
  BY DEF Bound, RunTypes, Labels, Kinds, Answers, SetTypes
<1>4. Exclusive'
  BY DEF Exclusive, Holding
<1>5. Spared'
  BY DEF Spared, Checked
<1>6. Prepared'
  BY DEF Prepared
<1>7. FirstCycle'
  BY DEF FirstCycle
<1>8. AnswersAreTrue'
  BY DEF AnswersAreTrue, Contiguous, FirstCycle, RunTypes, Labels, Kinds,
     Answers, Bound
<1>9. Unwritten'
  BY DEF Unwritten
<1>10. AboutToTake'
  BY DEF AboutToTake, About, Published
<1>. QED
  BY <1>1, <1>2, <1>3, <1>4, <1>5, <1>6, <1>7, <1>8, <1>9, <1>10

LEMMA WriteRecoveryKeeps ==
    ASSUME IInv, NEW r \in Runs, WriteRecovery(r)
    PROVE  IInv'
<1>. USE DEF IInv, WriteRecovery, Goto, database, backups, disk, run, history
<1>1. Flags' /\ Amounts' /\ LogTypes' /\ AnswersAreTrue' /\ LogKept' /\
      PromotedOnce' /\ Named' /\ CyclesPaired'
  BY DEF Flags, Amounts, LogTypes, AnswersAreTrue, Contiguous, LogKept,
     PromotedOnce, Named, Published, CyclesPaired
<1>2. RunTypes'
  BY DEF RunTypes, Labels, Kinds, Answers
<1>3. SetTypes'
  BY DEF SetTypes, RunTypes, Labels, Kinds, Answers
<1>4. Bound'
  BY DEF Bound
<1>5. Exclusive'
  BY DEF Exclusive, Holding
<1>6. Spared'
  BY DEF Spared, Checked
<1>7. Prepared'
  BY DEF Prepared
<1>8. PromotedIsRecoverable'
  BY DEF PromotedIsRecoverable
<1>9. FirstCycle'
  BY DEF FirstCycle
<1>10. Unwritten'
  BY DEF Unwritten
<1>11. AboutToTake'
  BY DEF AboutToTake, About, Published
<1>. QED
  BY <1>1, <1>2, <1>3, <1>4, <1>5, <1>6, <1>7, <1>8, <1>9, <1>10, <1>11

LEMMA WriteLiveKeeps ==
    ASSUME IInv, NEW r \in Runs, WriteLive(r)
    PROVE  IInv'
<1>. USE DEF IInv, WriteLive, Goto, database, backups, disk, run, history
<1>1. Flags' /\ Amounts' /\ LogTypes' /\ PromotedOnce' /\ Named'
  BY DEF Flags, Amounts, LogTypes, PromotedOnce, Named, Published
<1>2. AnswersAreTrue'
  BY DEF AnswersAreTrue, Contiguous
<1>3. LogKept'
  BY DEF LogKept
<1>4. CyclesPaired'
  BY DEF CyclesPaired
<1>5. RunTypes'
  BY DEF RunTypes, Labels, Kinds, Answers
<1>6. SetTypes'
  BY DEF SetTypes, RunTypes, Bound
<1>7. Bound'
  BY DEF Bound
<1>8. Exclusive'
  BY DEF Exclusive, Holding
<1>9. Spared'
  BY DEF Spared, Checked
<1>10. Prepared'
  <2>. DEFINE a == [op |-> plan[r], file |-> path[r]]
  <2>1. a \in artifacts' /\ a.op = plan[r]
    OBVIOUS
  <2>. QED
    BY <2>1 DEF Prepared, RunTypes
<1>11. PromotedIsRecoverable'
  BY DEF PromotedIsRecoverable
<1>12. FirstCycle'
  BY DEF FirstCycle
<1>13. Unwritten'
  BY DEF Unwritten
<1>14. AboutToTake'
  BY DEF AboutToTake, About, Published
<1>. QED
  BY <1>1, <1>2, <1>3, <1>4, <1>5, <1>6, <1>7, <1>8, <1>9, <1>10, <1>11, <1>12,
     <1>13, <1>14

LEMMA ScriptGuardKeeps ==
    ASSUME IInv, NEW r \in Runs, ScriptGuard(r)
    PROVE  IInv'
<1>. USE DEF IInv, ScriptGuard, Guarded, Locks, Allowed, Goto, database,
        backups, disk, run, history
<1>1. Flags' /\ Amounts' /\ LogTypes' /\ PromotedIsRecoverable' /\
      AnswersAreTrue' /\ LogKept' /\ PromotedOnce' /\ Named' /\ CyclesPaired'
  BY DEF Flags, Amounts, LogTypes, PromotedIsRecoverable, AnswersAreTrue,
     Contiguous, LogKept, PromotedOnce, Named, Published, CyclesPaired
<1>2. RunTypes'
  BY DEF RunTypes, Labels, Kinds, Answers
<1>3. SetTypes'
  BY DEF SetTypes
<1>4. Bound'
  BY DEF Bound
<1>5. Exclusive'
  BY LiveAssumption DEF Exclusive, Holding, RunTypes, Labels, Kinds, Answers,
     SetTypes
<1>6. Spared'
  BY DEF Spared, Checked
<1>7. Prepared'
  BY DEF Prepared
<1>8. FirstCycle'
  BY DEF FirstCycle
<1>9. Unwritten'
  BY DEF Unwritten
<1>10. AboutToTake'
  BY DEF AboutToTake, About, Published
<1>. QED
  BY <1>1, <1>2, <1>3, <1>4, <1>5, <1>6, <1>7, <1>8, <1>9, <1>10

LEMMA PromoteKeeps ==
    ASSUME IInv, NEW r \in Runs, Promote(r)
    PROVE  IInv'
<1>. USE DEF IInv, Promote, Promotes, Current, Allowed, Goto, database,
        backups, disk, run, history
<1>1. Flags' /\ LogTypes' /\ AnswersAreTrue' /\ LogKept' /\ CyclesPaired'
  BY DEF Flags, LogTypes, AnswersAreTrue, Contiguous, LogKept, CyclesPaired
<1>2. Amounts'
  BY LiveAssumption DEF Amounts, Contents
<1>3. RunTypes'
  BY DEF RunTypes, Labels, Kinds, Answers
<1>4. SetTypes'
  <2>1. [old |-> config, new |-> stage] \in Snapshots
    BY PlanTypes, ContentNumbers DEF Amounts
  <2>. QED
    BY <2>1 DEF SetTypes, RunTypes
<1>5. Bound'
  BY DEF Bound
<1>6. Exclusive'
  BY DEF Exclusive, Holding
<1>7. Spared'
  BY DEF Spared, Checked
<1>8. Prepared'
  BY DEF Prepared
<1>9. PromotedIsRecoverable'
  <2>1. [old |-> config, new |-> stage] = plan[r]
    BY DEF RunTypes, Snapshots
  <2>. QED
    BY <2>1 DEF PromotedIsRecoverable, Prepared
<1>10. FirstCycle'
  BY DEF FirstCycle
<1>11. Unwritten'
  BY DEF Unwritten
<1>12. PromotedOnce'
  BY DEF PromotedOnce, Amounts, Bound
<1>13. Named'
  BY DEF Named, Published
<1>14. AboutToTake'
  <2>1. [old |-> config, new |-> stage] = plan[r]
    BY DEF RunTypes, Snapshots
  <2>2. plan[r] \notin Published
    <3>1. SUFFICES ASSUME NEW p \in promoted, p.op = plan[r]
                   PROVE  FALSE
      BY DEF Published
    <3>. QED
      BY <3>1 DEF PromotedOnce
  <2>3. \A i \in 1 .. Len(log) : log[i].cycle = 1 => log[i].op # plan[r]
    BY <2>2 DEF Named
  <2>4. plan[r] \in Published' /\ Published \subseteq Published'
    <3>. DEFINE p == [op |-> plan[r], by |-> kind[r]]
    <3>1. promoted' = promoted \union {p} /\ p.op = plan[r]
      BY <2>1
    <3>. QED
      BY <3>1 DEF Published
  <2>5. cycle[r] = 1
    BY DEF FirstCycle
  <2>. QED
    BY <2>3, <2>4, <2>5 DEF AboutToTake, About, RunTypes
<1>. QED
  BY <1>1, <1>2, <1>3, <1>4, <1>5, <1>6, <1>7, <1>8, <1>9, <1>10, <1>11, <1>12,
     <1>13, <1>14

LEMMA SingleUserKeeps ==
    ASSUME IInv, NEW r \in Runs, SingleUser(r)
    PROVE  IInv'
<1>. USE DEF IInv, SingleUser, Goto, database, backups, disk, run, history
<1>1. Amounts' /\ LogTypes' /\ PromotedIsRecoverable' /\ AnswersAreTrue' /\
      LogKept' /\ PromotedOnce' /\ Named' /\ CyclesPaired'
  BY DEF Amounts, LogTypes, PromotedIsRecoverable, AnswersAreTrue, Contiguous,
     LogKept, PromotedOnce, Named, Published, CyclesPaired
<1>2. Flags'
  BY DEF Flags
<1>3. RunTypes'
  BY DEF RunTypes, Labels, Kinds, Answers
<1>4. SetTypes'
  BY DEF SetTypes
<1>5. Bound'
  BY DEF Bound
<1>6. Exclusive'
  BY DEF Exclusive, Holding
<1>7. Spared'
  BY DEF Spared, Checked
<1>8. Prepared'
  BY DEF Prepared
<1>9. FirstCycle'
  BY DEF FirstCycle
<1>10. Unwritten'
  BY DEF Unwritten
<1>11. AboutToTake'
  BY DEF AboutToTake, About, Published
<1>. QED
  BY <1>1, <1>2, <1>3, <1>4, <1>5, <1>6, <1>7, <1>8, <1>9, <1>10, <1>11

LEMMA BackupLogKeeps ==
    ASSUME IInv, NEW r \in Runs, BackupLog(r)
    PROVE  IInv'
<1>. USE DEF IInv, BackupLog, Goto, database, backups, disk, run, history
<1>1. Grows(r)
  BY BackupLogGrows
<1>2. Amounts' /\ SetTypes' /\ PromotedIsRecoverable' /\ PromotedOnce'
  BY DEF Amounts, SetTypes, PromotedIsRecoverable, PromotedOnce
<1>3. Flags'
  BY DEF Flags
<1>4. RunTypes'
  BY DEF RunTypes, Labels, Kinds, Answers
<1>5. LogTypes'
  BY <1>1 DEF LogTypes, Grows
<1>6. Bound'
  BY DEF Bound
<1>7. Exclusive'
  BY DEF Exclusive, Holding
<1>8. Spared'
  BY DEF Spared, Checked
<1>9. Prepared'
  BY DEF Prepared
<1>10. FirstCycle'
  BY DEF FirstCycle
<1>11. AnswersAreTrue'
  BY DEF AnswersAreTrue, Contiguous
<1>12. Unwritten'
  BY DEF Unwritten, RunTypes, Labels, Kinds, Answers, Exclusive, Holding, Bound
<1>13. LogKept'
  BY <1>1, LogKeptGrows
<1>14. Named'
  BY <1>1, NamedGrows DEF Published
<1>15. AboutToTake'
  BY DEF AboutToTake, About, Published, RunTypes, Labels, Kinds, Answers,
     Exclusive, Holding, Named
<1>16. CyclesPaired'
  BY <1>1, PairsGrow
<1>. QED
  BY <1>2, <1>3, <1>4, <1>5, <1>6, <1>7, <1>8, <1>9, <1>10, <1>11, <1>12,
     <1>13, <1>14, <1>15, <1>16

LEMMA RestoreKeeps ==
    ASSUME IInv, NEW r \in Runs, Restore(r)
    PROVE  IInv'
<1>. USE DEF IInv, Restore, Goto, database, backups, disk, run, history
<1>1. Amounts' /\ SetTypes' /\ LogTypes' /\ PromotedIsRecoverable' /\
      AnswersAreTrue' /\ LogKept' /\ PromotedOnce' /\ Named' /\ CyclesPaired'
  BY DEF Amounts, SetTypes, LogTypes, PromotedIsRecoverable, AnswersAreTrue,
     Contiguous, LogKept, PromotedOnce, Named, Published, CyclesPaired
<1>2. Flags'
  BY DEF Flags
<1>3. RunTypes'
  BY DEF RunTypes, Labels, Kinds, Answers
<1>4. Bound'
  BY DEF Bound
<1>5. Exclusive'
  BY DEF Exclusive, Holding
<1>6. Spared'
  BY DEF Spared, Checked
<1>7. Prepared'
  BY DEF Prepared
<1>8. FirstCycle'
  BY DEF FirstCycle
<1>9. Unwritten'
  BY DEF Unwritten
<1>10. AboutToTake'
  BY DEF AboutToTake, About, Published
<1>. QED
  BY <1>1, <1>2, <1>3, <1>4, <1>5, <1>6, <1>7, <1>8, <1>9, <1>10

LEMMA MultiUserKeeps ==
    ASSUME IInv, NEW r \in Runs, MultiUser(r)
    PROVE  IInv'
<1>. USE DEF IInv, MultiUser, Unlocks, Ends, Goto, database, backups, disk,
        run, history
<1>1. Amounts' /\ LogTypes' /\ PromotedIsRecoverable' /\ LogKept' /\
      PromotedOnce' /\ Named' /\ CyclesPaired'
  BY DEF Amounts, LogTypes, PromotedIsRecoverable, LogKept, PromotedOnce,
     Named, Published, CyclesPaired
<1>2. Flags'
  BY DEF Flags
<1>3. RunTypes'
  BY DEF RunTypes, Labels, Kinds, Answers
<1>4. SetTypes'
  BY DEF SetTypes
<1>5. Bound'
  BY DEF Bound, RunTypes, Labels, Kinds, Answers, SetTypes
<1>6. Exclusive'
  BY DEF Exclusive, Holding, RunTypes, Labels, Kinds, Answers, SetTypes
<1>7. Spared'
  BY DEF Spared, Checked, RunTypes, Labels, Kinds, Answers, Exclusive, Holding,
     Flags
<1>8. Prepared'
  BY DEF Prepared, RunTypes, Labels, Kinds, Answers
<1>9. FirstCycle'
  BY DEF FirstCycle, RunTypes, Labels, Kinds, Answers
<1>10. AnswersAreTrue'
  BY DEF AnswersAreTrue, Contiguous, FirstCycle, RunTypes, Labels, Kinds,
     Answers, Bound
<1>11. Unwritten'
  BY DEF Unwritten, RunTypes, Labels, Kinds, Answers, Exclusive, Holding, Bound
<1>12. AboutToTake'
  BY DEF AboutToTake, About, Published, RunTypes, Labels, Kinds, Answers,
     Exclusive, Holding, Named
<1>. QED
  BY <1>1, <1>2, <1>3, <1>4, <1>5, <1>6, <1>7, <1>8, <1>9, <1>10, <1>11, <1>12

LEMMA ReconnectedKeeps ==
    ASSUME IInv, NEW r \in Runs, Reconnected(r)
    PROVE  IInv'
<1>. USE DEF IInv, Reconnected, Goto, database, backups, disk, run, history
<1>1. Flags' /\ Amounts' /\ SetTypes' /\ LogTypes' /\ PromotedIsRecoverable' /\
      LogKept' /\ PromotedOnce'
  BY DEF Flags, Amounts, SetTypes, LogTypes, PromotedIsRecoverable, LogKept,
     PromotedOnce
<1>2. RunTypes'
  BY DEF RunTypes, Labels, Kinds, Answers
<1>3. Bound'
  BY DEF Bound
<1>4. Exclusive'
  BY DEF Exclusive, Holding
<1>5. Spared'
  BY DEF Spared, Checked
<1>6. Prepared'
  BY DEF Prepared
<1>7. FirstCycle'
  BY DEF FirstCycle
<1>8. AnswersAreTrue'
  BY DEF AnswersAreTrue, Contiguous, FirstCycle, RunTypes, Labels, Kinds,
     Answers, Bound
<1>9. Unwritten'
  BY DEF Unwritten, RunTypes, Labels, Kinds, Answers, Exclusive, Holding, Bound
<1>10. Named'
  BY DEF Named, Published
<1>11. AboutToTake'
  BY DEF AboutToTake, About, Published, Bound, RunTypes
<1>12. CyclesPaired'
  BY DEF CyclesPaired
<1>. QED
  BY <1>1, <1>2, <1>3, <1>4, <1>5, <1>6, <1>7, <1>8, <1>9, <1>10, <1>11, <1>12

LEMMA ResumeKeeps ==
    ASSUME IInv, NEW r \in Runs, NEW a \in artifacts, NEW leave \in BOOLEAN,
           Resume(r, a, leave)
    PROVE  IInv'
<1>. USE DEF IInv, Resume, Goto, database, backups, disk, run, history
<1>1. Flags' /\ Amounts' /\ SetTypes' /\ LogTypes' /\ PromotedOnce' /\ Named'
  BY DEF Flags, Amounts, SetTypes, LogTypes, PromotedOnce, Named, Published
<1>2. PromotedIsRecoverable'
  BY DEF PromotedIsRecoverable
<1>3. LogKept'
  BY DEF LogKept
<1>4. CyclesPaired'
  BY DEF CyclesPaired
<1>5. RunTypes'
  BY DEF RunTypes, Labels, Kinds, Answers, SetTypes
<1>6. Bound'
  BY DEF Bound, RunTypes, Labels, Kinds, Answers, SetTypes
<1>7. Exclusive'
  BY DEF Exclusive, Holding
<1>8. Spared'
  BY DEF Spared, Checked
<1>9. Prepared'
  BY DEF Prepared
<1>10. FirstCycle'
  BY DEF FirstCycle
<1>11. AnswersAreTrue'
  BY DEF AnswersAreTrue, Contiguous, FirstCycle, RunTypes, Labels, Kinds,
     Answers, Bound
<1>12. Unwritten'
  BY DEF Unwritten
<1>13. AboutToTake'
  BY DEF AboutToTake, About, Published
<1>. QED
  BY <1>1, <1>2, <1>3, <1>4, <1>5, <1>6, <1>7, <1>8, <1>9, <1>10, <1>11, <1>12,
     <1>13

LEMMA VerifyKeeps ==
    ASSUME IInv, NEW r \in Runs, Verify(r)
    PROVE  IInv'
<1>. USE DEF IInv, Verify, Ends, Goto, database, backups, disk, run, history
<1>1. Flags' /\ Amounts' /\ SetTypes' /\ LogTypes' /\ PromotedIsRecoverable' /\
      LogKept' /\ PromotedOnce' /\ Named' /\ CyclesPaired'
  BY DEF Flags, Amounts, SetTypes, LogTypes, PromotedIsRecoverable, LogKept,
     PromotedOnce, Named, Published, CyclesPaired
<1>2. RunTypes'
  BY DEF RunTypes, Labels, Kinds, Answers
<1>3. Bound'
  BY DEF Bound, RunTypes, Labels, Kinds, Answers, SetTypes
<1>4. Exclusive'
  BY DEF Exclusive, Holding, RunTypes, Labels, Kinds, Answers, SetTypes
<1>5. Spared'
  BY DEF Spared, Checked, RunTypes, Labels, Kinds, Answers, Exclusive, Holding,
     Flags
<1>6. Prepared'
  BY DEF Prepared, RunTypes, Labels, Kinds, Answers
<1>7. FirstCycle'
  BY DEF FirstCycle, RunTypes, Labels, Kinds, Answers
<1>8. AnswersAreTrue'
  <2>1. Finished(plan[r], path[r]) => Contiguous(plan[r], path[r])
    BY DEF Valid, Finished
  <2>. QED
    BY <2>1 DEF AnswersAreTrue, FirstCycle, RunTypes, Contiguous
<1>9. Unwritten'
  BY DEF Unwritten, RunTypes, Labels, Kinds, Answers, Exclusive, Holding, Bound
<1>10. AboutToTake'
  BY DEF AboutToTake, About, Published, RunTypes, Labels, Kinds, Answers,
     Exclusive, Holding, Named
<1>. QED
  BY <1>1, <1>2, <1>3, <1>4, <1>5, <1>6, <1>7, <1>8, <1>9, <1>10

LEMMA ContinueGuardKeeps ==
    ASSUME IInv, NEW r \in Runs, ContinueGuard(r)
    PROVE  IInv'
<1>. USE DEF IInv, ContinueGuard, Continues, Locks, Allowed, Goto, database,
        backups, disk, run, history
<1>1. Flags' /\ Amounts' /\ LogTypes' /\ PromotedIsRecoverable' /\ LogKept' /\
      PromotedOnce'
  BY DEF Flags, Amounts, LogTypes, PromotedIsRecoverable, LogKept, PromotedOnce
<1>2. RunTypes'
  BY DEF RunTypes, Labels, Kinds, Answers
<1>3. SetTypes'
  BY DEF SetTypes
<1>4. Bound'
  BY DEF Bound
<1>5. Exclusive'
  BY LiveAssumption DEF Exclusive, Holding, RunTypes, Labels, Kinds, Answers,
     SetTypes
<1>6. Spared'
  BY DEF Spared, Checked
<1>7. Prepared'
  BY DEF Prepared
<1>8. FirstCycle'
  BY DEF FirstCycle, RunTypes, Labels, Kinds, Answers
<1>9. AnswersAreTrue'
  BY DEF AnswersAreTrue, Contiguous, FirstCycle, RunTypes, Labels, Kinds,
     Answers, Bound
<1>10. Unwritten'
  BY DEF Unwritten, RunTypes, Labels, Kinds, Answers, Exclusive, Holding, Bound
<1>11. Named'
  BY DEF Named, Published
<1>12. AboutToTake'
  <2>1. /\ Len(log) \in 1 .. Len(log)
        /\ log[Len(log)] = First(plan[r], path[r])
        /\ \A k \in Len(log) + 1 .. Len(log) : log[k] = Unnamed(NoPath)
    BY DEF ChainEnds, LogTypes
  <2>2. /\ cycle'[r] = 2
        /\ \A q \in Runs : q # r => pc'[q] = pc[q] /\ cycle'[q] = cycle[q]
    BY DEF RunTypes
  <2>. SUFFICES ASSUME NEW q \in Runs
                PROVE  /\ About(q, 1)' =>
                          /\ plan[q] \in Published
                          /\ \A i \in 1 .. Len(log) :
                                log[i].cycle = 1 => log[i].op # plan[q]
                       /\ About(q, 2)' => \E j \in 1 .. Len(log) :
                          /\ log[j] = First(plan[q], path[q])
                          /\ \A k \in j + 1 .. Len(log) :
                                log[k] = Unnamed(NoPath)
    BY DEF AboutToTake, Published
  <2>3. CASE q = r
    BY <2>1, <2>2, <2>3 DEF About
  <2>4. CASE q # r
    <3>1. \A n \in {1, 2} : About(q, n)' => About(q, n)
      BY <2>2, <2>4 DEF About
    <3>. QED
      BY <3>1 DEF AboutToTake
  <2>. QED
    BY <2>3, <2>4
<1>13. CyclesPaired'
  BY DEF CyclesPaired
<1>. QED
  BY <1>1, <1>2, <1>3, <1>4, <1>5, <1>6, <1>7, <1>8, <1>9, <1>10, <1>11, <1>12,
     <1>13

LEMMA FindsFinishedKeeps ==
    ASSUME IInv, NEW r \in Runs, FindsFinished(r)
    PROVE  IInv'
<1>. USE DEF IInv, FindsFinished, Goto, database, backups, disk, run, history
<1>1. Flags' /\ Amounts' /\ SetTypes' /\ LogTypes' /\ PromotedOnce' /\ Named'
  BY DEF Flags, Amounts, SetTypes, LogTypes, PromotedOnce, Named, Published
<1>2. PromotedIsRecoverable'
  BY DEF PromotedIsRecoverable
<1>3. AnswersAreTrue'
  BY DEF AnswersAreTrue, Contiguous
<1>4. LogKept'
  BY DEF LogKept
<1>5. CyclesPaired'
  BY DEF CyclesPaired
<1>6. RunTypes'
  BY DEF RunTypes, Labels, Kinds, Answers
<1>7. Bound'
  BY DEF Bound
<1>8. Exclusive'
  BY DEF Exclusive, Holding
<1>9. Spared'
  BY DEF Spared, Checked
<1>10. Prepared'
  BY DEF Prepared
<1>11. FirstCycle'
  BY DEF FirstCycle
<1>12. Unwritten'
  BY DEF Unwritten
<1>13. AboutToTake'
  BY DEF AboutToTake, About, Published
<1>. QED
  BY <1>1, <1>2, <1>3, <1>4, <1>5, <1>6, <1>7, <1>8, <1>9, <1>10, <1>11, <1>12,
     <1>13

LEMMA ConfirmKeeps ==
    ASSUME IInv, NEW r \in Runs, Confirm(r)
    PROVE  IInv'
<1>. USE DEF IInv, Confirm, Ends, Goto, database, backups, disk, run, history
<1>1. Flags' /\ Amounts' /\ SetTypes' /\ LogTypes' /\ PromotedOnce' /\ Named'
  BY DEF Flags, Amounts, SetTypes, LogTypes, PromotedOnce, Named, Published
<1>2. PromotedIsRecoverable'
  BY DEF PromotedIsRecoverable
<1>3. LogKept'
  BY DEF LogKept
<1>4. CyclesPaired'
  BY DEF CyclesPaired
<1>5. RunTypes'
  BY DEF RunTypes, Labels, Kinds, Answers
<1>6. Bound'
  BY DEF Bound
<1>7. Exclusive'
  BY DEF Exclusive, Holding
<1>8. Spared'
  BY DEF Spared, Checked
<1>9. Prepared'
  BY DEF Prepared
<1>10. FirstCycle'
  BY DEF FirstCycle, RunTypes, Labels, Kinds, Answers
<1>11. AnswersAreTrue'
  <2>1. Contiguous(plan[r], path[r])
    BY DEF Valid, Finished
  <2>. QED
    BY <2>1 DEF AnswersAreTrue, RunTypes, Contiguous
<1>12. Unwritten'
  BY DEF Unwritten
<1>13. AboutToTake'
  BY DEF AboutToTake, About, Published
<1>. QED
  BY <1>1, <1>2, <1>3, <1>4, <1>5, <1>6, <1>7, <1>8, <1>9, <1>10, <1>11, <1>12,
     <1>13

LEMMA FailsKeeps ==
    ASSUME IInv, NEW r \in Runs, Fails(r)
    PROVE  IInv'
<1>. USE DEF IInv, Fails, Unlocks, Ends, Goto, Forgets, database, backups,
        disk, run, history
<1>1. Amounts' /\ LogTypes' /\ PromotedIsRecoverable' /\ LogKept' /\
      PromotedOnce'
  BY DEF Amounts, LogTypes, PromotedIsRecoverable, LogKept, PromotedOnce
<1>2. Flags'
  BY DEF Flags
<1>3. RunTypes'
  BY PlanTypes DEF RunTypes, Labels, Kinds, Answers
<1>4. SetTypes'
  BY DEF SetTypes
<1>5. Bound'
  BY DEF Bound, RunTypes, Labels, Kinds, Answers, SetTypes
<1>6. Exclusive'
  BY DEF Exclusive, Holding, RunTypes, Labels, Kinds, Answers, SetTypes
<1>7. Spared'
  BY DEF Spared, Checked, RunTypes, Labels, Kinds, Answers, Exclusive, Holding,
     Flags
<1>8. Prepared'
  BY DEF Prepared, RunTypes, Labels, Kinds, Answers
<1>9. FirstCycle'
  BY DEF FirstCycle, RunTypes, Labels, Kinds, Answers
<1>10. AnswersAreTrue'
  BY DEF AnswersAreTrue, Contiguous, FirstCycle, RunTypes, Labels, Kinds,
     Answers, Bound
<1>11. Unwritten'
  BY DEF Unwritten, RunTypes, Labels, Kinds, Answers, Exclusive, Holding, Bound
<1>12. Named'
  BY DEF Named, Published
<1>13. AboutToTake'
  BY DEF AboutToTake, About, Published, RunTypes, Labels, Kinds, Answers,
     Exclusive, Holding, Named
<1>14. CyclesPaired'
  BY DEF CyclesPaired
<1>. QED
  BY <1>1, <1>2, <1>3, <1>4, <1>5, <1>6, <1>7, <1>8, <1>9, <1>10, <1>11, <1>12,
     <1>13, <1>14

LEMMA DiesKeeps ==
    ASSUME IInv, NEW r \in Runs, Dies(r)
    PROVE  IInv'
<1>. USE DEF IInv, Dies, Unlocks, Goto, Forgets, database, backups, disk, run,
        history
<1>1. Flags' /\ Amounts' /\ LogTypes' /\ PromotedIsRecoverable' /\ LogKept' /\
      PromotedOnce'
  BY DEF Flags, Amounts, LogTypes, PromotedIsRecoverable, LogKept, PromotedOnce
<1>2. RunTypes'
  BY PlanTypes DEF RunTypes, Labels, Kinds, Answers
<1>3. SetTypes'
  BY DEF SetTypes
<1>4. Bound'
  BY DEF Bound, RunTypes, Labels, Kinds, Answers, SetTypes
<1>5. Exclusive'
  BY DEF Exclusive, Holding, RunTypes, Labels, Kinds, Answers, SetTypes
<1>6. Spared'
  BY DEF Spared, Checked, RunTypes, Labels, Kinds, Answers, Exclusive, Holding,
     Flags
<1>7. Prepared'
  BY DEF Prepared, RunTypes, Labels, Kinds, Answers
<1>8. FirstCycle'
  BY DEF FirstCycle
<1>9. AnswersAreTrue'
  BY DEF AnswersAreTrue, Contiguous, FirstCycle, RunTypes, Labels, Kinds,
     Answers, Bound
<1>10. Unwritten'
  BY DEF Unwritten, RunTypes, Labels, Kinds, Answers, Exclusive, Holding, Bound
<1>11. Named'
  BY DEF Named, Published
<1>12. AboutToTake'
  BY DEF AboutToTake, About, Published, RunTypes, Labels, Kinds, Answers,
     Exclusive, Holding, Named
<1>13. CyclesPaired'
  BY DEF CyclesPaired
<1>. QED
  BY <1>1, <1>2, <1>3, <1>4, <1>5, <1>6, <1>7, <1>8, <1>9, <1>10, <1>11, <1>12,
     <1>13

LEMMA AdministratorRestoresKeeps ==
    ASSUME IInv, AdministratorRestores
    PROVE  IInv'
<1>. USE DEF IInv, AdministratorRestores, database, backups, disk, run, history
<1>1. Amounts' /\ RunTypes' /\ SetTypes' /\ LogTypes' /\ Bound' /\ Exclusive'
      /\ Spared' /\ Prepared' /\ PromotedIsRecoverable' /\ FirstCycle' /\
      AnswersAreTrue' /\ Unwritten' /\ LogKept' /\ PromotedOnce' /\ Named' /\
      AboutToTake' /\ CyclesPaired'
  BY DEF Amounts, RunTypes, Labels, Kinds, Answers, SetTypes, LogTypes, Bound,
     Exclusive, Holding, Spared, Checked, Prepared, PromotedIsRecoverable,
     FirstCycle, AnswersAreTrue, Contiguous, Unwritten, LogKept, PromotedOnce,
     Named, Published, AboutToTake, About, CyclesPaired
<1>2. Flags'
  BY DEF Flags
<1>. QED
  BY <1>1, <1>2

LEMMA AdministratorOpensKeeps ==
    ASSUME IInv, AdministratorOpens
    PROVE  IInv'
<1>. USE DEF IInv, AdministratorOpens, database, backups, disk, run, history
<1>1. Amounts' /\ SetTypes' /\ LogTypes' /\ Bound' /\ Prepared' /\
      PromotedIsRecoverable' /\ FirstCycle' /\ AnswersAreTrue' /\ LogKept' /\
      PromotedOnce' /\ Named' /\ CyclesPaired'
  BY DEF Amounts, SetTypes, LogTypes, Bound, Prepared, PromotedIsRecoverable,
     FirstCycle, AnswersAreTrue, Contiguous, LogKept, PromotedOnce, Named,
     Published, CyclesPaired
<1>2. Flags'
  BY DEF Flags
<1>3. RunTypes'
  BY DEF RunTypes, Labels, Kinds, Answers
<1>4. Exclusive'
  BY DEF Exclusive, Holding
<1>5. Spared'
  BY DEF Spared, Checked
<1>6. Unwritten'
  BY DEF Unwritten
<1>7. AboutToTake'
  BY DEF AboutToTake, About, Published
<1>. QED
  BY <1>1, <1>2, <1>3, <1>4, <1>5, <1>6, <1>7

LEMMA WorkBeginsKeeps ==
    ASSUME IInv, WorkBegins
    PROVE  IInv'
<1>. USE DEF IInv, WorkBegins, database, backups, disk, run, history
<1>1. Amounts' /\ RunTypes' /\ LogTypes' /\ Bound' /\ Exclusive' /\ Prepared'
      /\ PromotedIsRecoverable' /\ FirstCycle' /\ AnswersAreTrue' /\ Unwritten'
      /\ LogKept' /\ PromotedOnce' /\ Named' /\ AboutToTake' /\ CyclesPaired'
  BY DEF Amounts, RunTypes, Labels, Kinds, Answers, LogTypes, Bound, Exclusive,
     Holding, Prepared, PromotedIsRecoverable, FirstCycle, AnswersAreTrue,
     Contiguous, Unwritten, LogKept, PromotedOnce, Named, Published,
     AboutToTake, About, CyclesPaired
<1>2. Flags'
  BY DEF Flags
<1>3. SetTypes'
  BY DEF SetTypes, Checked
<1>4. Spared'
  BY DEF Spared, Checked
<1>. QED
  BY <1>1, <1>2, <1>3, <1>4

LEMMA WorkEndsKeeps ==
    ASSUME IInv, WorkEnds
    PROVE  IInv'
<1>. USE DEF IInv, WorkEnds, database, backups, disk, run, history
<1>1. Amounts' /\ RunTypes' /\ LogTypes' /\ Bound' /\ Exclusive' /\ Prepared'
      /\ PromotedIsRecoverable' /\ FirstCycle' /\ AnswersAreTrue' /\ Unwritten'
      /\ LogKept' /\ PromotedOnce' /\ Named' /\ AboutToTake' /\ CyclesPaired'
  BY DEF Amounts, RunTypes, Labels, Kinds, Answers, LogTypes, Bound, Exclusive,
     Holding, Prepared, PromotedIsRecoverable, FirstCycle, AnswersAreTrue,
     Contiguous, Unwritten, LogKept, PromotedOnce, Named, Published,
     AboutToTake, About, CyclesPaired
<1>2. Flags'
  BY DEF Flags
<1>3. SetTypes'
  BY DEF SetTypes
<1>4. Spared'
  BY DEF Spared, Checked
<1>. QED
  BY <1>1, <1>2, <1>3, <1>4

LEMMA OutsideBackupKeeps ==
    ASSUME IInv, OutsideBackup
    PROVE  IInv'
<1>. USE DEF IInv, OutsideBackup, Outside, database, backups, disk, run,
        history
<1>1. Unnamed(NoPath) \in LogSets
  BY PlanTypes DEF Unnamed, LogSet, LogSets
<1>2. /\ log' \in Seq(LogSets) /\ Len(log) \in Nat
      /\ Len(log') = Len(log) + 1
      /\ \A i \in 1 .. Len(log) : log'[i] = log[i]
      /\ log'[Len(log) + 1] = Unnamed(NoPath)
      /\ DOMAIN log = 1 .. Len(log) /\ DOMAIN log' = 1 .. Len(log) + 1
  BY <1>1, Appended DEF LogTypes
<1>3. Flags' /\ RunTypes' /\ Bound' /\ Exclusive' /\ Spared' /\ Prepared' /\
      PromotedIsRecoverable' /\ FirstCycle' /\ Unwritten' /\ PromotedOnce'
  BY DEF Flags, RunTypes, Labels, Kinds, Answers, Bound, Exclusive, Holding,
     Spared, Checked, Prepared, PromotedIsRecoverable, FirstCycle, Unwritten,
     PromotedOnce
<1>4. Amounts'
  BY LiveAssumption DEF Amounts, Contents
<1>5. SetTypes'
  BY DEF SetTypes
<1>6. LogTypes'
  BY <1>2 DEF LogTypes
<1>7. AnswersAreTrue'
  BY DEF AnswersAreTrue, Contiguous, FirstCycle, RunTypes, Labels, Kinds,
     Answers, Bound
<1>8. LogKept'
  BY <1>2, SMTT(20) DEF LogKept, Unnamed, LogSet
<1>9. Named'
  BY <1>2 DEF Named, Published, Unnamed, LogSet
<1>10. AboutToTake'
  <2>. SUFFICES ASSUME NEW r \in Runs
                PROVE  /\ About(r, 1) =>
                          /\ plan[r] \in Published
                          /\ \A i \in 1 .. Len(log') :
                                log'[i].cycle = 1 => log'[i].op # plan[r]
                       /\ About(r, 2) => \E j \in 1 .. Len(log') :
                          /\ log'[j] = First(plan[r], path[r])
                          /\ \A k \in j + 1 .. Len(log') :
                                log'[k] = Unnamed(NoPath)
    BY DEF AboutToTake, About, Published
  <2>1. About(r, 1) => plan[r] \in Published
    BY DEF AboutToTake
  <2>2. ASSUME About(r, 1), NEW i \in 1 .. Len(log'), log'[i].cycle = 1
        PROVE  log'[i].op # plan[r]
    BY <1>2, <2>2 DEF AboutToTake, Unnamed, LogSet
  <2>3. ASSUME About(r, 2)
        PROVE  \E j \in 1 .. Len(log') :
                    /\ log'[j] = First(plan[r], path[r])
                    /\ \A k \in j + 1 .. Len(log') : log'[k] = Unnamed(NoPath)
    <3>1. PICK j \in 1 .. Len(log) :
                /\ log[j] = First(plan[r], path[r])
                /\ \A k \in j + 1 .. Len(log) : log[k] = Unnamed(NoPath)
      BY <2>3 DEF AboutToTake
    <3>2. \A k \in j + 1 .. Len(log') : log'[k] = Unnamed(NoPath)
      BY <1>2, <3>1
    <3>. QED
      BY <1>2, <3>1, <3>2
  <2>. QED
    BY <2>1, <2>2, <2>3
<1>11. CyclesPaired'
  <2>1. ASSUME NEW i \in 1 .. Len(log) + 1, log'[i].cycle = 2
        PROVE  \E j \in 1 .. i - 1 :
                    /\ log'[j] = [log'[i] EXCEPT !.cycle = 1]
                    /\ \A k \in j + 1 .. i - 1 : log'[k] = Unnamed(NoPath)
    <3>1. CASE i \in 1 .. Len(log)
      <4>1. PICK j \in 1 .. i - 1 :
                /\ log[j] = [log[i] EXCEPT !.cycle = 1]
                /\ \A k \in j + 1 .. i - 1 : log[k] = Unnamed(NoPath)
        BY <1>2, <2>1, <3>1 DEF CyclesPaired
      <4>2. /\ j \in 1 .. Len(log)
            /\ \A k \in j + 1 .. i - 1 : k \in 1 .. Len(log)
        BY <1>2, <3>1
      <4>. QED
        BY <1>2, <3>1, <4>1, <4>2
    <3>2. CASE i = Len(log) + 1
      BY <1>2, <2>1, <3>2 DEF Unnamed, LogSet
    <3>. QED
      BY <1>2, <3>1, <3>2
  <2>2. ASSUME NEW i \in 1 .. Len(log) + 1, NEW j \in 1 .. Len(log) + 1,
               log'[i].cycle # 0, log'[i].op = log'[j].op,
               log'[i].cycle = log'[j].cycle
        PROVE  i = j
    <3>1. i \in 1 .. Len(log) /\ j \in 1 .. Len(log)
      BY <1>2, <2>2 DEF Unnamed, LogSet
    <3>. QED
      BY <1>2, <2>2, <3>1 DEF CyclesPaired
  <2>. QED
    BY <1>2, <2>1, <2>2 DEF CyclesPaired
<1>. QED
  BY <1>3, <1>4, <1>5, <1>6, <1>7, <1>8, <1>9, <1>10, <1>11

LEMMA OutsideStageKeeps ==
    ASSUME IInv, OutsideStage
    PROVE  IInv'
<1>. USE DEF IInv, OutsideStage, Outside, database, backups, disk, run, history
<1>1. Flags' /\ LogTypes' /\ Spared' /\ Prepared' /\ PromotedIsRecoverable' /\
      AnswersAreTrue' /\ Unwritten' /\ LogKept' /\ Named' /\ AboutToTake' /\
      CyclesPaired'
  BY DEF Flags, LogTypes, Spared, Checked, Prepared, PromotedIsRecoverable,
     AnswersAreTrue, Contiguous, Unwritten, LogKept, Named, Published,
     AboutToTake, About, CyclesPaired
<1>2. Amounts'
  BY LiveAssumption DEF Amounts, Contents
<1>3. RunTypes'
  BY DEF RunTypes, Labels, Kinds, Answers
<1>4. SetTypes'
  BY DEF SetTypes
<1>5. Bound'
  BY DEF Bound
<1>6. Exclusive'
  BY DEF Exclusive, Holding
<1>7. FirstCycle'
  BY DEF FirstCycle
<1>8. PromotedOnce'
  BY LiveAssumption DEF PromotedOnce, Amounts, Contents, SetTypes, Snapshots
<1>. QED
  BY <1>1, <1>2, <1>3, <1>4, <1>5, <1>6, <1>7, <1>8

LEMMA OutsideApplyKeeps ==
    ASSUME IInv, OutsideApply
    PROVE  IInv'
<1>. USE DEF IInv, OutsideApply, Outside, database, backups, disk, run, history
<1>1. Flags' /\ LogTypes' /\ Spared' /\ Prepared' /\ PromotedIsRecoverable' /\
      AnswersAreTrue' /\ Unwritten' /\ LogKept' /\ Named' /\ AboutToTake' /\
      CyclesPaired'
  BY DEF Flags, LogTypes, Spared, Checked, Prepared, PromotedIsRecoverable,
     AnswersAreTrue, Contiguous, Unwritten, LogKept, Named, Published,
     AboutToTake, About, CyclesPaired
<1>2. Amounts'
  BY LiveAssumption DEF Amounts, Contents
<1>3. RunTypes'
  BY DEF RunTypes, Labels, Kinds, Answers
<1>4. SetTypes'
  BY DEF SetTypes
<1>5. Bound'
  BY DEF Bound
<1>6. Exclusive'
  BY DEF Exclusive, Holding
<1>7. FirstCycle'
  BY DEF FirstCycle
<1>8. PromotedOnce'
  BY DEF PromotedOnce
<1>. QED
  BY <1>1, <1>2, <1>3, <1>4, <1>5, <1>6, <1>7, <1>8

LEMMA StutterKeeps ==
    ASSUME IInv, UNCHANGED vars
    PROVE  IInv'
  BY DEF IInv, vars, database, backups, disk, run, history, Flags, Amounts,
         RunTypes, SetTypes, LogTypes, Bound, Exclusive, Holding, Spared,
         Checked, Prepared, PromotedIsRecoverable, FirstCycle,
         AnswersAreTrue, Contiguous, Unwritten, LogKept, PromotedOnce, Named,
         Published, AboutToTake, About, CyclesPaired

-----------------------------------------------------------------------------
(* The invariant holds at first, and each step keeps it.                   *)
LEMMA InitIInv == Init => IInv
<1>. SUFFICES ASSUME Init
              PROVE  IInv
  OBVIOUS
<1>. USE DEF Init
<1>1. Flags
  BY DEF Flags
<1>2. Amounts
  BY LiveAssumption DEF Amounts, Contents
<1>3. RunTypes
  BY PlanTypes DEF RunTypes, Labels, Kinds, Answers
<1>4. SetTypes
  BY DEF SetTypes
<1>5. LogTypes
  BY DEF LogTypes
<1>6. Bound /\ Exclusive /\ Spared
  BY DEF Bound, Exclusive, Holding, Spared, Checked
<1>7. Prepared /\ PromotedIsRecoverable /\ FirstCycle /\ AnswersAreTrue
  BY DEF Prepared, PromotedIsRecoverable, FirstCycle, AnswersAreTrue
<1>8. Unwritten /\ LogKept /\ PromotedOnce /\ Named
  BY DEF Unwritten, LogKept, PromotedOnce, Named, Published
<1>9. AboutToTake /\ CyclesPaired
  BY DEF AboutToTake, About, CyclesPaired
<1>. QED
  BY <1>1, <1>2, <1>3, <1>4, <1>5, <1>6, <1>7, <1>8, <1>9 DEF IInv

LEMMA StepKeeps ==
    ASSUME IInv, NEW r \in Runs, Step(r)
    PROVE  IInv'
<1>1. CASE StageGuard(r)
  BY <1>1, StageGuardKeeps
<1>2. CASE Stage(r)
  BY <1>2, StageKeeps
<1>3. ASSUME NEW mode \in {"legacy", "checkpoint"}, NEW leave \in BOOLEAN,
             NEW t \in Tails, ReadInputs(r, mode, leave, t)
      PROVE  IInv'
  BY <1>3, ReadInputsKeeps
<1>4. ASSUME NEW a \in artifacts, NEW leave \in BOOLEAN, Resume(r, a, leave)
      PROVE  IInv'
  BY <1>4, ResumeKeeps
<1>5. CASE WriteRecovery(r)
  BY <1>5, WriteRecoveryKeeps
<1>6. CASE WriteLive(r)
  BY <1>6, WriteLiveKeeps
<1>7. CASE ScriptGuard(r)
  BY <1>7, ScriptGuardKeeps
<1>8. CASE Promote(r)
  BY <1>8, PromoteKeeps
<1>9. CASE SingleUser(r)
  BY <1>9, SingleUserKeeps
<1>10. CASE BackupLog(r)
  BY <1>10, BackupLogKeeps
<1>11. CASE Restore(r)
  BY <1>11, RestoreKeeps
<1>12. CASE MultiUser(r)
  BY <1>12, MultiUserKeeps
<1>13. CASE Reconnected(r)
  BY <1>13, ReconnectedKeeps
<1>14. CASE Verify(r)
  BY <1>14, VerifyKeeps
<1>15. CASE ContinueGuard(r)
  BY <1>15, ContinueGuardKeeps
<1>16. CASE FindsFinished(r)
  BY <1>16, FindsFinishedKeeps
<1>17. CASE Confirm(r)
  BY <1>17, ConfirmKeeps
<1>18. CASE Fails(r)
  BY <1>18, FailsKeeps
<1>19. CASE Dies(r)
  BY <1>19, DiesKeeps
<1>. QED
  BY <1>1, <1>2, <1>3, <1>4, <1>5, <1>6, <1>7, <1>8, <1>9, <1>10, <1>11,
     <1>12, <1>13, <1>14, <1>15, <1>16, <1>17, <1>18, <1>19 DEF Step

LEMMA NextKeeps ==
    ASSUME IInv, [Next]_vars
    PROVE  IInv'
<1>1. ASSUME NEW r \in Runs, Step(r)
      PROVE  IInv'
  BY <1>1, StepKeeps
<1>2. CASE AdministratorRestores
  BY <1>2, AdministratorRestoresKeeps
<1>3. CASE AdministratorOpens
  BY <1>3, AdministratorOpensKeeps
<1>4. CASE WorkBegins
  BY <1>4, WorkBeginsKeeps
<1>5. CASE WorkEnds
  BY <1>5, WorkEndsKeeps
<1>6. CASE OutsideBackup
  BY <1>6, OutsideBackupKeeps
<1>7. CASE OutsideStage
  BY <1>7, OutsideStageKeeps
<1>8. CASE OutsideApply
  BY <1>8, OutsideApplyKeeps
<1>9. CASE UNCHANGED vars
  BY <1>9, StutterKeeps
<1>. QED
  BY <1>1, <1>2, <1>3, <1>4, <1>5, <1>6, <1>7, <1>8, <1>9
     DEF Next, Environment

THEOREM Invariant == Spec => []IInv
<1>1. Init => IInv
  BY InitIInv
<1>2. IInv /\ [Next]_vars => IInv'
  BY NextKeeps
<1>. QED
  BY <1>1, <1>2, PTL DEF Spec

(* Every variable keeps its type, for any number of runs, paths, contents  *)
(* and outside steps.                                                      *)
THEOREM Typing == Spec => []TypeOK
<1>1. IInv => TypeOK
  <2>. SUFFICES ASSUME IInv
                PROVE  TypeOK
    OBVIOUS
  <2>1. 0 .. newest \subseteq Contents
    BY ContentNumbers DEF IInv, Amounts
  <2>. QED
    BY <2>1 DEF IInv, TypeOK, Flags, Amounts, RunTypes, SetTypes, LogTypes,
                LogSets, FileSets
<1>. QED
  BY <1>1, Invariant, PTL

(* What undoes and what continues a committed promotion is on disk,        *)
(* wherever a client of render_live_apply_script's batch died.             *)
THEOREM PromotionsRecoverable == Spec => []PromotedIsRecoverable
<1>1. IInv => PromotedIsRecoverable
  BY DEF IInv
<1>. QED
  BY <1>1, Invariant, PTL

(* A completed operation has both its sets in the log, one after the       *)
(* other, and a continuation tells whether it was the one that took the    *)
(* second (validate_and_continue).                                         *)
THEOREM AnswersHold == Spec => []AnswersAreTrue
<1>1. IInv => AnswersAreTrue
  BY DEF IInv
<1>. QED
  BY <1>1, Invariant, PTL

(* No log backup the tool took is lost from its file: INIT only ever       *)
(* overwrites what the guard found empty.                                  *)
THEOREM LogIsKept == Spec => []LogKept
<1>1. IInv => LogKept
  BY DEF IInv
<1>. QED
  BY <1>1, Invariant, PTL

(* No cycle is carried out twice, and a second one only after its first,   *)
(* whoever continues and however often.                                    *)
THEOREM PairedCycles == Spec => []CyclesPaired
<1>1. IInv => CyclesPaired
  BY DEF IInv
<1>. QED
  BY <1>1, Invariant, PTL

(* The switch to SINGLE_USER with ROLLBACK IMMEDIATE ends no work that was *)
(* open at the last check, unless the caller allowed it.                   *)
THEOREM SwitchSparesWork == Spec => WorkSpared
<1>1. IInv => \A r \in Runs :
            pc[r] = "single" /\ work => interrupt[r] \/ r \in late
  BY DEF IInv, Spared, Checked
<1>2. ASSUME IInv, [Next]_vars
      PROVE  [\A r \in Runs :
                 pc[r] = "single" /\ pc'[r] = "backup" /\ work
                    => interrupt[r] \/ r \in late]_vars
  BY <1>1, <1>2
<1>. QED
  BY <1>2, Invariant, PTL DEF Spec, WorkSpared

-----------------------------------------------------------------------------
(* An operation that is pending can be continued.                          *)

(* A run that takes the first set of its operation, or is about to.        *)
Begins(r) == pc[r] \in {"single", "backup"} /\ cycle[r] = 1

(* A run whose batch found no pending operation and goes on under the lock. *)
Clear(r) ==
    \/ pc[r] \in {"stage", "promote"} \/ Begins(r)
    \/ kind[r] = "legacy" /\ pc[r] \in Holding

(* What holds of such a run: nobody makes an operation pending beside it,  *)
(* its artifact names the file it writes, and what it promoted is in place *)
(* unless an outside program acted.                                        *)
Ready(r) ==
    /\ Clear(r) => Pending = {}
    /\ Begins(r) \/ pc[r] \in {"recovery", "live", "guard", "promote"}
            => kind[r] \in {"legacy", "checkpoint"}
    /\ kind[r] = "checkpoint" /\ (Begins(r) \/ pc[r] \in {"guard", "promote"})
            => [op |-> plan[r], file |-> path[r]] \in artifacts
    /\ kind[r] = "checkpoint" /\ Begins(r) /\ plan[r] \notin disturbed
            => stage = 0 /\ config = plan[r].new

(* The operation has its artifact, and the file that it names holds the    *)
(* first set, with which the log ends.                                     *)
Continuable(op) ==
    /\ stage = 0 /\ config = op.new
    /\ \E a \in artifacts : /\ a.op = op /\ ChainEnds(op, a.file)
                            /\ tail[a.file] = <<First(op, a.file)>>

CInv ==
    /\ \A r \in Runs : Ready(r)
    /\ \A op \in Pending \ disturbed : Continuable(op)

(* A step of one run that leaves the database and its log alone.           *)
LEMMA OthersReady ==
    ASSUME CInv, NEW r \in Runs, Ready(r)',
           UNCHANGED <<config, stage, log, tail, disturbed>>,
           artifacts \subseteq artifacts',
           \A q \in Runs \ {r} :
               /\ pc'[q] = pc[q] /\ kind'[q] = kind[q] /\ plan'[q] = plan[q]
               /\ path'[q] = path[q] /\ cycle'[q] = cycle[q]
    PROVE  CInv'
<1>1. Pending' = Pending
  BY DEF Pending, Taken
<1>2. \A q \in Runs \ {r} : Ready(q)'
  BY <1>1 DEF CInv, Ready, Begins, Clear
<1>3. \A op \in Pending' \ disturbed' : Continuable(op)'
  BY <1>1 DEF CInv, Continuable, ChainEnds, First, LogSet
<1>. QED
  BY <1>2, <1>3 DEF CInv

(* A step that leaves all of this alone.                                   *)
LEMMA UntouchedContinues ==
    ASSUME CInv,
           UNCHANGED <<config, stage, log, tail, disturbed, artifacts, pc,
                       kind, plan, path, cycle>>
    PROVE  CInv'
<1>1. Pending' = Pending
  BY DEF Pending, Taken
<1>2. \A q \in Runs : Ready(q)'
  BY <1>1 DEF CInv, Ready, Begins, Clear
<1>3. \A op \in Pending' \ disturbed' : Continuable(op)'
  BY <1>1 DEF CInv, Continuable, ChainEnds, First, LogSet
<1>. QED
  BY <1>2, <1>3 DEF CInv

(* What a run under the lock excludes of the others.                       *)
LEMMA OthersWait ==
    ASSUME IInv, NEW r \in Runs, pc[r] \in Holding
    PROVE  \A q \in Runs \ {r} : pc[q] \notin Holding
  BY DEF IInv, Exclusive

LEMMA StageGuardContinues ==
    ASSUME IInv, CInv, NEW r \in Runs, StageGuard(r)
    PROVE  CInv'
<1>. USE DEF StageGuard, Goto, Guarded, Locks, database, backups, disk, run,
        history
<1>1. Pending' = Pending
  BY DEF Pending, Taken
<1>2. Ready(r)'
  BY <1>1 DEF IInv, CInv, Ready, Begins, Clear, Holding, RunTypes, Bound,
     FirstCycle
<1>. QED
  BY <1>2, OthersReady DEF IInv, RunTypes

LEMMA ReadInputsContinues ==
    ASSUME IInv, CInv, NEW r \in Runs, NEW mode \in {"legacy", "checkpoint"},
           NEW leave \in BOOLEAN, NEW file \in Tails, ReadInputs(r, mode,
           leave, file)
    PROVE  CInv'
<1>. USE DEF ReadInputs, Goto, database, backups, disk, run, history
<1>1. Pending' = Pending
  BY DEF Pending, Taken
<1>2. Ready(r)'
  BY <1>1 DEF IInv, CInv, Ready, Begins, Clear, Holding, RunTypes, Bound,
     FirstCycle
<1>. QED
  BY <1>2, OthersReady DEF IInv, RunTypes

LEMMA WriteRecoveryContinues ==
    ASSUME IInv, CInv, NEW r \in Runs, WriteRecovery(r)
    PROVE  CInv'
<1>. USE DEF WriteRecovery, Goto, database, backups, disk, run, history
<1>1. Pending' = Pending
  BY DEF Pending, Taken
<1>2. Ready(r)'
  BY <1>1 DEF IInv, CInv, Ready, Begins, Clear, Holding, RunTypes, Bound,
     FirstCycle
<1>. QED
  BY <1>2, OthersReady DEF IInv, RunTypes

LEMMA WriteLiveContinues ==
    ASSUME IInv, CInv, NEW r \in Runs, WriteLive(r)
    PROVE  CInv'
<1>. USE DEF WriteLive, Goto, database, backups, disk, run, history
<1>1. Pending' = Pending
  BY DEF Pending, Taken
<1>2. Ready(r)'
  BY <1>1 DEF IInv, CInv, Ready, Begins, Clear, Holding, RunTypes, Bound,
     FirstCycle
<1>. QED
  BY <1>2, OthersReady DEF IInv, RunTypes

LEMMA ScriptGuardContinues ==
    ASSUME IInv, CInv, NEW r \in Runs, ScriptGuard(r)
    PROVE  CInv'
<1>. USE DEF ScriptGuard, Goto, Guarded, Locks, database, backups, disk, run,
        history
<1>1. Pending' = Pending
  BY DEF Pending, Taken
<1>2. Ready(r)'
  BY <1>1 DEF IInv, CInv, Ready, Begins, Clear, Holding, RunTypes, Bound,
     FirstCycle
<1>. QED
  BY <1>2, OthersReady DEF IInv, RunTypes

LEMMA SingleUserContinues ==
    ASSUME IInv, CInv, NEW r \in Runs, SingleUser(r)
    PROVE  CInv'
<1>. USE DEF SingleUser, Goto, database, backups, disk, run, history
<1>1. Pending' = Pending
  BY DEF Pending, Taken
<1>2. Ready(r)'
  BY <1>1 DEF IInv, CInv, Ready, Begins, Clear, Holding, RunTypes, Bound,
     FirstCycle
<1>. QED
  BY <1>2, OthersReady DEF IInv, RunTypes

LEMMA RestoreContinues ==
    ASSUME IInv, CInv, NEW r \in Runs, Restore(r)
    PROVE  CInv'
<1>. USE DEF Restore, Goto, database, backups, disk, run, history
<1>1. Pending' = Pending
  BY DEF Pending, Taken
<1>2. Ready(r)'
  BY <1>1 DEF IInv, CInv, Ready, Begins, Clear, Holding, RunTypes, Bound,
     FirstCycle
<1>. QED
  BY <1>2, OthersReady DEF IInv, RunTypes

LEMMA MultiUserContinues ==
    ASSUME IInv, CInv, NEW r \in Runs, MultiUser(r)
    PROVE  CInv'
<1>. USE DEF MultiUser, Goto, Ends, database, backups, disk, run, history
<1>1. Pending' = Pending
  BY DEF Pending, Taken
<1>2. Ready(r)'
  BY <1>1 DEF IInv, CInv, Ready, Begins, Clear, Holding, RunTypes, Bound,
     FirstCycle
<1>. QED
  BY <1>2, OthersReady DEF IInv, RunTypes

LEMMA ReconnectedContinues ==
    ASSUME IInv, CInv, NEW r \in Runs, Reconnected(r)
    PROVE  CInv'
<1>. USE DEF Reconnected, Goto, database, backups, disk, run, history
<1>1. Pending' = Pending
  BY DEF Pending, Taken
<1>2. Ready(r)'
  BY <1>1 DEF IInv, CInv, Ready, Begins, Clear, Holding, RunTypes, Bound,
     FirstCycle
<1>. QED
  BY <1>2, OthersReady DEF IInv, RunTypes

LEMMA ResumeContinues ==
    ASSUME IInv, CInv, NEW r \in Runs, NEW a \in artifacts, NEW leave \in
           BOOLEAN, Resume(r, a, leave)
    PROVE  CInv'
<1>. USE DEF Resume, Goto, database, backups, disk, run, history
<1>1. Pending' = Pending
  BY DEF Pending, Taken
<1>2. Ready(r)'
  BY <1>1 DEF IInv, CInv, Ready, Begins, Clear, Holding, RunTypes, Bound,
     FirstCycle
<1>. QED
  BY <1>2, OthersReady DEF IInv, RunTypes

LEMMA VerifyContinues ==
    ASSUME IInv, CInv, NEW r \in Runs, Verify(r)
    PROVE  CInv'
<1>. USE DEF Verify, Goto, Ends, database, backups, disk, run, history
<1>1. Pending' = Pending
  BY DEF Pending, Taken
<1>2. Ready(r)'
  BY <1>1 DEF IInv, CInv, Ready, Begins, Clear, Holding, RunTypes, Bound,
     FirstCycle
<1>. QED
  BY <1>2, OthersReady DEF IInv, RunTypes

LEMMA ContinueGuardContinues ==
    ASSUME IInv, CInv, NEW r \in Runs, ContinueGuard(r)
    PROVE  CInv'
<1>. USE DEF ContinueGuard, Goto, Continues, Locks, database, backups, disk,
        run, history
<1>1. Pending' = Pending
  BY DEF Pending, Taken
<1>2. Ready(r)'
  BY <1>1 DEF IInv, CInv, Ready, Begins, Clear, Holding, RunTypes, Bound,
     FirstCycle
<1>. QED
  BY <1>2, OthersReady DEF IInv, RunTypes

LEMMA FindsFinishedContinues ==
    ASSUME IInv, CInv, NEW r \in Runs, FindsFinished(r)
    PROVE  CInv'
<1>. USE DEF FindsFinished, Goto, database, backups, disk, run, history
<1>1. Pending' = Pending
  BY DEF Pending, Taken
<1>2. Ready(r)'
  BY <1>1 DEF IInv, CInv, Ready, Begins, Clear, Holding, RunTypes, Bound,
     FirstCycle
<1>. QED
  BY <1>2, OthersReady DEF IInv, RunTypes

LEMMA ConfirmContinues ==
    ASSUME IInv, CInv, NEW r \in Runs, Confirm(r)
    PROVE  CInv'
<1>. USE DEF Confirm, Goto, Ends, database, backups, disk, run, history
<1>1. Pending' = Pending
  BY DEF Pending, Taken
<1>2. Ready(r)'
  BY <1>1 DEF IInv, CInv, Ready, Begins, Clear, Holding, RunTypes, Bound,
     FirstCycle
<1>. QED
  BY <1>2, OthersReady DEF IInv, RunTypes

LEMMA FailsContinues ==
    ASSUME IInv, CInv, NEW r \in Runs, Fails(r)
    PROVE  CInv'
<1>. USE DEF Fails, Goto, Ends, Forgets, database, backups, disk, run, history
<1>1. Pending' = Pending
  BY DEF Pending, Taken
<1>2. Ready(r)'
  BY <1>1 DEF IInv, CInv, Ready, Begins, Clear, Holding, RunTypes, Bound,
     FirstCycle
<1>. QED
  BY <1>2, OthersReady DEF IInv, RunTypes

LEMMA DiesContinues ==
    ASSUME IInv, CInv, NEW r \in Runs, Dies(r)
    PROVE  CInv'
<1>. USE DEF Dies, Goto, Forgets, database, backups, disk, run, history
<1>1. Pending' = Pending
  BY DEF Pending, Taken
<1>2. Ready(r)'
  BY <1>1 DEF IInv, CInv, Ready, Begins, Clear, Holding, RunTypes, Bound,
     FirstCycle
<1>. QED
  BY <1>2, OthersReady DEF IInv, RunTypes

(* Staging and promotion change the configuration, with nothing pending.   *)
LEMMA StageContinues ==
    ASSUME IInv, CInv, NEW r \in Runs, Stage(r)
    PROVE  CInv'
<1>. USE DEF Stage, Ends, Goto, database, backups, disk, run, history
<1>1. Pending' = {}
  <2>1. Pending = {}
    BY DEF CInv, Ready, Clear
  <2>. QED
    BY <2>1 DEF Pending, Taken
<1>2. \A q \in Runs \ {r} : pc[q] \notin Holding /\ pc'[q] = pc[q]
  BY OthersWait DEF Holding, IInv, RunTypes
<1>3. pc'[r] = "done"
  BY DEF IInv, RunTypes
<1>4. \A q \in Runs : Ready(q)'
  BY <1>1, <1>2, <1>3 DEF CInv, Ready, Begins, Clear, Holding
<1>. QED
  BY <1>1, <1>4 DEF CInv

LEMMA PromoteContinues ==
    ASSUME IInv, CInv, NEW r \in Runs, Promote(r)
    PROVE  CInv'
<1>. USE DEF Promote, Promotes, Current, Goto, database, backups, disk, run,
        history
<1>1. Pending' = {}
  <2>1. Pending = {}
    BY DEF CInv, Ready, Clear
  <2>. QED
    BY <2>1 DEF Pending, Taken
<1>2. \A q \in Runs \ {r} : pc[q] \notin Holding /\ pc'[q] = pc[q]
  BY OthersWait DEF Holding, IInv, RunTypes
<1>3. \A q \in Runs \ {r} : Ready(q)'
  BY <1>1, <1>2 DEF CInv, Ready, Begins, Clear, Holding
<1>4. Ready(r)'
  <2>1. pc'[r] = "single" /\ stage' = 0 /\ config' = plan[r].new
    BY DEF IInv, RunTypes
  <2>2. /\ kind[r] \in {"legacy", "checkpoint"}
        /\ kind[r] = "checkpoint"
                => [op |-> plan[r], file |-> path[r]] \in artifacts
    BY DEF CInv, Ready
  <2>. QED
    BY <1>1, <2>1, <2>2 DEF Ready
<1>. QED
  BY <1>1, <1>3, <1>4 DEF CInv

(* A log set that names no operation makes none pending, nor ends one.     *)
LEMMA UnnamedPends ==
    ASSUME log \in Seq(LogSets), NEW file \in Tails \union {NoPath},
           log' = Append(log, Unnamed(file))
    PROVE  Pending' = Pending
<1>1. Unnamed(file) \in LogSets /\ Unnamed(file).cycle = 0
  BY PlanTypes DEF Unnamed, LogSet, LogSets
<1>2. /\ Len(log) \in Nat /\ DOMAIN log = 1 .. Len(log)
      /\ DOMAIN log' = 1 .. Len(log) + 1
      /\ \A i \in 1 .. Len(log) : log'[i] = log[i]
      /\ log'[Len(log) + 1] = Unnamed(file)
  BY <1>1, Appended
<1>3. ASSUME NEW op \in Snapshots, NEW n \in {1, 2}
      PROVE  Taken(op, n)' <=> Taken(op, n)
  BY <1>1, <1>2 DEF Taken
<1>. QED
  BY <1>3 DEF Pending

(* A named one adds a set of its own operation and no other.               *)
LEMMA NamedPends ==
    ASSUME IInv, NEW r \in Runs, BackupLog(r), kind[r] # "legacy"
    PROVE  /\ Taking(r) = LogSet(plan[r], cycle[r], path[r])
           /\ Taken(plan[r], cycle[r])'
           /\ \A op \in Pending' : op \in Pending
                                    \/ (op = plan[r] /\ cycle[r] = 1)
<1>1. /\ Taking(r) = LogSet(plan[r], cycle[r], path[r])
      /\ Taking(r).op = plan[r] /\ Taking(r).cycle = cycle[r]
  BY DEF Taking, LogSet
<1>2. /\ Len(log) \in Nat /\ DOMAIN log = 1 .. Len(log)
      /\ DOMAIN log' = 1 .. Len(log) + 1
      /\ \A i \in 1 .. Len(log) : log'[i] = log[i]
      /\ log'[Len(log) + 1] = Taking(r)
  BY BackupLogGrows DEF Grows
<1>3. Taken(plan[r], cycle[r])'
  <2>1. plan' = plan /\ cycle' = cycle
    BY DEF BackupLog
  <2>. QED
    BY <1>1, <1>2, <2>1 DEF Taken
<1>4. ASSUME NEW op \in Pending', op \notin Pending
      PROVE  op = plan[r] /\ cycle[r] = 1
  <2>1. op \in Snapshots /\ Taken(op, 1)' /\ ~Taken(op, 2)'
    BY <1>4 DEF Pending
  <2>2. ~Taken(op, 2)
    BY <1>2, <2>1 DEF Taken
  <2>3. ~Taken(op, 1)
    BY <1>4, <2>1, <2>2 DEF Pending
  <2>. QED
    BY <1>1, <1>2, <2>1, <2>3 DEF Taken
<1>. QED
  BY <1>1, <1>3, <1>4

LEMMA BackupLogContinues ==
    ASSUME IInv, CInv, NEW r \in Runs, BackupLog(r)
    PROVE  CInv'
<1>1. \A q \in Runs \ {r} : pc[q] \notin Holding /\ pc'[q] = pc[q]
  BY OthersWait DEF BackupLog, Goto, Holding, IInv, RunTypes
<1>2. /\ pc'[r] = "restore" /\ path[r] \in Tails
      /\ UNCHANGED <<config, stage, artifacts, disturbed, kind, plan, path>>
  BY DEF BackupLog, Goto, IInv, RunTypes, Bound, disk, history
<1>3. \A q \in Runs \ {r} : Ready(q)'
  BY <1>1, <1>2 DEF CInv, Ready, Begins, Clear, Holding
<1>4. CASE kind[r] = "legacy"
  <2>1. Pending = {}
    BY <1>4 DEF CInv, Ready, Clear, BackupLog, Holding
  <2>2. Pending' = {}
    BY <1>2, <1>4, <2>1, UnnamedPends DEF BackupLog, Taking, IInv, LogTypes
  <2>3. Ready(r)'
    BY <1>2, <2>2 DEF Ready, Begins
  <2>. QED
    BY <1>3, <2>2, <2>3 DEF CInv
<1>5. CASE kind[r] # "legacy"
  <2>1. Ready(r)'
    BY <1>2, <1>5 DEF Ready, Begins, Clear
  <2>2. /\ Taking(r) = LogSet(plan[r], cycle[r], path[r])
        /\ Taken(plan[r], cycle[r])'
        /\ \A op \in Pending' : op \in Pending
                                 \/ (op = plan[r] /\ cycle[r] = 1)
    BY <1>5, NamedPends
  <2>3. /\ log \in Seq(LogSets) /\ Len(log) \in Nat
        /\ Len(log') = Len(log) + 1 /\ log'[Len(log) + 1] = Taking(r)
    BY BackupLogGrows DEF Grows
  <2>4. CASE cycle[r] = 1
    <3>1. Begins(r) /\ Pending = {} /\ kind[r] = "checkpoint"
      BY <1>5, <2>4 DEF CInv, Ready, Clear, Begins, BackupLog
    <3>2. tail'[path[r]] = <<First(plan[r], path[r])>>
      BY <1>2, <2>2, <2>4 DEF BackupLog, FileAfter, First, IInv, LogTypes
    <3>3. ChainEnds(plan[r], path[r])'
      BY <1>2, <2>2, <2>3, <2>4 DEF ChainEnds, First
    <3>4. [op |-> plan[r], file |-> path[r]] \in artifacts'
      BY <1>2, <3>1 DEF CInv, Ready
    <3>5. plan[r] \notin disturbed => stage = 0 /\ config = plan[r].new
      BY <3>1 DEF CInv, Ready
    <3>6. ASSUME NEW op \in Pending' \ disturbed'
          PROVE  Continuable(op)'
      <4>1. op = plan[r]
        BY <2>2, <3>1, <3>6
      <4>2. stage' = 0 /\ config' = op.new
        BY <1>2, <3>5, <3>6, <4>1
      <4>3. PICK a \in artifacts' : a = [op |-> plan[r], file |-> path[r]]
        BY <3>4
      <4>4. a.op = op /\ a.file = path[r]
        BY <4>1, <4>3
      <4>5. ChainEnds(op, a.file)' /\ tail'[a.file] = <<First(op, a.file)>>
        BY <1>2, <3>2, <3>3, <4>1, <4>4 DEF ChainEnds
      <4>. QED
        BY <4>2, <4>4, <4>5 DEF Continuable
    <3>. QED
      BY <1>3, <2>1, <3>6 DEF CInv
  <2>5. CASE cycle[r] # 1
    <3>1. cycle[r] = 2 /\ About(r, 2)
      BY <1>5, <2>5 DEF About, IInv, RunTypes, BackupLog
    <3>2. PICK j \in 1 .. Len(log) :
              /\ log[j] = First(plan[r], path[r])
              /\ \A k \in j + 1 .. Len(log) : log[k] = Unnamed(NoPath)
      BY <3>1 DEF IInv, AboutToTake
    <3>3. ASSUME NEW op \in Pending' \ disturbed'
          PROVE  FALSE
      <4>1. op \in Pending \ disturbed
        BY <1>2, <2>2, <2>5, <3>3
      <4>2. PICK a \in artifacts : log[Len(log)] = First(op, a.file)
        BY <4>1 DEF CInv, Continuable, ChainEnds
      <4>3. log[Len(log)].cycle = 1 /\ log[Len(log)].op = op
        BY <4>2 DEF First, LogSet
      <4>4. j = Len(log)
        <5>1. CASE j # Len(log)
          <6>1. log[Len(log)] = Unnamed(NoPath)
            BY <2>3, <3>2, <5>1
          <6>. QED
            BY <4>3, <6>1 DEF Unnamed, LogSet
        <5>. QED
          BY <5>1
      <4>5. op = plan[r]
        BY <3>2, <4>3, <4>4 DEF First, LogSet
      <4>6. ~Taken(op, 2)'
        BY <3>3 DEF Pending
      <4>7. cycle' = cycle /\ plan' = plan
        BY <1>2 DEF BackupLog
      <4>. QED
        BY <2>2, <3>1, <4>5, <4>6, <4>7 DEF Taken
    <3>. QED
      BY <1>3, <2>1, <3>3 DEF CInv
  <2>. QED
    BY <2>4, <2>5
<1>. QED
  BY <1>4, <1>5

(* After a step of an outside program nothing that was promoted counts.    *)
LEMMA OutsideContinues ==
    ASSUME IInv, CInv, Outside, Pending' = Pending, UNCHANGED tail
    PROVE  CInv'
<1>1. disturbed' = disturbed \union Published
  BY DEF Outside, Published
<1>2. \A op \in Pending : op \in Published
  BY DEF Pending, Taken, IInv, Named, LogTypes
<1>3. \A op \in Pending' \ disturbed' : Continuable(op)'
  BY <1>1, <1>2
<1>4. ASSUME NEW r \in Runs
      PROVE  Ready(r)'
  <2>1. UNCHANGED <<pc, kind, plan, path, cycle, artifacts>>
    BY DEF Outside, run, disk
  <2>2. kind[r] = "checkpoint" /\ Begins(r) => plan[r] \in Published
    BY DEF Begins, IInv, AboutToTake, About
  <2>. QED
    BY <1>1, <2>1, <2>2 DEF CInv, Ready, Begins, Clear
<1>. QED
  BY <1>3, <1>4 DEF CInv

LEMMA EnvironmentContinues ==
    ASSUME IInv, CInv, Environment
    PROVE  CInv'
<1>1. CASE OutsideBackup
  <2>1. Pending' = Pending
    BY <1>1, UnnamedPends DEF OutsideBackup, IInv, LogTypes
  <2>. QED
    BY <1>1, <2>1, OutsideContinues DEF OutsideBackup
<1>2. CASE OutsideStage \/ OutsideApply
  <2>1. Pending' = Pending
    BY <1>2 DEF OutsideStage, OutsideApply, backups, Pending, Taken
  <2>. QED
    BY <1>2, <2>1, OutsideContinues DEF OutsideStage, OutsideApply, backups
<1>3. CASE \/ AdministratorRestores \/ AdministratorOpens
           \/ WorkBegins \/ WorkEnds
  BY <1>3, UntouchedContinues DEF AdministratorRestores, AdministratorOpens,
     WorkBegins, WorkEnds, backups, disk, run, history
<1>. QED
  BY <1>1, <1>2, <1>3 DEF Environment

LEMMA StepContinues ==
    ASSUME IInv, CInv, NEW r \in Runs, Step(r)
    PROVE  CInv'
<1>1. CASE \/ StageGuard(r) \/ Stage(r) \/ WriteRecovery(r) \/ WriteLive(r)
           \/ ScriptGuard(r) \/ Promote(r) \/ SingleUser(r) \/ BackupLog(r)
  BY <1>1, StageGuardContinues, StageContinues, WriteRecoveryContinues,
     WriteLiveContinues, ScriptGuardContinues, PromoteContinues,
     SingleUserContinues, BackupLogContinues
<1>2. CASE \/ Restore(r) \/ MultiUser(r) \/ Reconnected(r) \/ Verify(r)
           \/ ContinueGuard(r) \/ FindsFinished(r) \/ Confirm(r)
           \/ Fails(r) \/ Dies(r)
  BY <1>2, RestoreContinues, MultiUserContinues, ReconnectedContinues,
     VerifyContinues, ContinueGuardContinues, FindsFinishedContinues,
     ConfirmContinues, FailsContinues, DiesContinues
<1>3. CASE \E mode \in {"legacy", "checkpoint"}, leave \in BOOLEAN, t \in Tails :
               ReadInputs(r, mode, leave, t)
  BY <1>3, ReadInputsContinues
<1>4. CASE \E a \in artifacts, leave \in BOOLEAN : Resume(r, a, leave)
  BY <1>4, ResumeContinues
<1>. QED
  BY <1>1, <1>2, <1>3, <1>4 DEF Step

LEMMA NextContinues ==
    ASSUME IInv, CInv, [Next]_vars
    PROVE  CInv'
<1>1. CASE UNCHANGED vars
  BY <1>1, UntouchedContinues DEF vars, database, backups, disk, run, history
<1>. QED
  BY <1>1, EnvironmentContinues, StepContinues DEF Next

LEMMA InitContinues == Init => CInv
<1>. SUFFICES ASSUME Init PROVE CInv
  OBVIOUS
<1>1. Pending = {}
  BY DEF Init, Pending, Taken
<1>. QED
  BY <1>1 DEF Init, CInv, Ready, Begins, Clear, Holding

(* With any number of runs that stage, activate, continue, fail or die at  *)
(* any statement, an operation left between its two cycles stays one that  *)
(* `mssql-live-continue` accepts, unless a program outside the tool acted  *)
(* since its promotion (mssql_live, guard_pending_live and the checks of   *)
(* the continuation).                                                      *)
THEOREM PendingContinues == Spec => []PendingCanContinue
<1>1. Init => IInv /\ CInv
  BY InitIInv, InitContinues
<1>2. (IInv /\ CInv) /\ [Next]_vars => (IInv /\ CInv)'
  BY NextKeeps, NextContinues
<1>3. CInv => PendingCanContinue
  BY DEF CInv, Continuable, PendingCanContinue, Valid
<1>. QED
  BY <1>1, <1>2, <1>3, PTL DEF Spec

-----------------------------------------------------------------------------
(* The runs do what LiveOperations allows.                                 *)

Completed == {op \in Snapshots : Taken(op, 2)}

Reports(r) ==
    kind[r] # "legacy" /\ answer[r] \in {"complete", "already_complete"}

Told == {plan[r] : r \in {q \in Runs : Reports(q)}}

OnePending == \A a, b \in Pending : a = b

Seen == <<config, Published, Pending, Completed, Told>>

LEMMA SeenIsMapped == Operations!vars = Seen
  BY DEF Operations!vars, Seen, Published, Completed, Told, Reports

(* Only the log tells how far an operation is.                             *)
LEMMA LogTells ==
    ASSUME UNCHANGED log
    PROVE  Pending' = Pending /\ Completed' = Completed
  BY DEF Pending, Completed, Taken

(* A step of a run that reports nothing is not seen of its answer.         *)
LEMMA NothingReported ==
    ASSUME IInv, NEW r \in Runs, pc[r] # "done", ~Reports(r)',
           \A q \in Runs \ {r} : /\ kind'[q] = kind[q] /\ plan'[q] = plan[q]
                                 /\ answer'[q] = answer[q]
    PROVE  Told' = Told
<1>1. ~Reports(r)
  BY DEF IInv, FirstCycle, Reports
<1>2. {q \in Runs : Reports(q)}' = {q \in Runs : Reports(q)}
  BY <1>1 DEF Reports
<1>3. \A q \in {p \in Runs : Reports(p)} : plan'[q] = plan[q]
  BY <1>1
<1>. QED
  BY <1>2, <1>3 DEF Told

(* ... and one that reports adds its operation.                            *)
LEMMA Reported ==
    ASSUME IInv, NEW r \in Runs, pc[r] # "done", Reports(r)', plan' = plan,
           \A q \in Runs \ {r} : kind'[q] = kind[q] /\ answer'[q] = answer[q]
    PROVE  Told' = Told \cup {plan[r]}
<1>1. {q \in Runs : Reports(q)}' = {q \in Runs : Reports(q)} \cup {r}
  BY DEF Reports
<1>. QED
  BY <1>1 DEF Told

(* Most steps are not seen.                                                *)
LEMMA Unseen ==
    ASSUME UNCHANGED <<config, promoted, log>>, Told' = Told
    PROVE  UNCHANGED Operations!vars
<1>1. UNCHANGED Seen
  BY LogTells DEF Seen, Published
<1>. QED
  BY <1>1, SeenIsMapped DEF Operations!vars, Published, Completed, Told,
     Reports, Seen

LEMMA QuietSteps ==
    ASSUME IInv, NEW r \in Runs,
           \/ StageGuard(r) \/ Stage(r) \/ WriteRecovery(r) \/ WriteLive(r)
           \/ \E mode \in {"legacy", "checkpoint"}, leave \in BOOLEAN,
                 t \in Tails : ReadInputs(r, mode, leave, t)
           \/ ScriptGuard(r) \/ SingleUser(r) \/ Restore(r) \/ MultiUser(r)
           \/ Reconnected(r)
           \/ \E a \in artifacts, leave \in BOOLEAN : Resume(r, a, leave)
           \/ ContinueGuard(r) \/ FindsFinished(r) \/ Fails(r) \/ Dies(r)
    PROVE  UNCHANGED Operations!vars
<1>. USE DEF IInv, RunTypes, Ends, Goto, Forgets, database, backups, disk,
        run, history
<1>1. answer[r] = "none" \/ pc[r] = "done"
  BY DEF FirstCycle
<1>2. CASE \/ StageGuard(r) \/ Stage(r) \/ WriteRecovery(r) \/ WriteLive(r)
           \/ ScriptGuard(r) \/ SingleUser(r) \/ Restore(r)
  BY <1>1, <1>2, NothingReported, Unseen DEF StageGuard, Stage, WriteRecovery,
     WriteLive, ScriptGuard, SingleUser, Restore, Reports
<1>3. CASE MultiUser(r)
  BY <1>1, <1>3, NothingReported, Unseen DEF MultiUser, Reports
<1>4. CASE \/ Reconnected(r) \/ ContinueGuard(r) \/ FindsFinished(r)
           \/ Fails(r) \/ Dies(r)
  BY <1>1, <1>4, NothingReported, Unseen DEF Reconnected, ContinueGuard,
     Continues, FindsFinished, Fails, Dies, Reports
<1>5. ASSUME NEW mode \in {"legacy", "checkpoint"}, NEW leave \in BOOLEAN,
             NEW t \in Tails, ReadInputs(r, mode, leave, t)
      PROVE  UNCHANGED Operations!vars
  BY <1>1, <1>5, NothingReported, Unseen DEF ReadInputs, Reports
<1>6. ASSUME NEW a \in artifacts, NEW leave \in BOOLEAN, Resume(r, a, leave)
      PROVE  UNCHANGED Operations!vars
  BY <1>1, <1>6, NothingReported, Unseen DEF Resume, Reports
<1>. QED
  BY <1>2, <1>3, <1>4, <1>5, <1>6

(* A promotion publishes the operation of its run.                         *)
LEMMA PromotePublishes ==
    ASSUME IInv, CInv, NEW r \in Runs, Promote(r)
    PROVE  Operations!Next
<1>. USE DEF Promote, Promotes, Current, Goto, database, backups, disk, run,
        history
<1>1. plan[r] \in Snapshots /\ plan[r] = [old |-> config, new |-> stage]
  BY DEF IInv, RunTypes, Snapshots
<1>2. plan[r].old = config /\ plan[r].new = stage
  OBVIOUS
<1>3. Pending = {}
  BY DEF CInv, Ready, Clear
<1>4. Told' = Told
  BY NothingReported DEF IInv, FirstCycle, Reports
<1>5. Pending' = Pending /\ Completed' = Completed
  BY LogTells
<1>6. Published' = Published \cup {plan[r]}
  <2>1. promoted' = promoted \union {[op |-> plan[r], by |-> kind[r]]}
    BY <1>1
  <2>2. \A p \in promoted' : p \in promoted \/ p.op = plan[r]
    BY <2>1
  <2>3. [op |-> plan[r], by |-> kind[r]].op = plan[r]
    OBVIOUS
  <2>. QED
    BY <2>1, <2>2, <2>3 DEF Published
<1>7. PICK op \in Operations!Operations : op = plan[r]
  BY <1>1 DEF Operations!Operations, Snapshots
<1>8. Operations!Publish(op)
  BY <1>2, <1>3, <1>4, <1>5, <1>6, <1>7 DEF Operations!Publish, Published,
     Completed, Told, Reports
<1>. QED
  BY <1>8 DEF Operations!Next

(* A log set that names no operation completes none.                       *)
LEMMA UnnamedCompletes ==
    ASSUME log \in Seq(LogSets), NEW file \in Tails \union {NoPath},
           log' = Append(log, Unnamed(file))
    PROVE  Completed' = Completed
<1>1. Unnamed(file) \in LogSets /\ Unnamed(file).cycle = 0
  BY PlanTypes DEF Unnamed, LogSet, LogSets
<1>2. /\ Len(log) \in Nat /\ DOMAIN log = 1 .. Len(log)
      /\ DOMAIN log' = 1 .. Len(log) + 1
      /\ \A i \in 1 .. Len(log) : log'[i] = log[i]
      /\ log'[Len(log) + 1] = Unnamed(file)
  BY <1>1, Appended
<1>3. ASSUME NEW op \in Snapshots
      PROVE  Taken(op, 2)' <=> Taken(op, 2)
  BY <1>1, <1>2 DEF Taken
<1>. QED
  BY <1>3 DEF Completed

(* A named set that is taken, and what was taken before it.                *)
LEMMA NamedTakes ==
    ASSUME IInv, NEW r \in Runs, BackupLog(r), kind[r] # "legacy"
    PROVE  \A op \in Snapshots, n \in {1, 2} :
                Taken(op, n)' <=> \/ Taken(op, n)
                                  \/ op = plan[r] /\ n = cycle[r]
<1>1. Taking(r).op = plan[r] /\ Taking(r).cycle = cycle[r]
  BY DEF Taking, LogSet
<1>2. /\ Len(log) \in Nat /\ DOMAIN log = 1 .. Len(log)
      /\ DOMAIN log' = 1 .. Len(log) + 1
      /\ \A i \in 1 .. Len(log) : log'[i] = log[i]
      /\ log'[Len(log) + 1] = Taking(r)
  BY BackupLogGrows DEF Grows
<1>3. ASSUME NEW op \in Snapshots, NEW n \in {1, 2}
      PROVE  Taken(op, n)' <=> \/ Taken(op, n)
                               \/ op = plan[r] /\ n = cycle[r]
  <2>1. Taken(op, n)' <=> \E i \in 1 .. Len(log) + 1 :
                            log'[i].op = op /\ log'[i].cycle = n
    BY <1>2 DEF Taken
  <2>2. Taken(op, n) <=> \E i \in 1 .. Len(log) :
                            log'[i].op = op /\ log'[i].cycle = n
    BY <1>2 DEF Taken
  <2>. QED
    BY <1>1, <1>2, <2>1, <2>2
<1>. QED
  BY <1>3

LEMMA BackupLogPublishes ==
    ASSUME IInv, CInv, OnePending, NEW r \in Runs, BackupLog(r)
    PROVE  [Operations!Next]_(Operations!vars)
<1>1. /\ pc[r] = "backup" /\ UNCHANGED <<config, promoted, answer, kind, plan>>
      /\ plan[r] \in Snapshots /\ cycle[r] \in {1, 2}
      /\ log' = Append(log, Taking(r))
  BY DEF BackupLog, history, IInv, RunTypes
<1>2. Told' = Told
  BY <1>1 DEF Told, Reports
<1>3. Published' = Published
  BY <1>1 DEF Published
<1>4. CASE kind[r] = "legacy"
  <2>1. Taking(r) = Unnamed(path[r]) /\ path[r] \in Tails
    BY <1>1, <1>4 DEF Taking, IInv, Bound
  <2>2. Pending' = Pending /\ Completed' = Completed
    BY <1>1, <2>1, UnnamedPends, UnnamedCompletes DEF IInv, LogTypes
  <2>3. UNCHANGED Seen
    BY <1>1, <1>2, <1>3, <2>2 DEF Seen
  <2>. QED
    BY <2>3, SeenIsMapped DEF Operations!vars, Published, Completed, Told,
       Reports, Seen
<1>5. CASE kind[r] # "legacy"
  <2>1. \A op \in Snapshots, n \in {1, 2} :
            Taken(op, n)' <=> \/ Taken(op, n)
                              \/ op = plan[r] /\ n = cycle[r]
    BY <1>5, NamedTakes
  <2>2. PICK op \in Operations!Operations : op = plan[r]
    BY <1>1 DEF Operations!Operations, Snapshots
  <2>3. ~Taken(plan[r], cycle[r])
    <3>1. /\ Taking(r).op = plan[r] /\ Taking(r).cycle = cycle[r]
          /\ Taking(r).cycle # 0
      BY <1>1, <1>5 DEF Taking, LogSet
    <3>2. DOMAIN log = 1 .. Len(log)
      BY DEF IInv, LogTypes
    <3>. QED
      BY <1>1, <3>1, <3>2, TakenOnce DEF Taken
  <2>4. plan[r] \in Published
    <3>1. Taking(r).cycle # 0
      BY <1>1, <1>5 DEF Taking, LogSet
    <3>. QED
      BY <1>1, <3>1, NamedTaken
  <2>5. CASE cycle[r] = 1
    <3>1. Pending = {}
      BY <1>1, <2>5 DEF CInv, Ready, Clear, Begins
    <3>2. ~Taken(plan[r], 2)
      <4>1. SUFFICES ASSUME NEW i \in 1 .. Len(log),
                            log[i].op = plan[r], log[i].cycle = 2
                     PROVE  FALSE
        BY DEF Taken, IInv, LogTypes
      <4>2. /\ log \in Seq(LogSets) /\ Len(log) \in Nat
            /\ DOMAIN log = 1 .. Len(log)
        BY DEF IInv, LogTypes
      <4>3. PICK j \in 1 .. i - 1 : log[j] = [log[i] EXCEPT !.cycle = 1]
        BY <4>1, <4>2 DEF IInv, CyclesPaired
      <4>4. log[i] \in LogSets /\ j \in DOMAIN log
        BY <4>2
      <4>5. log[j].op = plan[r] /\ log[j].cycle = 1
        BY <4>1, <4>3, <4>4 DEF LogSets
      <4>. QED
        BY <2>3, <2>5, <4>4, <4>5 DEF Taken
    <3>3. Completed' = Completed
      BY <2>1, <2>5 DEF Completed
    <3>4. Pending' = {plan[r]}
      <4>1. \A o \in Snapshots : o \in Pending' <=> o = plan[r]
        BY <1>1, <2>1, <2>5, <3>1, <3>2 DEF Pending
      <4>. QED
        BY <1>1, <4>1 DEF Pending
    <3>5. plan[r] \notin Completed
      BY <3>2 DEF Completed
    <3>6. Operations!Begin(op)
      BY <2>2, <1>1, <1>2, <1>3, <2>4, <3>1, <3>3, <3>4, <3>5
         DEF Operations!Begin, Published, Completed, Told, Reports
    <3>. QED
      BY <2>2, <3>6 DEF Operations!Next
  <2>6. CASE cycle[r] = 2
    <3>1. Taken(plan[r], 1)
      <4>1. PICK j \in 1 .. Len(log) : log[j] = First(plan[r], path[r])
        BY <1>1, <1>5, <2>6 DEF IInv, AboutToTake, About
      <4>2. DOMAIN log = 1 .. Len(log)
        BY DEF IInv, LogTypes
      <4>. QED
        BY <4>1, <4>2 DEF Taken, First, LogSet
    <3>2. plan[r] \in Pending
      BY <1>1, <2>3, <2>6, <3>1 DEF Pending
    <3>3. Pending = {plan[r]}
      BY <3>2 DEF OnePending
    <3>4. \A o \in Snapshots : o \notin Pending'
      BY <2>1, <2>6, <3>3 DEF Pending
    <3>5. Pending' = {}
      BY <3>4 DEF Pending
    <3>6. Completed' = Completed \cup {plan[r]}
      BY <1>1, <2>1, <2>6 DEF Completed
    <3>7. Operations!Complete(op)
      BY <2>2, <1>1, <1>2, <1>3, <3>3, <3>5, <3>6
         DEF Operations!Complete, Published, Completed, Told, Reports
    <3>. QED
      BY <2>2, <3>7 DEF Operations!Next
  <2>. QED
    BY <1>1, <2>5, <2>6
<1>. QED
  BY <1>4, <1>5

(* What a run finds finished was completed.                                *)
LEMMA FinishedIsComplete ==
    ASSUME IInv, NEW r \in Runs, Valid(plan[r], path[r]),
           Finished(plan[r], path[r])
    PROVE  plan[r] \in Completed
<1>1. tail[path[r]] # <<First(plan[r], path[r])>>
  BY DEF Finished
<1>2. PICK i \in 2 .. Len(log) : log[i] = Second(plan[r], path[r])
  BY <1>1 DEF Valid, Contiguous
<1>3. i \in DOMAIN log
  BY DEF IInv, LogTypes
<1>. QED
  BY <1>2, <1>3 DEF Completed, Taken, Second, LogSet, IInv, RunTypes

LEMMA ReportsComplete ==
    ASSUME IInv, NEW r \in Runs, Valid(plan[r], path[r]),
           Finished(plan[r], path[r]), pc[r] # "done", Reports(r)',
           UNCHANGED <<config, promoted, log, plan, kind>>,
           \A q \in Runs \ {r} : answer'[q] = answer[q]
    PROVE  Operations!Next
<1>1. plan[r] \in Completed /\ config = plan[r].new
  BY FinishedIsComplete DEF Valid
<1>2. Told' = Told \cup {plan[r]}
  BY Reported
<1>3. /\ Pending' = Pending /\ Completed' = Completed
      /\ Published' = Published
  BY LogTells DEF Published
<1>4. PICK op \in Operations!Operations : op = plan[r]
  BY DEF Operations!Operations, Snapshots, IInv, RunTypes
<1>5. Operations!Report(op)
  BY <1>1, <1>2, <1>3, <1>4 DEF Operations!Report, Published, Completed,
     Told, Reports
<1>. QED
  BY <1>5 DEF Operations!Next

LEMMA AnswersPublish ==
    ASSUME IInv, NEW r \in Runs, Verify(r) \/ Confirm(r)
    PROVE  [Operations!Next]_(Operations!vars)
<1>. USE DEF IInv, RunTypes, Ends, Goto, database, backups, disk, run, history
<1>1. kind[r] # "legacy"
  BY DEF Bound, Verify, Confirm
<1>2. CASE Verify(r) /\ ~Finished(plan[r], path[r])
  BY <1>2, NothingReported, Unseen DEF Verify, Reports, FirstCycle
<1>3. CASE Verify(r) /\ Finished(plan[r], path[r])
  BY <1>1, <1>3, ReportsComplete DEF Verify, Reports
<1>4. CASE Confirm(r)
  BY <1>1, <1>4, ReportsComplete DEF Confirm, Reports
<1>. QED
  BY <1>2, <1>3, <1>4

LEMMA EnvironmentPublishes ==
    ASSUME IInv, Environment
    PROVE  [Operations!Next]_(Operations!vars)
<1>1. Told' = Told
  BY DEF Environment, AdministratorRestores, AdministratorOpens, WorkBegins,
     WorkEnds, Outside, OutsideBackup, OutsideStage, OutsideApply, run, Told,
     Reports
<1>2. CASE \/ AdministratorRestores \/ AdministratorOpens
           \/ WorkBegins \/ WorkEnds \/ OutsideStage
  BY <1>1, <1>2, Unseen DEF AdministratorRestores, AdministratorOpens,
     WorkBegins, WorkEnds, Outside, OutsideStage, backups, history
<1>3. CASE OutsideBackup
  <2>1. /\ log' = Append(log, Unnamed(NoPath)) /\ log \in Seq(LogSets)
        /\ UNCHANGED <<config, promoted>>
    BY <1>3 DEF OutsideBackup, Outside, IInv, LogTypes
  <2>2. Pending' = Pending /\ Completed' = Completed
    BY <2>1, UnnamedPends, UnnamedCompletes
  <2>3. UNCHANGED Seen
    BY <1>1, <2>1, <2>2 DEF Seen, Published
  <2>. QED
    BY <2>3, SeenIsMapped DEF Operations!vars, Published, Completed, Told,
       Reports, Seen
<1>4. CASE OutsideApply
  <2>1. UNCHANGED <<log, promoted>> /\ config' \in Contents
    <3>1. newest \in Contents /\ stage \in 0 .. newest
      BY DEF IInv, Amounts
    <3>2. stage \in Contents
      BY <3>1, ContentNumbers
    <3>. QED
      BY <1>4, <3>2 DEF OutsideApply, Outside, backups
  <2>2. /\ Pending' = Pending /\ Completed' = Completed
        /\ Published' = Published
    BY <2>1, LogTells DEF Published
  <2>3. Operations!Replace
    BY <1>1, <2>1, <2>2 DEF Operations!Replace, Published, Completed, Told,
       Reports
  <2>. QED
    BY <2>3 DEF Operations!Next
<1>. QED
  BY <1>2, <1>3, <1>4 DEF Environment

(* Two operations are never pending at once.                               *)
LEMMA NextOnePending ==
    ASSUME IInv, CInv, OnePending, [Next]_vars
    PROVE  OnePending'
<1>1. CASE UNCHANGED log
  BY <1>1, LogTells DEF OnePending
<1>2. ASSUME NEW r \in Runs, BackupLog(r)
      PROVE  OnePending'
  <2>1. CASE kind[r] = "legacy"
    <3>1. /\ log' = Append(log, Unnamed(path[r])) /\ path[r] \in Tails
          /\ log \in Seq(LogSets)
      BY <1>2, <2>1 DEF BackupLog, Taking, IInv, Bound, LogTypes
    <3>. QED
      BY <3>1, UnnamedPends DEF OnePending
  <2>2. CASE kind[r] # "legacy"
    <3>1. \A op \in Pending' : op \in Pending
                                \/ (op = plan[r] /\ cycle[r] = 1)
      BY <1>2, <2>2, NamedPends
    <3>2. cycle[r] = 1 => Pending = {}
      BY <1>2 DEF BackupLog, CInv, Ready, Clear, Begins
    <3>. QED
      BY <3>1, <3>2 DEF OnePending
  <2>. QED
    BY <2>1, <2>2
<1>3. CASE OutsideBackup
  <2>1. Pending' = Pending
    BY <1>3, UnnamedPends DEF OutsideBackup, IInv, LogTypes
  <2>. QED
    BY <2>1 DEF OnePending
<1>4. CASE Environment /\ ~OutsideBackup
  <2>1. UNCHANGED log
    BY <1>4 DEF Environment, AdministratorRestores, AdministratorOpens,
       WorkBegins, WorkEnds, OutsideStage, OutsideApply, backups
  <2>. QED
    BY <1>1, <2>1
<1>5. ASSUME NEW r \in Runs, Step(r), ~BackupLog(r)
      PROVE  UNCHANGED log
  BY <1>5 DEF Step, StageGuard, Stage, ReadInputs, WriteRecovery, WriteLive,
     ScriptGuard, Promote, Promotes, SingleUser, Restore, MultiUser,
     Reconnected, Resume, Verify, ContinueGuard, FindsFinished, Confirm,
     Fails, Dies, backups
<1>6. CASE UNCHANGED vars
  BY <1>1, <1>6 DEF vars, backups
<1>. QED
  BY <1>1, <1>2, <1>3, <1>4, <1>5, <1>6 DEF Next

LEMMA StepPublishes ==
    ASSUME IInv, CInv, OnePending, NEW r \in Runs, Step(r)
    PROVE  [Operations!Next]_(Operations!vars)
<1>1. CASE Promote(r)
  BY <1>1, PromotePublishes
<1>2. CASE BackupLog(r)
  BY <1>2, BackupLogPublishes
<1>3. CASE Verify(r) \/ Confirm(r)
  BY <1>3, AnswersPublish
<1>4. CASE ~Promote(r) /\ ~BackupLog(r) /\ ~Verify(r) /\ ~Confirm(r)
  BY <1>4, QuietSteps DEF Step
<1>. QED
  BY <1>1, <1>2, <1>3, <1>4

LEMMA InitPublishes == Init => OnePending /\ Operations!Init
<1>. SUFFICES ASSUME Init PROVE OnePending /\ Operations!Init
  OBVIOUS
<1>1. Pending = {} /\ Completed = {}
  BY DEF Init, Pending, Completed, Taken
<1>2. ASSUME NEW r \in Runs
      PROVE  ~Reports(r)
  <2>1. answer[r] = "none"
    BY DEF Init
  <2>. QED
    BY <2>1 DEF Reports
<1>3. Told = {} /\ Published = {}
  BY <1>2 DEF Init, Told, Published
<1>. QED
  BY <1>1, <1>3 DEF Init, Operations!Init, OnePending, Published, Completed,
     Told, Reports

(* With any number of runs that stage, activate, continue, fail or die at  *)
(* any statement, the operations of the database go through what            *)
(* LiveOperations describes: nothing is published while an operation waits *)
(* for its second cycle, each cycle is carried out once, and completion is *)
(* reported of completed operations (guard_pending_live, BACKUP LOG of     *)
(* both cycles and the checks of mssql_live_continue.rs).                  *)
THEOREM OperationsImplemented == Spec => ImplementsOperations
<1>1. Init => IInv /\ CInv /\ OnePending /\ Operations!Init
  BY InitIInv, InitContinues, InitPublishes
<1>2. (IInv /\ CInv /\ OnePending) /\ [Next]_vars
        => (IInv /\ CInv /\ OnePending)'
  BY NextKeeps, NextContinues, NextOnePending
<1>3. (IInv /\ CInv /\ OnePending) /\ [Next]_vars
        => [Operations!Next]_(Operations!vars)
  <2>1. CASE UNCHANGED vars
    <3>1. UNCHANGED <<config, promoted, log>> /\ Told' = Told
      BY <2>1 DEF vars, database, backups, run, history, Told, Reports
    <3>. QED
      BY <3>1, Unseen
  <2>. QED
    BY <2>1, EnvironmentPublishes, StepPublishes DEF Next
<1>. QED
  BY <1>1, <1>2, <1>3, PTL DEF Spec, ImplementsOperations, Operations!Spec
=============================================================================
