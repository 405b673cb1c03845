------------------------- MODULE ManagedWorker_proofs -------------------------
(***************************************************************************)
(* Theorems about ManagedWorker for any working processes and any drift,   *)
(* checked by TLAPS.                                                       *)
(***************************************************************************)
EXTENDS ManagedWorker, TLAPS

Flags ==
    /\ tainted \in BOOLEAN /\ stopped \in BOOLEAN
    /\ handoff \in BOOLEAN /\ foreign \in BOOLEAN

Domains ==
    /\ pc \in Labels /\ call \in Subjects
    /\ journal \subseteq Subjects \X {"intent", "confirmed"}
    /\ admitted \in Workers \union {NoWorker}
    /\ handles \subseteq Workers /\ proved \subseteq Processes
    /\ original \in Workers \union {NoWorker}
    /\ publication \in States /\ outcome \in States \union {"none"}
    /\ alive \subseteq Processes /\ started \subseteq Workers
    /\ drifts \in 0 .. MaxDrift
    /\ sent \subseteq Effects \union Processes /\ happened \subseteq Effects

(* The effect under way has its intent on disk, and is confirmed only when *)
(* it took place.                                                          *)
Underway ==
    /\ pc \in Steps =>
            call \in Effects \union Processes /\ <<call, "intent">> \in journal
    /\ pc = "confirm" => Ended(call)
    /\ pc = "handed" => "handoff" \in happened

Recorded ==
    /\ happened \subseteq sent
    /\ \A e \in sent : <<e, "intent">> \in journal

(* A worker the tool knows was started, and does not start again.          *)
Started ==
    /\ alive \subseteq Anchors \union started /\ handles \subseteq started
    /\ original \in started \union {NoWorker}
    /\ pc \in Steps /\ call \in Workers => call \in started
    /\ \A w \in Workers : <<w, "confirmed">> \in journal => w \in started

(* Up to the intent to commit nothing was committed or replaced.           *)
Before ==
    \/ pc \in {"created", "registered", "loaded", "prepared"}
    \/ pc \in Steps
            /\ call \in {"registration", "load", "sources", "stage"}

Early ==
    Before => publication \in Uncommitted
              /\ <<"replacement", "confirmed">> \notin journal

(* The state of the publication is true while it is made.                  *)
Published ==
    /\ publication \in Uncommitted => "commit" \notin sent
    /\ publication = "committed" => "commit" \in happened

(* Once it was answered nothing is published any more.                     *)
Behind ==
    \/ pc \in Ends \union {"shutdown", "census", "stop", "stopped", "cold"}
    \/ pc \in Steps /\ call \in Processes \union {"undo"}

Answered ==
    /\ outcome # "none" => outcome = publication /\ Behind
    /\ handoff => "handoff" \in happened

(* A shutdown begins after a complete publication only.                    *)
Completing ==
    \/ pc \in {"shutdown", "census", "stop", "stopped", "cold", "known",
               "undone"}
    \/ pc \in Steps /\ call \in Processes \union {"undo"}

Complete == Completing => {"commit", "handoff"} \subseteq happened

(* A cold session begins when nothing of the cluster runs.                 *)
Quiet ==
    /\ pc \in {"cold", "known"} => alive = {}
    /\ pc \in Steps /\ call = "undo" => alive = {}
    /\ "undo" \in sent => "commit" \in happened /\ alive = {}

IInv ==
    /\ Flags /\ Domains /\ Underway /\ Recorded /\ Started
    /\ Early /\ Published /\ Answered /\ Complete /\ Quiet
    /\ ConfirmedIsSo

-----------------------------------------------------------------------------
(* The journal only ever holds records of its own kind.                    *)
LEMMA RecordKept ==
    ASSUME NEW e \in Subjects, NEW k \in {"intent", "confirmed"},
           journal \subseteq Subjects \X {"intent", "confirmed"}
    PROVE  journal \union {<<e, k>>}
                \subseteq Subjects \X {"intent", "confirmed"}
  OBVIOUS

(* Each action keeps the invariant.                                        *)
LEMMA RegistrationIntentKeeps ==
    ASSUME IInv, NEW w \in {{}} \union {{v} : v \in Workers},
           RegistrationIntent(w)
    PROVE  IInv'
<1>. USE WorkerAssumption DEF IInv, RegistrationIntent, Intends, Observes,
     owner, stop, result, processes, world, Anchors, Processes, Effects,
     Subjects, Steps, Labels, Uncommitted, States, Ends, Ended
<1>1. Flags'
  BY DEF Flags
<1>2. Domains'
  BY RecordKept DEF Domains
<1>3. Underway'
  BY DEF Underway
<1>4. Recorded'
  BY DEF Recorded
<1>5. Started'
  BY DEF Started
<1>6. Early'
  BY DEF Early, Before
<1>7. Published'
  BY DEF Published
<1>8. Answered'
  BY DEF Answered, Behind
<1>9. Complete'
  BY DEF Complete, Completing
<1>10. Quiet'
  BY DEF Quiet
<1>11. ConfirmedIsSo'
  BY DEF ConfirmedIsSo, IsSo
<1>. QED
  BY <1>1, <1>2, <1>3, <1>4, <1>5, <1>6, <1>7, <1>8, <1>9, <1>10, <1>11

LEMMA LoadIntentKeeps ==
    ASSUME IInv, NEW w \in {{}} \union {{v} : v \in Workers}, LoadIntent(w)
    PROVE  IInv'
<1>. USE WorkerAssumption DEF IInv, LoadIntent, Intends, Observes,
     owner, stop, result, processes, world, Anchors, Processes, Effects,
     Subjects, Steps, Labels, Uncommitted, States, Ends, Ended
<1>1. Flags'
  BY DEF Flags
<1>2. Domains'
  BY RecordKept DEF Domains
<1>3. Underway'
  BY DEF Underway
<1>4. Recorded'
  BY DEF Recorded
<1>5. Started'
  BY DEF Started
<1>6. Early'
  BY DEF Early, Before
<1>7. Published'
  BY DEF Published
<1>8. Answered'
  BY DEF Answered, Behind
<1>9. Complete'
  BY DEF Complete, Completing
<1>10. Quiet'
  BY DEF Quiet
<1>11. ConfirmedIsSo'
  BY DEF ConfirmedIsSo, IsSo
<1>. QED
  BY <1>1, <1>2, <1>3, <1>4, <1>5, <1>6, <1>7, <1>8, <1>9, <1>10, <1>11

LEMMA LoadedKeeps ==
    ASSUME IInv, NEW w \in Workers, Loaded(w)
    PROVE  IInv'
<1>. USE WorkerAssumption DEF IInv, Loaded, Prepares, Observes,
     owner, stop, result, processes, world, Anchors, Processes, Effects,
     Subjects, Steps, Labels, Uncommitted, States, Ends, Ended
<1>1. Flags'
  BY DEF Flags
<1>2. Domains'
  BY DEF Domains
<1>3. Underway'
  BY DEF Underway
<1>4. Recorded'
  BY DEF Recorded
<1>5. Started'
  BY DEF Started
<1>6. Early'
  BY DEF Early, Before
<1>7. Published'
  BY DEF Published
<1>8. Answered'
  BY DEF Answered, Behind
<1>9. Complete'
  BY DEF Complete, Completing
<1>10. Quiet'
  BY DEF Quiet
<1>11. ConfirmedIsSo'
  BY DEF ConfirmedIsSo, IsSo
<1>. QED
  BY <1>1, <1>2, <1>3, <1>4, <1>5, <1>6, <1>7, <1>8, <1>9, <1>10, <1>11

LEMMA SourceStageIntentKeeps ==
    ASSUME IInv, NEW w \in Workers, SourceStageIntent(w)
    PROVE  IInv'
<1>. USE WorkerAssumption DEF IInv, SourceStageIntent, Prepares, Observes,
     Intends, owner, stop, result, processes, world, Anchors, Processes,
     Effects, Subjects, Steps, Labels, Uncommitted, States, Ends, Ended
<1>1. Flags'
  BY DEF Flags
<1>2. Domains'
  BY RecordKept DEF Domains
<1>3. Underway'
  BY DEF Underway
<1>4. Recorded'
  BY DEF Recorded
<1>5. Started'
  BY DEF Started
<1>6. Early'
  BY DEF Early, Before
<1>7. Published'
  BY DEF Published
<1>8. Answered'
  BY DEF Answered, Behind
<1>9. Complete'
  BY DEF Complete, Completing
<1>10. Quiet'
  BY DEF Quiet
<1>11. ConfirmedIsSo'
  BY DEF ConfirmedIsSo, IsSo
<1>. QED
  BY <1>1, <1>2, <1>3, <1>4, <1>5, <1>6, <1>7, <1>8, <1>9, <1>10, <1>11

LEMMA StageIntentKeeps ==
    ASSUME IInv, NEW w \in Workers, StageIntent(w)
    PROVE  IInv'
<1>. USE WorkerAssumption DEF IInv, StageIntent, Prepares, Observes, Intends,
     owner, stop, result, processes, world, Anchors, Processes, Effects,
     Subjects, Steps, Labels, Uncommitted, States, Ends, Ended
<1>1. Flags'
  BY DEF Flags
<1>2. Domains'
  BY RecordKept DEF Domains
<1>3. Underway'
  BY DEF Underway
<1>4. Recorded'
  BY DEF Recorded
<1>5. Started'
  BY DEF Started
<1>6. Early'
  BY DEF Early, Before
<1>7. Published'
  BY DEF Published, Early, Before
<1>8. Answered'
  BY DEF Answered, Behind
<1>9. Complete'
  BY DEF Complete, Completing
<1>10. Quiet'
  BY DEF Quiet
<1>11. ConfirmedIsSo'
  BY DEF ConfirmedIsSo, IsSo, Domains, Underway, Started, Early, Before
<1>. QED
  BY <1>1, <1>2, <1>3, <1>4, <1>5, <1>6, <1>7, <1>8, <1>9, <1>10, <1>11

LEMMA ReplacedKeeps ==
    ASSUME IInv, NEW w \in Workers, Replaced(w)
    PROVE  IInv'
<1>. USE WorkerAssumption DEF IInv, Replaced, HandsOver, Observes,
     owner, stop, result, processes, world, Anchors, Processes, Effects,
     Subjects, Steps, Labels, Uncommitted, States, Ends, Ended
<1>1. Flags'
  BY DEF Flags
<1>2. Domains'
  BY RecordKept DEF Domains
<1>3. Underway'
  BY DEF Underway
<1>4. Recorded'
  BY DEF Recorded
<1>5. Started'
  BY DEF Started
<1>6. Early'
  BY DEF Early, Before
<1>7. Published'
  BY DEF Published
<1>8. Answered'
  BY DEF Answered, Behind, Underway
<1>9. Complete'
  BY DEF Complete, Completing
<1>10. Quiet'
  BY DEF Quiet
<1>11. ConfirmedIsSo'
  <2>. SUFFICES ASSUME NEW e \in Subjects, <<e, "confirmed">> \in journal'
                PROVE  IsSo(e)'
    BY DEF ConfirmedIsSo
  <2>1. CASE e = "replacement"
    <3>1. original \notin Anchors \union {w}
      BY DEF Domains, NoWorker
    <3>. QED
      BY <2>1, <3>1 DEF IsSo
  <2>2. CASE e # "replacement"
    <3>1. IsSo(e)
      BY <2>2 DEF ConfirmedIsSo
    <3>. QED
      BY <2>2, <3>1 DEF IsSo
  <2>. QED
    BY <2>1, <2>2
<1>. QED
  BY <1>1, <1>2, <1>3, <1>4, <1>5, <1>6, <1>7, <1>8, <1>9, <1>10, <1>11

LEMMA ShutdownIntentKeeps ==
    ASSUME IInv, NEW w \in Workers, ShutdownIntent(w)
    PROVE  IInv'
<1>. USE WorkerAssumption DEF IInv, ShutdownIntent, Prepares, Observes,
     owner, stop, result, processes, world, Anchors, Processes, Effects,
     Subjects, Steps, Labels, Uncommitted, States, Ends, Ended
<1>1. Flags'
  BY DEF Flags
<1>2. Domains'
  BY RecordKept DEF Domains
<1>3. Underway'
  BY DEF Underway
<1>4. Recorded'
  BY DEF Recorded
<1>5. Started'
  BY DEF Started
<1>6. Early'
  BY DEF Early, Before
<1>7. Published'
  BY DEF Published
<1>8. Answered'
  BY DEF Answered, Behind
<1>9. Complete'
  BY DEF Complete, Completing
<1>10. Quiet'
  BY DEF Quiet
<1>11. ConfirmedIsSo'
  BY DEF ConfirmedIsSo, IsSo
<1>. QED
  BY <1>1, <1>2, <1>3, <1>4, <1>5, <1>6, <1>7, <1>8, <1>9, <1>10, <1>11

LEMMA CommitIntentKeeps ==
    ASSUME IInv, CommitIntent
    PROVE  IInv'
<1>. USE WorkerAssumption DEF IInv, CommitIntent, Prepares, Observes, Intends,
     owner, stop, result, processes, world, Anchors, Processes, Effects,
     Subjects, Steps, Labels, Uncommitted, States, Ends, Ended
<1>1. Flags'
  BY DEF Flags
<1>2. Domains'
  BY RecordKept DEF Domains
<1>3. Underway'
  BY DEF Underway
<1>4. Recorded'
  BY DEF Recorded
<1>5. Started'
  BY DEF Started
<1>6. Early'
  BY DEF Early, Before
<1>7. Published'
  BY DEF Published
<1>8. Answered'
  BY DEF Answered, Behind
<1>9. Complete'
  BY DEF Complete, Completing
<1>10. Quiet'
  BY DEF Quiet
<1>11. ConfirmedIsSo'
  BY DEF ConfirmedIsSo, IsSo
<1>. QED
  BY <1>1, <1>2, <1>3, <1>4, <1>5, <1>6, <1>7, <1>8, <1>9, <1>10, <1>11

LEMMA HandoffIntentKeeps ==
    ASSUME IInv, HandoffIntent
    PROVE  IInv'
<1>. USE WorkerAssumption DEF IInv, HandoffIntent, Intends, Observes,
     owner, stop, result, processes, world, Anchors, Processes, Effects,
     Subjects, Steps, Labels, Uncommitted, States, Ends, Ended
<1>1. Flags'
  BY DEF Flags
<1>2. Domains'
  BY RecordKept DEF Domains
<1>3. Underway'
  BY DEF Underway
<1>4. Recorded'
  BY DEF Recorded
<1>5. Started'
  BY DEF Started
<1>6. Early'
  BY DEF Early, Before
<1>7. Published'
  BY DEF Published
<1>8. Answered'
  BY DEF Answered, Behind
<1>9. Complete'
  BY DEF Complete, Completing
<1>10. Quiet'
  BY DEF Quiet
<1>11. ConfirmedIsSo'
  BY DEF ConfirmedIsSo, IsSo
<1>. QED
  BY <1>1, <1>2, <1>3, <1>4, <1>5, <1>6, <1>7, <1>8, <1>9, <1>10, <1>11

LEMMA RequireCompletedKeeps ==
    ASSUME IInv, RequireCompleted
    PROVE  IInv'
<1>. USE WorkerAssumption DEF IInv, RequireCompleted,
     owner, stop, result, processes, world, Anchors, Processes, Effects,
     Subjects, Steps, Labels, Uncommitted, States, Ends, Ended
<1>1. Flags'
  BY DEF Flags
<1>2. Domains'
  BY DEF Domains
<1>3. Underway'
  BY DEF Underway
<1>4. Recorded'
  BY DEF Recorded
<1>5. Started'
  BY DEF Started
<1>6. Early'
  BY DEF Early, Before
<1>7. Published'
  BY DEF Published
<1>8. Answered'
  BY DEF Answered, Behind
<1>9. Complete'
  BY DEF Complete, Completing, Answered, Behind, Underway, Published
<1>10. Quiet'
  BY DEF Quiet
<1>11. ConfirmedIsSo'
  BY DEF ConfirmedIsSo, IsSo
<1>. QED
  BY <1>1, <1>2, <1>3, <1>4, <1>5, <1>6, <1>7, <1>8, <1>9, <1>10, <1>11

LEMMA CallKeeps ==
    ASSUME IInv, Call
    PROVE  IInv'
<1>. USE WorkerAssumption DEF IInv, Call, Asked, Observes,
     owner, stop, result, processes, world, Anchors, Processes, Effects,
     Subjects, Steps, Labels, Uncommitted, States, Ends, Ended
<1>1. Flags'
  BY DEF Flags
<1>2. Domains'
  BY DEF Domains, Underway
<1>3. Underway'
  BY DEF Underway
<1>4. Recorded'
  BY DEF Recorded, Underway
<1>5. Started'
  BY DEF Started
<1>6. Early'
  BY DEF Early, Before
<1>7. Published'
  BY DEF Published
<1>8. Answered'
  BY DEF Answered, Behind
<1>9. Complete'
  BY DEF Complete, Completing
<1>10. Quiet'
  BY DEF Quiet, Complete, Completing
<1>11. ConfirmedIsSo'
  BY DEF ConfirmedIsSo, IsSo
<1>. QED
  BY <1>1, <1>2, <1>3, <1>4, <1>5, <1>6, <1>7, <1>8, <1>9, <1>10, <1>11

LEMMA ReturnsKeeps ==
    ASSUME IInv, Returns
    PROVE  IInv'
<1>. USE WorkerAssumption DEF IInv, Returns, Settled,
     owner, stop, result, processes, world, Anchors, Processes, Effects,
     Subjects, Steps, Labels, Uncommitted, States, Ends, Ended
<1>1. Flags'
  BY DEF Flags
<1>2. Domains'
  BY DEF Domains
<1>3. Underway'
  BY DEF Underway
<1>4. Recorded'
  BY DEF Recorded
<1>5. Started'
  BY DEF Started
<1>6. Early'
  BY DEF Early, Before
<1>7. Published'
  BY DEF Published, Early, Before
<1>8. Answered'
  BY DEF Answered, Behind
<1>9. Complete'
  BY DEF Complete, Completing
<1>10. Quiet'
  BY DEF Quiet
<1>11. ConfirmedIsSo'
  BY DEF ConfirmedIsSo, IsSo
<1>. QED
  BY <1>1, <1>2, <1>3, <1>4, <1>5, <1>6, <1>7, <1>8, <1>9, <1>10, <1>11

LEMMA ConfirmKeeps ==
    ASSUME IInv, Confirm
    PROVE  IInv'
<1>. USE WorkerAssumption DEF IInv, Confirm, After,
     owner, stop, result, processes, world, Anchors, Processes, Effects,
     Subjects, Steps, Labels, Uncommitted, States, Ends, Ended
<1>1. Flags'
  BY DEF Flags
<1>2. Domains'
  BY RecordKept DEF Domains, Underway
<1>3. Underway'
  BY DEF Underway
<1>4. Recorded'
  BY DEF Recorded
<1>5. Started'
  BY DEF Started
<1>6. Early'
  BY DEF Early, Before
<1>7. Published'
  BY DEF Published
<1>8. Answered'
  BY DEF Answered, Behind
<1>9. Complete'
  BY DEF Complete, Completing, Answered, Behind, Underway, Published
<1>10. Quiet'
  BY DEF Quiet
<1>11. ConfirmedIsSo'
  <2>. SUFFICES ASSUME NEW e \in Subjects, <<e, "confirmed">> \in journal'
                PROVE  IsSo(e)'
    BY DEF ConfirmedIsSo
  <2>1. CASE e = call
    BY <2>1 DEF Underway, IsSo
  <2>2. CASE e # call
    <3>1. IsSo(e)
      BY <2>2 DEF ConfirmedIsSo
    <3>. QED
      BY <3>1 DEF IsSo
  <2>. QED
    BY <2>1, <2>2
<1>. QED
  BY <1>1, <1>2, <1>3, <1>4, <1>5, <1>6, <1>7, <1>8, <1>9, <1>10, <1>11

LEMMA StopBeginsKeeps ==
    ASSUME IInv, StopBegins
    PROVE  IInv'
<1>. USE WorkerAssumption DEF IInv, StopBegins,
     owner, stop, result, processes, world, Anchors, Processes, Effects,
     Subjects, Steps, Labels, Uncommitted, States, Ends, Ended
<1>1. Flags'
  BY DEF Flags
<1>2. Domains'
  BY DEF Domains
<1>3. Underway'
  BY DEF Underway
<1>4. Recorded'
  BY DEF Recorded
<1>5. Started'
  BY DEF Started
<1>6. Early'
  BY DEF Early, Before
<1>7. Published'
  BY DEF Published
<1>8. Answered'
  BY DEF Answered, Behind
<1>9. Complete'
  BY DEF Complete, Completing
<1>10. Quiet'
  BY DEF Quiet
<1>11. ConfirmedIsSo'
  BY DEF ConfirmedIsSo, IsSo
<1>. QED
  BY <1>1, <1>2, <1>3, <1>4, <1>5, <1>6, <1>7, <1>8, <1>9, <1>10, <1>11

LEMMA AllStoppedKeeps ==
    ASSUME IInv, AllStopped
    PROVE  IInv'
<1>. USE WorkerAssumption DEF IInv, AllStopped, Cold, Members,
     owner, stop, result, processes, world, Anchors, Processes, Effects,
     Subjects, Steps, Labels, Uncommitted, States, Ends, Ended
<1>1. Flags'
  BY DEF Flags
<1>2. Domains'
  BY DEF Domains
<1>3. Underway'
  BY DEF Underway
<1>4. Recorded'
  BY DEF Recorded
<1>5. Started'
  BY DEF Started
<1>6. Early'
  BY DEF Early, Before
<1>7. Published'
  BY DEF Published
<1>8. Answered'
  BY DEF Answered, Behind
<1>9. Complete'
  BY DEF Complete, Completing
<1>10. Quiet'
  BY DEF Quiet
<1>11. ConfirmedIsSo'
  BY DEF ConfirmedIsSo, IsSo
<1>. QED
  BY <1>1, <1>2, <1>3, <1>4, <1>5, <1>6, <1>7, <1>8, <1>9, <1>10, <1>11

LEMMA ColdConfirmedKeeps ==
    ASSUME IInv, ColdConfirmed
    PROVE  IInv'
<1>. USE WorkerAssumption DEF IInv, ColdConfirmed, Cold, Members,
     owner, stop, result, processes, world, Anchors, Processes, Effects,
     Subjects, Steps, Labels, Uncommitted, States, Ends, Ended
<1>1. Flags'
  BY DEF Flags
<1>2. Domains'
  BY RecordKept DEF Domains
<1>3. Underway'
  BY DEF Underway
<1>4. Recorded'
  BY DEF Recorded
<1>5. Started'
  BY DEF Started
<1>6. Early'
  BY DEF Early, Before
<1>7. Published'
  BY DEF Published
<1>8. Answered'
  BY DEF Answered, Behind
<1>9. Complete'
  BY DEF Complete, Completing
<1>10. Quiet'
  BY DEF Quiet
<1>11. ConfirmedIsSo'
  BY DEF ConfirmedIsSo, IsSo
<1>. QED
  BY <1>1, <1>2, <1>3, <1>4, <1>5, <1>6, <1>7, <1>8, <1>9, <1>10, <1>11

LEMMA StopIntentKeeps ==
    ASSUME IInv, NEW p \in Processes, StopIntent(p)
    PROVE  IInv'
<1>. USE WorkerAssumption DEF IInv, StopIntent, CensusBefore, Turn, Intends,
     Members, owner, stop, result, processes, world, Anchors, Processes,
     Effects, Subjects, Steps, Labels, Uncommitted, States, Ends, Ended
<1>1. Flags'
  BY DEF Flags
<1>2. Domains'
  BY RecordKept DEF Domains
<1>3. Underway'
  BY DEF Underway
<1>4. Recorded'
  BY DEF Recorded
<1>5. Started'
  BY DEF Started
<1>6. Early'
  BY DEF Early, Before
<1>7. Published'
  BY DEF Published
<1>8. Answered'
  BY DEF Answered, Behind
<1>9. Complete'
  BY DEF Complete, Completing
<1>10. Quiet'
  BY DEF Quiet
<1>11. ConfirmedIsSo'
  BY DEF ConfirmedIsSo, IsSo
<1>. QED
  BY <1>1, <1>2, <1>3, <1>4, <1>5, <1>6, <1>7, <1>8, <1>9, <1>10, <1>11

LEMMA NaturalExitKeeps ==
    ASSUME IInv, NEW p \in Processes, NaturalExit(p)
    PROVE  IInv'
<1>. USE WorkerAssumption DEF IInv, NaturalExit, CensusBefore, Turn, Members,
     owner, stop, result, processes, world, Anchors, Processes, Effects,
     Subjects, Steps, Labels, Uncommitted, States, Ends, Ended
<1>1. Flags'
  BY DEF Flags
<1>2. Domains'
  <2>1. proved' \subseteq Processes
    BY DEF Domains
  <2>2. journal' \subseteq Subjects \X {"intent", "confirmed"}
    BY RecordKept DEF Domains
  <2>. QED
    BY <2>1, <2>2 DEF Domains
<1>3. Underway'
  BY DEF Underway
<1>4. Recorded'
  BY DEF Recorded
<1>5. Started'
  <2>1. p \in Workers => p \in started
    BY DEF Started
  <2>2. \A w \in Workers : <<w, "confirmed">> \in journal' => w \in started
    BY <2>1 DEF Started
  <2>. QED
    BY <2>2 DEF Started
<1>6. Early'
  BY DEF Early, Before
<1>7. Published'
  BY DEF Published
<1>8. Answered'
  BY DEF Answered, Behind
<1>9. Complete'
  BY DEF Complete, Completing
<1>10. Quiet'
  BY DEF Quiet
<1>11. ConfirmedIsSo'
  <2>. SUFFICES ASSUME NEW e \in Subjects, <<e, "confirmed">> \in journal'
                PROVE  IsSo(e)'
    BY DEF ConfirmedIsSo
  <2>1. CASE e = p
    BY <2>1 DEF IsSo
  <2>2. CASE e # p
    <3>1. IsSo(e)
      BY <2>2 DEF ConfirmedIsSo
    <3>. QED
      BY <3>1 DEF IsSo
  <2>. QED
    BY <2>1, <2>2
<1>. QED
  BY <1>1, <1>2, <1>3, <1>4, <1>5, <1>6, <1>7, <1>8, <1>9, <1>10, <1>11

LEMMA RequireCurrentKeeps ==
    ASSUME IInv, RequireCurrent
    PROVE  IInv'
<1>. USE WorkerAssumption DEF IInv, RequireCurrent, Cold, Members,
     owner, stop, result, processes, world, Anchors, Processes, Effects,
     Subjects, Steps, Labels, Uncommitted, States, Ends, Ended
<1>1. Flags'
  BY DEF Flags
<1>2. Domains'
  BY DEF Domains
<1>3. Underway'
  BY DEF Underway
<1>4. Recorded'
  BY DEF Recorded
<1>5. Started'
  BY DEF Started
<1>6. Early'
  BY DEF Early, Before
<1>7. Published'
  BY DEF Published
<1>8. Answered'
  BY DEF Answered, Behind
<1>9. Complete'
  BY DEF Complete, Completing
<1>10. Quiet'
  BY DEF Quiet
<1>11. ConfirmedIsSo'
  BY DEF ConfirmedIsSo, IsSo
<1>. QED
  BY <1>1, <1>2, <1>3, <1>4, <1>5, <1>6, <1>7, <1>8, <1>9, <1>10, <1>11

LEMMA UndoIntentKeeps ==
    ASSUME IInv, UndoIntent
    PROVE  IInv'
<1>. USE WorkerAssumption DEF IInv, UndoIntent, Cold, Members, Intends,
     owner, stop, result, processes, world, Anchors, Processes, Effects,
     Subjects, Steps, Labels, Uncommitted, States, Ends, Ended
<1>1. Flags'
  BY DEF Flags
<1>2. Domains'
  BY RecordKept DEF Domains
<1>3. Underway'
  BY DEF Underway
<1>4. Recorded'
  BY DEF Recorded
<1>5. Started'
  BY DEF Started
<1>6. Early'
  BY DEF Early, Before
<1>7. Published'
  BY DEF Published
<1>8. Answered'
  BY DEF Answered, Behind
<1>9. Complete'
  BY DEF Complete, Completing
<1>10. Quiet'
  BY DEF Quiet
<1>11. ConfirmedIsSo'
  BY DEF ConfirmedIsSo, IsSo
<1>. QED
  BY <1>1, <1>2, <1>3, <1>4, <1>5, <1>6, <1>7, <1>8, <1>9, <1>10, <1>11

LEMMA FailsKeeps ==
    ASSUME IInv, Fails
    PROVE  IInv'
<1>. USE WorkerAssumption DEF IInv, Fails, Publishing, Stopping,
     owner, stop, result, processes, world, Anchors, Processes, Effects,
     Subjects, Steps, Labels, Uncommitted, States, Ends, Ended
<1>1. Flags'
  BY DEF Flags
<1>2. Domains'
  BY DEF Domains
<1>3. Underway'
  BY DEF Underway
<1>4. Recorded'
  BY DEF Recorded
<1>5. Started'
  BY DEF Started
<1>6. Early'
  BY DEF Early, Before
<1>7. Published'
  BY DEF Published
<1>8. Answered'
  BY DEF Answered, Behind
<1>9. Complete'
  BY DEF Complete, Completing
<1>10. Quiet'
  BY DEF Quiet
<1>11. ConfirmedIsSo'
  BY DEF ConfirmedIsSo, IsSo
<1>. QED
  BY <1>1, <1>2, <1>3, <1>4, <1>5, <1>6, <1>7, <1>8, <1>9, <1>10, <1>11

LEMMA DiesKeeps ==
    ASSUME IInv, Dies
    PROVE  IInv'
<1>. USE WorkerAssumption DEF IInv, Dies,
     owner, stop, result, processes, world, Anchors, Processes, Effects,
     Subjects, Steps, Labels, Uncommitted, States, Ends, Ended
<1>1. Flags'
  BY DEF Flags
<1>2. Domains'
  BY DEF Domains
<1>3. Underway'
  BY DEF Underway
<1>4. Recorded'
  BY DEF Recorded
<1>5. Started'
  BY DEF Started
<1>6. Early'
  BY DEF Early, Before
<1>7. Published'
  BY DEF Published
<1>8. Answered'
  BY DEF Answered, Behind
<1>9. Complete'
  BY DEF Complete, Completing
<1>10. Quiet'
  BY DEF Quiet
<1>11. ConfirmedIsSo'
  BY DEF ConfirmedIsSo, IsSo
<1>. QED
  BY <1>1, <1>2, <1>3, <1>4, <1>5, <1>6, <1>7, <1>8, <1>9, <1>10, <1>11

LEMMA LandsKeeps ==
    ASSUME IInv, NEW e \in Effects, Lands(e)
    PROVE  IInv'
<1>1. Domains'
  <2>1. happened' \subseteq Effects
    BY DEF IInv, Domains, Lands
  <2>. QED
    BY <2>1 DEF IInv, Domains, Lands, owner, stop, result, processes, world
<1>. USE WorkerAssumption DEF IInv, Lands,
     owner, stop, result, processes, world, Anchors, Processes, Effects,
     Subjects, Steps, Labels, Uncommitted, States, Ends, Ended
<1>2. Flags'
  BY DEF Flags
<1>3. Underway'
  BY DEF Underway
<1>4. Recorded'
  BY DEF Recorded
<1>5. Started'
  BY DEF Started
<1>6. Early'
  BY DEF Early, Before
<1>7. Published'
  BY DEF Published
<1>8. Answered'
  BY DEF Answered, Behind
<1>9. Complete'
  BY DEF Complete, Completing
<1>10. Quiet'
  BY DEF Quiet
<1>11. ConfirmedIsSo'
  BY DEF ConfirmedIsSo, IsSo
<1>. QED
  BY <1>1, <1>2, <1>3, <1>4, <1>5, <1>6, <1>7, <1>8, <1>9, <1>10, <1>11

LEMMA WorkerStartsKeeps ==
    ASSUME IInv, NEW w \in Workers, WorkerStarts(w)
    PROVE  IInv'
<1>1. Domains'
  <2>1. alive' \subseteq Processes /\ started' \subseteq Workers
    BY DEF IInv, Domains, WorkerStarts, Processes
  <2>. QED
    BY <2>1 DEF IInv, Domains, WorkerStarts, owner, stop, result, processes,
       world
<1>. USE WorkerAssumption DEF IInv, WorkerStarts,
     owner, stop, result, processes, world, Anchors, Processes, Effects,
     Subjects, Steps, Labels, Uncommitted, States, Ends, Ended
<1>2. Flags'
  BY DEF Flags
<1>3. Underway'
  <2>1. pc = "confirm" => call # w
    BY DEF Underway, Started
  <2>. QED
    BY <2>1 DEF Underway
<1>4. Recorded'
  BY DEF Recorded
<1>5. Started'
  BY DEF Started
<1>6. Early'
  BY DEF Early, Before
<1>7. Published'
  BY DEF Published
<1>8. Answered'
  BY DEF Answered, Behind
<1>9. Complete'
  BY DEF Complete, Completing
<1>10. Quiet'
  BY DEF Quiet
<1>11. ConfirmedIsSo'
  <2>. SUFFICES ASSUME NEW e \in Subjects, <<e, "confirmed">> \in journal
                PROVE  IsSo(e)'
    BY DEF ConfirmedIsSo
  <2>1. IsSo(e)
    BY DEF ConfirmedIsSo
  <2>2. e # w
    BY DEF Started
  <2>3. original # w
    BY DEF Started
  <2>. QED
    BY <2>1, <2>2, <2>3 DEF IsSo
<1>. QED
  BY <1>1, <1>2, <1>3, <1>4, <1>5, <1>6, <1>7, <1>8, <1>9, <1>10, <1>11

LEMMA ProcessEndsKeeps ==
    ASSUME IInv, NEW p \in Processes, ProcessEnds(p)
    PROVE  IInv'
<1>1. Domains'
  <2>1. alive' \subseteq Processes
    BY DEF IInv, Domains, ProcessEnds
  <2>. QED
    BY <2>1 DEF IInv, Domains, ProcessEnds, owner, stop, result, processes,
       world
<1>. USE WorkerAssumption DEF IInv, ProcessEnds,
     owner, stop, result, processes, world, Anchors, Processes, Effects,
     Subjects, Steps, Labels, Uncommitted, States, Ends, Ended
<1>2. Flags'
  BY DEF Flags
<1>3. Underway'
  BY DEF Underway
<1>4. Recorded'
  BY DEF Recorded
<1>5. Started'
  BY DEF Started
<1>6. Early'
  BY DEF Early, Before
<1>7. Published'
  BY DEF Published
<1>8. Answered'
  BY DEF Answered, Behind
<1>9. Complete'
  BY DEF Complete, Completing
<1>10. Quiet'
  BY DEF Quiet
<1>11. ConfirmedIsSo'
  BY DEF ConfirmedIsSo, IsSo
<1>. QED
  BY <1>1, <1>2, <1>3, <1>4, <1>5, <1>6, <1>7, <1>8, <1>9, <1>10, <1>11

LEMMA DriftKeeps ==
    ASSUME IInv, Drift
    PROVE  IInv'
<1>1. Domains'
  <2>1. drifts' \in 0 .. MaxDrift
    BY WorkerAssumption DEF IInv, Domains, Drift
  <2>. QED
    BY <2>1 DEF IInv, Domains, Drift, owner, stop, result, processes, world
<1>. USE WorkerAssumption DEF IInv, Drift,
     owner, stop, result, processes, world, Anchors, Processes, Effects,
     Subjects, Steps, Labels, Uncommitted, States, Ends, Ended
<1>2. Flags'
  BY DEF Flags
<1>3. Underway'
  BY DEF Underway
<1>4. Recorded'
  BY DEF Recorded
<1>5. Started'
  BY DEF Started
<1>6. Early'
  BY DEF Early, Before
<1>7. Published'
  BY DEF Published
<1>8. Answered'
  BY DEF Answered, Behind
<1>9. Complete'
  BY DEF Complete, Completing
<1>10. Quiet'
  BY DEF Quiet
<1>11. ConfirmedIsSo'
  BY DEF ConfirmedIsSo, IsSo
<1>. QED
  BY <1>1, <1>2, <1>3, <1>4, <1>5, <1>6, <1>7, <1>8, <1>9, <1>10, <1>11

(* So does a step that changes nothing.                                    *)
LEMMA StutterKeeps ==
    ASSUME IInv, UNCHANGED vars
    PROVE  IInv'
<1>. USE DEF IInv, vars, owner, stop, result, processes, world
<1>1. (Flags /\ Domains)'
  BY DEF Flags, Domains
<1>2. (Underway /\ Recorded /\ Started)'
  BY DEF Underway, Ended, Recorded, Started
<1>3. (Early /\ Published /\ Answered /\ Complete /\ Quiet)'
  BY DEF Early, Before, Published, Answered, Behind, Complete, Completing,
         Quiet
<1>4. ConfirmedIsSo'
  BY DEF ConfirmedIsSo, IsSo, Ended
<1>. QED
  BY <1>1, <1>2, <1>3, <1>4

(* Nothing was asked for, confirmed or started at first.                   *)
LEMMA InitIInv == Init => IInv
<1>. SUFFICES ASSUME Init PROVE IInv
  OBVIOUS
<1>1. Flags
  BY DEF Init, Flags
<1>2. Domains
  <2>1. drifts = 0
    BY DEF Init
  <2>2. drifts \in 0 .. MaxDrift
    BY <2>1, WorkerAssumption
  <2>3. pc \in Labels /\ call \in Subjects
    BY DEF Init, Labels, Subjects
  <2>4. publication \in States /\ outcome \in States \union {"none"}
    BY DEF Init, States, Uncommitted
  <2>. QED
    BY <2>2, <2>3, <2>4 DEF Init, Domains, Processes
<1>3. Underway /\ Recorded /\ Started
  BY DEF Init, Underway, Recorded, Started, Steps
<1>4. Early /\ Published /\ Answered /\ Complete /\ Quiet
  BY DEF Init, Early, Before, Published, Answered, Behind, Complete,
     Completing, Quiet, Steps, Ends, Uncommitted
<1>5. ConfirmedIsSo
  BY DEF Init, ConfirmedIsSo
<1>. QED
  BY <1>1, <1>2, <1>3, <1>4, <1>5 DEF IInv

LEMMA NextIInv ==
    ASSUME IInv, [Next]_vars
    PROVE  IInv'
<1>1. ASSUME NEW w \in {{}} \union {{v} : v \in Workers}, RegistrationIntent(w)
      PROVE  IInv'
  BY <1>1, RegistrationIntentKeeps
<1>2. ASSUME NEW w \in {{}} \union {{v} : v \in Workers}, LoadIntent(w)
      PROVE  IInv'
  BY <1>2, LoadIntentKeeps
<1>3. ASSUME NEW w \in Workers, Loaded(w)
      PROVE  IInv'
  BY <1>3, LoadedKeeps
<1>4. ASSUME NEW w \in Workers, SourceStageIntent(w)
      PROVE  IInv'
  BY <1>4, SourceStageIntentKeeps
<1>5. ASSUME NEW w \in Workers, StageIntent(w)
      PROVE  IInv'
  BY <1>5, StageIntentKeeps
<1>6. ASSUME NEW w \in Workers, Replaced(w)
      PROVE  IInv'
  BY <1>6, ReplacedKeeps
<1>7. ASSUME NEW w \in Workers, ShutdownIntent(w)
      PROVE  IInv'
  BY <1>7, ShutdownIntentKeeps
<1>8. ASSUME CommitIntent PROVE IInv'
  BY <1>8, CommitIntentKeeps
<1>9. ASSUME HandoffIntent PROVE IInv'
  BY <1>9, HandoffIntentKeeps
<1>10. ASSUME RequireCompleted PROVE IInv'
  BY <1>10, RequireCompletedKeeps
<1>11. ASSUME Call PROVE IInv'
  BY <1>11, CallKeeps
<1>12. ASSUME Returns PROVE IInv'
  BY <1>12, ReturnsKeeps
<1>13. ASSUME Confirm PROVE IInv'
  BY <1>13, ConfirmKeeps
<1>14. ASSUME StopBegins PROVE IInv'
  BY <1>14, StopBeginsKeeps
<1>15. ASSUME AllStopped PROVE IInv'
  BY <1>15, AllStoppedKeeps
<1>16. ASSUME ColdConfirmed PROVE IInv'
  BY <1>16, ColdConfirmedKeeps
<1>17. ASSUME NEW p \in Processes, StopIntent(p)
      PROVE  IInv'
  BY <1>17, StopIntentKeeps
<1>18. ASSUME NEW p \in Processes, NaturalExit(p)
      PROVE  IInv'
  BY <1>18, NaturalExitKeeps
<1>19. ASSUME RequireCurrent PROVE IInv'
  BY <1>19, RequireCurrentKeeps
<1>20. ASSUME UndoIntent PROVE IInv'
  BY <1>20, UndoIntentKeeps
<1>21. ASSUME Fails PROVE IInv'
  BY <1>21, FailsKeeps
<1>22. ASSUME Dies PROVE IInv'
  BY <1>22, DiesKeeps
<1>23. ASSUME NEW e \in Effects, Lands(e)
      PROVE  IInv'
  BY <1>23, LandsKeeps
<1>24. ASSUME NEW w \in Workers, WorkerStarts(w)
      PROVE  IInv'
  BY <1>24, WorkerStartsKeeps
<1>25. ASSUME NEW p \in Processes, ProcessEnds(p)
      PROVE  IInv'
  BY <1>25, ProcessEndsKeeps
<1>26. ASSUME Drift PROVE IInv'
  BY <1>26, DriftKeeps
<1>27. ASSUME UNCHANGED vars PROVE IInv'
  BY <1>27, StutterKeeps
<1>. QED
  BY <1>1, <1>2, <1>3, <1>4, <1>5, <1>6, <1>7, <1>8, <1>9, <1>10, <1>11,
     <1>12, <1>13, <1>14, <1>15, <1>16, <1>17, <1>18, <1>19, <1>20, <1>21,
     <1>22, <1>23, <1>24, <1>25, <1>26, <1>27
     DEF Next, Environment

LEMMA Invariant == Spec => []IInv
  BY InitIInv, NextIInv, PTL DEF Spec

-----------------------------------------------------------------------------
(* Every variable stays in its domain, whatever processes there are.       *)
THEOREM Typing == Spec => []TypeOK
<1>1. IInv => TypeOK
  BY DEF IInv, Flags, Domains, TypeOK
<1>. QED
  BY <1>1, Invariant, PTL

(* The journal tells of every effect that may have taken place or may      *)
(* still take place (mssql_managed_worker.rs, Journal::append and its      *)
(* callers).                                                               *)
THEOREM JournalFirst == Spec => []IntentFirst
<1>1. IInv => IntentFirst
  BY DEF IInv, Recorded, IntentFirst
<1>. QED
  BY <1>1, Invariant, PTL

(* What the journal confirms is so for good: effects, ends of processes,   *)
(* the replacement of the worker and the cold shutdown.                    *)
THEOREM ConfirmationsHold == Spec => []ConfirmedIsSo
<1>1. IInv => ConfirmedIsSo
  BY DEF IInv
<1>. QED
  BY <1>1, Invariant, PTL

(* A publication answers neither less than what may have happened nor more *)
(* (publish_and_handoff).                                                  *)
THEOREM OutcomeHolds == Spec => []OutcomeIsTrue
<1>1. IInv => OutcomeIsTrue
  <2>. SUFFICES ASSUME IInv PROVE OutcomeIsTrue
    OBVIOUS
  <2>1. outcome \in Uncommitted \union {"committed"} => outcome = publication
    BY DEF IInv, Answered, Uncommitted
  <2>. QED
    BY <2>1 DEF IInv, Published, Recorded, OutcomeIsTrue
<1>. QED
  BY <1>1, Invariant, PTL

(* Reported completion means committed, handed over and cold, and nothing  *)
(* is undone in another state (drive, ColdSession).                        *)
THEOREM CompletionHolds == Spec => []KnownIsComplete
<1>1. IInv => KnownIsComplete
  BY DEF IInv, Complete, Completing, Quiet, KnownIsComplete
<1>. QED
  BY <1>1, Invariant, PTL

-----------------------------------------------------------------------------
(* The tool does what EffectJournal allows.                                *)

All == Effects \union Processes
Intended == Records("intent")
Confirmed == Records("confirmed")

(* What is under way is the only thing unproved.                           *)
Current == IF pc \in Steps THEN {call} ELSE {}

(* The tool goes on: it did not stop and nothing failed.                   *)
Going == pc \notin {"retained", "dead"} /\ (pc = "returned" => handoff)

Proven ==
    /\ Intended \subseteq Confirmed \union Current
    /\ proved \subseteq Confirmed \union Current
    /\ pc = "confirm" => call \notin Processes \ proved

At(labels, effects) == pc \in labels \/ (pc \in Steps /\ call \in effects)

ToLoad == At({"created", "registered"}, {"registration"})
ToStage == ToLoad \/ At({"loaded", "prepared"}, {"load", "sources"})
ToCommit == ToStage \/ At({"staged"}, {"stage"})
ToHandoff == ToCommit \/ At({"committed"}, {"commit"})
ToStop ==
    ToHandoff \/ At({"handed", "returned", "shutdown", "census"}, {"handoff"})
InStop == At({"stop"}, Processes)
ToUndo == ToStop \/ InStop \/ pc \in {"stopped", "cold", "known"}

(* What the tool has not come to is not in the journal.                    *)
Unreached ==
    /\ pc = "created" => Intended = {}
    /\ ToLoad => "load" \notin Intended
    /\ ToStage => "stage" \notin Intended
    /\ ToCommit => "commit" \notin Intended
    /\ ToHandoff => "handoff" \notin Intended
    /\ ToStop => Intended \intersect Processes = {}
    /\ InStop => Intended \intersect Processes \subseteq proved \union Current
    /\ ToUndo => "undo" \notin Intended

(* What it has come past is confirmed there.                               *)
Reached ==
    /\ pc = "registered" => "registration" \in Confirmed
    /\ At({"loaded", "prepared"}, {"sources"}) => "load" \in Confirmed
    /\ pc = "staged" => "stage" \in Confirmed
    /\ pc = "committed" => "commit" \in Confirmed
    /\ pc \in {"handed", "returned", "shutdown", "census"} \/ InStop
            => "handoff" \in Confirmed

JInv ==
    /\ handoff => outcome # "none"
    /\ Going => Unreached /\ Reached /\ Proven

(* Effects that took place, and processes that ended.                      *)
Over == happened \union ((Anchors \union started) \ alive)

LEMMA Untold ==
    ASSUME UNCHANGED <<Intended, Confirmed, sent, Over>>
    PROVE  UNCHANGED Journal!vars
  BY DEF Journal!vars, Over, Intended, Confirmed

LEMMA Apart ==
    /\ Effects \intersect Processes = {}
    /\ \A w \in Workers : w \notin Effects /\ w \notin Anchors
    /\ "replacement" \notin All /\ "cold" \notin All
  BY WorkerAssumption DEF Effects, Processes, Anchors, All

(* What a record adds to the journal.                                      *)
LEMMA IntentWritten ==
    ASSUME NEW e \in All, journal' = journal \union {<<e, "intent">>}
    PROVE  Intended' = Intended \union {e} /\ Confirmed' = Confirmed
  BY DEF Intended, Confirmed, Records, All

LEMMA ConfirmationWritten ==
    ASSUME NEW e \in All, journal' = journal \union {<<e, "confirmed">>}
    PROVE  Intended' = Intended /\ Confirmed' = Confirmed \union {e}
  BY DEF Intended, Confirmed, Records, All

LEMMA OtherWritten ==
    ASSUME NEW e, e \notin All, NEW kind,
           journal' = journal \union {<<e, kind>>}
    PROVE  Intended' = Intended /\ Confirmed' = Confirmed
  BY DEF Intended, Confirmed, Records, All

LEMMA NothingWritten ==
    ASSUME UNCHANGED journal
    PROVE  Intended' = Intended /\ Confirmed' = Confirmed
  BY DEF Intended, Confirmed, Records

(* What is confirmed was asked for, if it is an effect.                    *)
LEMMA ConfirmedWasSent ==
    ASSUME IInv, NEW e \in Effects, e \in Confirmed
    PROVE  e \in sent
<1>1. e \in Subjects /\ <<e, "confirmed">> \in journal
  BY DEF Confirmed, Records, Subjects
<1>2. e # "replacement" /\ e # "cold" /\ e \notin Processes
  BY Apart DEF All
<1>3. e \in happened
  BY <1>1, <1>2 DEF IInv, ConfirmedIsSo, IsSo, Ended
<1>. QED
  BY <1>3 DEF IInv, Recorded

-----------------------------------------------------------------------------
(* Intents.                                                                *)

LEMMA Intending ==
    ASSUME IInv, JInv, NEW e \in All, Intends(e),
           UNCHANGED <<proved, handoff, outcome, sent, happened, alive,
                       started>>,
           Going, pc \notin Steps,
           e \notin Intended, Requires[e] \subseteq Confirmed,
           Unreached', Reached'
    PROVE  JInv' /\ Journal!Next
<1>1. pc' = "call" /\ call' = e
  BY DEF Intends
<1>2. Intended' = Intended \union {e} /\ Confirmed' = Confirmed
  BY IntentWritten DEF Intends
<1>3. Intended \subseteq Confirmed /\ proved \subseteq Confirmed
  BY DEF JInv, Proven, Current
<1>4. Current' = {e}
  BY <1>1 DEF Current, Steps
<1>5. Proven'
  BY <1>1, <1>2, <1>3, <1>4 DEF Proven
<1>6. JInv'
  BY <1>5 DEF JInv
<1>7. Journal!Intend(e)
  BY <1>2, <1>3 DEF Journal!Intend, Intended, Confirmed
<1>. QED
  BY <1>6, <1>7 DEF Journal!Next, All

LEMMA RegistrationIntentWritten ==
    ASSUME IInv, JInv, NEW w \in {{}} \union {{v} : v \in Workers},
           RegistrationIntent(w)
    PROVE  JInv' /\ Journal!Next
<1>. USE DEF RegistrationIntent, owner, stop, result,
     processes, world, Steps
<1>1. "registration" \in All /\ Going /\ Intends("registration")
  BY DEF All, Effects, Going
<1>2. /\ pc' = "call" /\ call' = "registration"
      /\ Intended' = Intended \union {"registration"} /\ Confirmed' = Confirmed
  BY <1>1, IntentWritten DEF Intends
<1>3. Unreached /\ Reached
  BY <1>1 DEF JInv
<1>4. /\ "registration" \notin Intended
      /\ Requires["registration"] \subseteq Confirmed
  BY <1>1, <1>3 DEF Unreached, Reached, ToLoad, ToStage, ToCommit, ToHandoff,
     ToStop, InStop, ToUndo, At, Requires, All
<1>5. "registration" \notin Processes
  BY Apart DEF Effects
<1>6. Unreached' /\ Reached'
  BY <1>2, <1>3, <1>5 DEF Unreached, Reached, ToLoad, ToStage, ToCommit,
     ToHandoff, ToStop, InStop, ToUndo, At
<1>. QED
  BY <1>1, <1>4, <1>6, Intending

LEMMA LoadIntentWritten ==
    ASSUME IInv, JInv, NEW w \in {{}} \union {{v} : v \in Workers},
           LoadIntent(w)
    PROVE  JInv' /\ Journal!Next
<1>. USE DEF LoadIntent, owner, stop, result,
     processes, world, Steps
<1>1. "load" \in All /\ Going /\ Intends("load")
  BY DEF All, Effects, Going
<1>2. /\ pc' = "call" /\ call' = "load"
      /\ Intended' = Intended \union {"load"} /\ Confirmed' = Confirmed
  BY <1>1, IntentWritten DEF Intends
<1>3. Unreached /\ Reached
  BY <1>1 DEF JInv
<1>4. "load" \notin Intended /\ Requires["load"] \subseteq Confirmed
  BY <1>1, <1>3 DEF Unreached, Reached, ToLoad, ToStage, ToCommit, ToHandoff,
     ToStop, InStop, ToUndo, At, Requires, All
<1>5. "load" \notin Processes
  BY Apart DEF Effects
<1>6. Unreached' /\ Reached'
  BY <1>2, <1>3, <1>5 DEF Unreached, Reached, ToLoad, ToStage, ToCommit,
     ToHandoff, ToStop, InStop, ToUndo, At
<1>. QED
  BY <1>1, <1>4, <1>6, Intending

LEMMA StageIntentWritten ==
    ASSUME IInv, JInv, NEW w \in Workers,
           StageIntent(w)
    PROVE  JInv' /\ Journal!Next
<1>1. /\ "stage" \in All /\ Going /\ pc = "prepared" /\ pc \notin Steps
      /\ Intends("stage")
      /\ UNCHANGED <<proved, handoff, outcome, sent, happened, alive, started>>
  <2>1. /\ pc = "prepared" /\ Intends("stage")
        /\ UNCHANGED <<proved, handoff, outcome, sent, happened, alive,
                       started>>
    BY Zenon DEF StageIntent, stop, world, processes
  <2>. QED
    BY <2>1 DEF All, Effects, Going, Steps
<1>2. /\ pc' = "call" /\ call' = "stage"
      /\ Intended' = Intended \union {"stage"} /\ Confirmed' = Confirmed
  BY <1>1, IntentWritten DEF Intends
<1>3. Unreached /\ Reached
  BY <1>1 DEF JInv
<1>4. "stage" \notin Intended /\ Requires["stage"] \subseteq Confirmed
  BY <1>1, <1>3 DEF Unreached, Reached, ToLoad, ToStage, ToCommit, ToHandoff,
     ToStop, InStop, ToUndo, At, Requires, All
<1>5. "stage" \notin Processes
  BY Apart DEF Effects
<1>6. Unreached' /\ Reached'
  BY <1>1, <1>2, <1>3, <1>4, <1>5 DEF Unreached, Reached, ToLoad, ToStage,
     ToCommit, ToHandoff, ToStop, InStop, ToUndo, At, Steps, Current
<1>. QED
  BY <1>1, <1>4, <1>6, Intending

LEMMA SourceStageIntentWritten ==
    ASSUME IInv, JInv, NEW w \in Workers,
           SourceStageIntent(w)
    PROVE  JInv' /\ Journal!Next
<1>. USE DEF SourceStageIntent, owner, stop, result, processes, world
<1>1. "sources" \in Effects /\ Going /\ pc \notin Steps /\ Intends("sources")
  BY DEF Effects, Going, Steps
<1>2. /\ pc' = "call" /\ call' = "sources"
      /\ Intended' = Intended \union {"sources"} /\ Confirmed' = Confirmed
  BY <1>1, IntentWritten DEF Intends, All
<1>3. Unreached /\ Reached
  BY <1>1 DEF JInv
<1>4. "sources" \notin Intended /\ Requires["sources"] \subseteq Confirmed
  <2>1. "sources" \notin Confirmed
    BY <1>1, ConfirmedWasSent
  <2>2. Proven /\ Current = {}
    BY <1>1 DEF JInv, Current
  <2>3. Requires["sources"] = {"load"}
    BY DEF Requires, Effects
  <2>. QED
    BY <1>1, <1>3, <2>1, <2>2, <2>3 DEF Proven, Reached, At
<1>5. "sources" \notin Processes
  BY Apart DEF Effects
<1>6. Unreached' /\ Reached'
  BY <1>1, <1>2, <1>3, <1>4, <1>5 DEF Unreached, Reached, ToLoad, ToStage,
     ToCommit, ToHandoff, ToStop, InStop, ToUndo, At, Steps, Current
<1>. QED
  BY <1>1, <1>4, <1>6, Intending DEF All

LEMMA CommitIntentWritten ==
    ASSUME IInv, JInv, CommitIntent
    PROVE  JInv' /\ Journal!Next
<1>. USE DEF CommitIntent, owner, stop, result,
     processes, world, Steps
<1>1. "commit" \in All /\ Going /\ Intends("commit")
  BY DEF All, Effects, Going
<1>2. /\ pc' = "call" /\ call' = "commit"
      /\ Intended' = Intended \union {"commit"} /\ Confirmed' = Confirmed
  BY <1>1, IntentWritten DEF Intends
<1>3. Unreached /\ Reached
  BY <1>1 DEF JInv
<1>4. "commit" \notin Intended /\ Requires["commit"] \subseteq Confirmed
  BY <1>1, <1>3 DEF Unreached, Reached, ToLoad, ToStage, ToCommit, ToHandoff,
     ToStop, InStop, ToUndo, At, Requires, All
<1>5. "commit" \notin Processes
  BY Apart DEF Effects
<1>6. Unreached' /\ Reached'
  BY <1>2, <1>3, <1>5 DEF Unreached, Reached, ToLoad, ToStage, ToCommit,
     ToHandoff, ToStop, InStop, ToUndo, At
<1>. QED
  BY <1>1, <1>4, <1>6, Intending

LEMMA HandoffIntentWritten ==
    ASSUME IInv, JInv, HandoffIntent
    PROVE  JInv' /\ Journal!Next
<1>. USE DEF HandoffIntent, owner, stop, result,
     processes, world, Steps
<1>1. "handoff" \in All /\ Going /\ Intends("handoff")
  BY DEF All, Effects, Going
<1>2. /\ pc' = "call" /\ call' = "handoff"
      /\ Intended' = Intended \union {"handoff"} /\ Confirmed' = Confirmed
  BY <1>1, IntentWritten DEF Intends
<1>3. Unreached /\ Reached
  BY <1>1 DEF JInv
<1>4. "handoff" \notin Intended /\ Requires["handoff"] \subseteq Confirmed
  BY <1>1, <1>3 DEF Unreached, Reached, ToLoad, ToStage, ToCommit, ToHandoff,
     ToStop, InStop, ToUndo, At, Requires, All
<1>5. "handoff" \notin Processes
  BY Apart DEF Effects
<1>6. Unreached' /\ Reached'
  BY <1>2, <1>3, <1>5 DEF Unreached, Reached, ToLoad, ToStage, ToCommit,
     ToHandoff, ToStop, InStop, ToUndo, At
<1>. QED
  BY <1>1, <1>4, <1>6, Intending

LEMMA StopIntentWritten ==
    ASSUME IInv, JInv, NEW p \in Processes,
           StopIntent(p)
    PROVE  JInv' /\ Journal!Next
<1>. USE DEF StopIntent, CensusBefore, owner, stop, result, processes, world
<1>1. /\ p \in All /\ Going /\ pc = "stop" /\ pc \notin Steps
      /\ p \notin proved /\ Intends(p)
  BY DEF All, Going, Steps
<1>2. /\ pc' = "call" /\ call' = p
      /\ Intended' = Intended \union {p} /\ Confirmed' = Confirmed
  BY <1>1, IntentWritten DEF Intends
<1>3. Unreached /\ Reached
  BY <1>1 DEF JInv
<1>4. p \notin Intended /\ Requires[p] \subseteq Confirmed
  <2>1. Current = {} /\ proved \subseteq Confirmed /\ InStop
    BY <1>1 DEF JInv, Proven, Current, InStop, At
  <2>2. p \notin Intended
    BY <1>1, <1>3, <2>1 DEF Unreached
  <2>3. "handoff" \in Confirmed
    BY <1>3, <2>1 DEF Reached
  <2>4. CASE p = "agent"
    BY <2>1, <2>2, <2>3, <2>4 DEF Requires, Processes, Anchors
  <2>5. CASE p = "ras"
    BY <2>1, <2>2, <2>5 DEF Requires, Processes, Anchors, Turn
  <2>6. CASE p \in Workers
    <3>1. Anchors \subseteq proved
      BY <2>6, Apart DEF Turn, Anchors
    <3>2. Requires[p] = Anchors
      BY <1>1, <2>6, Apart DEF Requires, Effects, Anchors, All
    <3>. QED
      BY <2>1, <2>2, <3>1, <3>2
  <2>. QED
    BY <2>4, <2>5, <2>6 DEF Processes, Anchors
<1>5. p \notin Effects
  BY Apart
<1>6. Unreached' /\ Reached'
  <2>1. proved' = proved /\ InStop
    BY <1>1 DEF InStop, At
  <2>. QED
    BY <1>1, <2>1, <1>2, <1>3, <1>4, <1>5 DEF Unreached, Reached, ToLoad,
       ToStage, ToCommit, ToHandoff, ToStop, InStop, ToUndo, At, Steps,
       Current, Effects
<1>. QED
  BY <1>1, <1>4, <1>6, Intending

LEMMA UndoIntentWritten ==
    ASSUME IInv, JInv, UndoIntent
    PROVE  JInv' /\ Journal!Next
<1>. USE DEF UndoIntent, Cold, owner, stop, result, processes, world
<1>1. /\ "undo" \in All /\ Going /\ pc = "cold" /\ pc \notin Steps
      /\ Intends("undo")
  BY DEF All, Effects, Going, Steps
<1>2. /\ pc' = "call" /\ call' = "undo"
      /\ Intended' = Intended \union {"undo"} /\ Confirmed' = Confirmed
  BY <1>1, IntentWritten DEF Intends
<1>3. Unreached /\ Reached
  BY <1>1 DEF JInv
<1>4. "undo" \notin Intended /\ Requires["undo"] \subseteq Confirmed
  <2>1. Current = {} /\ proved \subseteq Confirmed
    BY <1>1 DEF JInv, Proven, Current
  <2>2. Requires["undo"] = Anchors
    BY <1>1 DEF Requires, All
  <2>. QED
    BY <1>1, <1>3, <2>1, <2>2 DEF Unreached, ToUndo
<1>5. "undo" \notin Processes
  BY Apart DEF Effects
<1>6. Unreached' /\ Reached'
  BY <1>1, <1>2, <1>3, <1>4, <1>5 DEF Unreached, Reached, ToLoad, ToStage,
     ToCommit, ToHandoff, ToStop, InStop, ToUndo, At, Steps, Current
<1>. QED
  BY <1>1, <1>4, <1>6, Intending

-----------------------------------------------------------------------------
(* The other steps of an effect.                                           *)

LEMMA CallAsks ==
    ASSUME IInv, JInv, Call
    PROVE  JInv' /\ Journal!Next
<1>. USE DEF Call, owner, stop, processes, world
<1>1. call \in All /\ <<call, "intent">> \in journal
  BY DEF IInv, Underway, Steps, All
<1>2. Intended' = Intended /\ Confirmed' = Confirmed
  BY NothingWritten
<1>3. pc' = "wait" /\ pc = "call" /\ Current' = Current
  BY DEF Current, Steps
<1>4. JInv'
  <2>1. Unreached /\ Reached /\ Proven
    BY <1>3 DEF JInv, Going
  <2>2. Unreached' /\ Reached' /\ Proven'
    BY <1>2, <1>3, <2>1 DEF Unreached, Reached, Proven, ToLoad, ToStage,
       ToCommit, ToHandoff, ToStop, InStop, ToUndo, At, Steps
  <2>. QED
    BY <2>2 DEF JInv
<1>5. PICK e \in All : e = call
  BY <1>1
<1>6. Journal!Ask(e)
  BY <1>1, <1>2, <1>5 DEF Journal!Ask, Intended, Confirmed, Records, All
<1>. QED
  BY <1>4, <1>6 DEF Journal!Next, All

LEMMA ReturnsWaits ==
    ASSUME IInv, JInv, Returns
    PROVE  JInv' /\ UNCHANGED Journal!vars
<1>. USE DEF Returns, owner, processes, world
<1>1. Intended' = Intended /\ Confirmed' = Confirmed
  BY NothingWritten
<1>2. /\ pc' = "confirm" /\ pc = "wait" /\ Current' = Current
      /\ Current = {call}
  BY DEF Current, Steps
<1>3. JInv'
  <2>1. Unreached /\ Reached /\ Proven
    BY <1>2 DEF JInv, Going
  <2>2. Unreached' /\ Reached' /\ Proven'
    BY <1>1, <1>2, <2>1 DEF Unreached, Reached, Proven, ToLoad, ToStage,
       ToCommit, ToHandoff, ToStop, InStop, ToUndo, At, Steps
  <2>. QED
    BY <2>2 DEF JInv
<1>. QED
  BY <1>1, <1>3, Untold DEF Over

LEMMA ConfirmConfirms ==
    ASSUME IInv, JInv, Confirm
    PROVE  JInv' /\ Journal!Next
<1>. USE DEF Confirm, owner, stop, result, processes, world
<1>1. call \in All /\ Ended(call)
  BY DEF IInv, Underway, Steps, All
<1>2. Intended' = Intended /\ Confirmed' = Confirmed \union {call}
  BY <1>1, ConfirmationWritten
<1>3. pc' = After(call) /\ call' = call /\ proved' = proved
  OBVIOUS
<1>4. Unreached /\ Reached /\ Proven /\ Current = {call}
  BY DEF JInv, Going, Current, Steps
<1>5. Unreached' /\ Reached' /\ Proven' /\ pc' # "returned"
  <2>1. CASE call \in Effects
    <3>1. call \notin Processes
      BY <2>1, Apart
    <3>2. /\ pc' # "returned" /\ Current' = {}
          /\ \/ call = "registration" /\ pc' = "registered"
             \/ call = "load" /\ pc' = "loaded"
             \/ call = "sources" /\ pc' = "prepared"
             \/ call = "stage" /\ pc' = "staged"
             \/ call = "commit" /\ pc' = "committed"
             \/ call = "handoff" /\ pc' = "handed"
             \/ call = "undo" /\ pc' = "undone"
      BY <1>3, <2>1 DEF After, Effects, Current, Steps
    <3>. QED
      BY <1>2, <1>4, <3>1, <3>2 DEF Unreached, Reached, Proven, ToLoad,
         ToStage, ToCommit, ToHandoff, ToStop, InStop, ToUndo, At, Steps
  <2>2. CASE call \in Processes
    <3>1. call \notin Effects
      BY <2>2, Apart
    <3>2. pc' = "stop" /\ Current' = {}
      BY <1>3, <3>1 DEF After, Effects, Current, Steps
    <3>3. call \in proved
      BY <1>4, <2>2 DEF Proven
    <3>. QED
      BY <1>2, <1>4, <2>2, <3>1, <3>2, <3>3 DEF Unreached, Reached, Proven,
         ToLoad, ToStage, ToCommit, ToHandoff, ToStop, InStop, ToUndo, At,
         Steps, Effects
  <2>. QED
    BY <1>1, <2>1, <2>2 DEF All
<1>6. JInv'
  BY <1>5 DEF JInv
<1>7. PICK e \in All : e = call
  BY <1>1
<1>8. call \in Over
  <2>1. CASE call \in Effects
    BY <1>1, <2>1, Apart DEF Ended, Over
  <2>2. CASE call \in Processes
    BY <1>1, <2>2 DEF Ended, Over, Processes, IInv, Started, Steps
  <2>. QED
    BY <1>1, <2>1, <2>2 DEF All
<1>9. Over' = Over
  BY DEF Over
<1>10. Journal!Confirm(e)
  BY <1>2, <1>7, <1>8, <1>9 DEF Journal!Confirm, Intended, Confirmed, Over
<1>. QED
  BY <1>6, <1>10 DEF Journal!Next, All

-----------------------------------------------------------------------------
(* Steps that begin no effect.                                             *)

LEMMA Standing ==
    ASSUME JInv,
           UNCHANGED <<pc, call, journal, proved, outcome, handoff>>
    PROVE  JInv'
<1>1. Intended' = Intended /\ Confirmed' = Confirmed
  BY NothingWritten
<1>. QED
  BY <1>1 DEF JInv, Going, Unreached, Reached, Proven, Current, ToLoad,
     ToStage, ToCommit, ToHandoff, ToStop, InStop, ToUndo, At

(* The tool goes from one place to the next.                               *)
LEMMA Moving ==
    ASSUME JInv, Going, UNCHANGED <<call, proved>>,
           UNCHANGED <<Intended, Confirmed>>,
           handoff' => outcome' # "none",
           \/ pc = "loaded" /\ pc' = "prepared"
           \/ pc = "handed" /\ pc' = "returned"
           \/ pc = "returned" /\ pc' = "shutdown"
           \/ pc = "shutdown" /\ pc' = "census"
           \/ pc = "census" /\ pc' = "stop"
           \/ pc = "stop" /\ pc' = "stopped"
           \/ pc = "stopped" /\ pc' = "cold"
           \/ pc = "cold" /\ pc' = "known"
    PROVE  JInv'
<1>1. Unreached /\ Reached /\ Proven /\ Current = {}
  BY DEF JInv, Current, Steps
<1>2. Unreached' /\ Reached' /\ Proven'
  BY <1>1 DEF Unreached, Reached, Proven, Current, ToLoad, ToStage, ToCommit,
     ToHandoff, ToStop, InStop, ToUndo, At, Steps
<1>. QED
  BY <1>2 DEF JInv

(* It stops, with or without an answer.                                    *)
LEMMA Ending ==
    ASSUME handoff' => outcome' # "none",
           pc' \in {"retained", "dead"} \/ (pc' = "returned" /\ ~handoff')
    PROVE  JInv'
  BY DEF JInv, Going

LEMMA MovesUntold ==
    ASSUME IInv, JInv,
           \/ \E w \in Workers : Loaded(w) \/ ShutdownIntent(w)
           \/ StopBegins \/ AllStopped \/ ColdConfirmed \/ RequireCurrent
    PROVE  JInv' /\ UNCHANGED Journal!vars
<1>. USE DEF stop, result, processes, world, owner
<1>1. /\ Going /\ UNCHANGED <<call, proved, sent, Over, handoff, outcome>>
      /\ \/ pc = "loaded" /\ pc' = "prepared"
         \/ pc = "shutdown" /\ pc' = "census"
         \/ pc = "census" /\ pc' = "stop"
         \/ pc = "stop" /\ pc' = "stopped"
         \/ pc = "stopped" /\ pc' = "cold"
         \/ pc = "cold" /\ pc' = "known"
  BY DEF Loaded, ShutdownIntent, StopBegins, AllStopped, ColdConfirmed,
     RequireCurrent, Going, Over
<1>2. Intended' = Intended /\ Confirmed' = Confirmed
  <2>1. \/ UNCHANGED journal
        \/ \E kind \in {"intent", "confirmed"} :
                journal' = journal \union {<<"cold", kind>>}
    BY DEF Loaded, ShutdownIntent, StopBegins, AllStopped, ColdConfirmed,
       RequireCurrent
  <2>. QED
    BY <2>1, NothingWritten, OtherWritten, Apart
<1>3. handoff' => outcome' # "none"
  BY <1>1 DEF JInv
<1>. QED
  BY <1>1, <1>2, <1>3, Moving, Untold

LEMMA HandsOverUntold ==
    ASSUME IInv, JInv, NEW w \in Workers, Replaced(w)
    PROVE  JInv' /\ UNCHANGED Journal!vars
<1>1. /\ pc = "handed" /\ pc' = "returned"
      /\ UNCHANGED <<call, proved, sent, happened, alive, started>>
      /\ journal' = journal \union {<<"replacement", "confirmed">>}
      /\ outcome' = publication
  BY DEF Replaced, HandsOver, stop, world, processes
<1>2. Intended' = Intended /\ Confirmed' = Confirmed
  BY <1>1, OtherWritten, Apart
<1>3. outcome' # "none"
  BY <1>1, Zenon DEF IInv, Domains, States, Uncommitted
<1>4. Over' = Over
  BY <1>1 DEF Over
<1>5. Going
  BY <1>1 DEF Going
<1>. QED
  BY <1>1, <1>2, <1>3, <1>4, <1>5, Moving, Untold

LEMMA RequireCompletedUntold ==
    ASSUME IInv, JInv, RequireCompleted
    PROVE  JInv' /\ UNCHANGED Journal!vars
<1>. USE DEF RequireCompleted, owner, stop, result, processes, world
<1>1. Intended' = Intended /\ Confirmed' = Confirmed
  BY NothingWritten
<1>2. handoff' => outcome' # "none"
  BY DEF JInv
<1>3. JInv'
  <2>1. CASE pc' = "shutdown"
    BY <1>1, <1>2, <2>1, Moving DEF Going
  <2>2. CASE pc' = "retained"
    BY <1>2, <2>2, Ending
  <2>. QED
    BY <2>1, <2>2
<1>. QED
  BY <1>1, <1>3, Untold DEF Over

LEMMA FailsUntold ==
    ASSUME IInv, JInv, Fails \/ Dies
    PROVE  JInv' /\ UNCHANGED Journal!vars
<1>. USE DEF Fails, Dies, owner, stop, result, processes, world
<1>1. Intended' = Intended /\ Confirmed' = Confirmed
  BY NothingWritten
<1>2. ASSUME pc' \in {"retained", "dead"}, outcome' = outcome
      PROVE  JInv'
  <2>1. handoff' => outcome' # "none"
    BY <1>2 DEF JInv
  <2>. QED
    BY <1>2, <2>1, Ending
<1>3. ASSUME Publishing, Fails, pc' = "returned"
      PROVE  JInv'
  <2>1. ~Behind
    BY <1>3, Apart DEF Publishing, Behind, Ends, Steps, Effects
  <2>2. ~handoff'
    BY <1>3, <2>1 DEF IInv, Answered, JInv
  <2>. QED
    BY <1>3, <2>2, Ending
<1>. QED
  BY <1>1, <1>2, <1>3, Untold DEF Over

LEMMA NaturalExitConfirms ==
    ASSUME IInv, JInv, NEW p \in Processes, NaturalExit(p)
    PROVE  JInv' /\ Journal!Next
<1>. USE DEF NaturalExit, CensusBefore, owner, stop, result, processes, world
<1>1. p \in All /\ pc = "stop" /\ Going
  BY DEF All, Going
<1>2. Intended' = Intended /\ Confirmed' = Confirmed \union {p}
  BY <1>1, ConfirmationWritten
<1>3. Unreached /\ Reached /\ Proven /\ Current = {}
  BY <1>1 DEF JInv, Current, Steps
<1>4. Unreached' /\ Reached' /\ Proven'
  BY <1>1, <1>2, <1>3 DEF Unreached, Reached, Proven, Current, ToLoad,
     ToStage, ToCommit, ToHandoff, ToStop, InStop, ToUndo, At, Steps
<1>5. JInv'
  BY <1>4 DEF JInv
<1>6. p \in Over /\ Over' = Over
  BY DEF Turn, Over, Processes, Anchors, IInv, Started
<1>7. Journal!Confirm(p)
  BY <1>2, <1>6 DEF Journal!Confirm, Intended, Confirmed, Over
<1>. QED
  BY <1>1, <1>5, <1>7 DEF Journal!Next, All

LEMMA EnvironmentHappens ==
    ASSUME IInv, JInv, Environment
    PROVE  JInv' /\ [Journal!Next]_(Journal!vars)
<1>. USE DEF owner, stop, result, processes
<1>1. UNCHANGED <<pc, call, journal, proved, outcome, handoff, sent>>
  BY DEF Environment, Lands, WorkerStarts, ProcessEnds, Drift
<1>2. JInv'
  BY <1>1, Standing
<1>3. Intended' = Intended /\ Confirmed' = Confirmed
  BY <1>1, NothingWritten
<1>4. ASSUME NEW e \in Effects, Lands(e)
      PROVE  Journal!Next
  <2>1. e \notin Over
    BY <1>4, Apart DEF Lands, Over, IInv, Domains, Processes
  <2>2. Over' = Over \union {e}
    BY <1>4, Apart DEF Lands, Over, Processes
  <2>3. Journal!Happen(e)
    BY <1>1, <1>3, <1>4, <2>1, <2>2 DEF Lands, Journal!Happen, Intended,
       Confirmed, Over
  <2>. QED
    BY <2>3 DEF Journal!Next
<1>5. ASSUME NEW p \in Processes, ProcessEnds(p)
      PROVE  Journal!Next
  <2>1. p \notin Over
    BY <1>5, Apart DEF ProcessEnds, Over, IInv, Domains
  <2>2. Over' = Over \union {p}
    BY <1>5, Apart DEF ProcessEnds, Over, IInv, Started
  <2>3. Journal!Happen(p)
    BY <1>1, <1>3, <2>1, <2>2 DEF Journal!Happen, Intended, Confirmed, Over
  <2>. QED
    BY <2>3 DEF Journal!Next
<1>6. ASSUME NEW w \in Workers, WorkerStarts(w)
      PROVE  UNCHANGED Journal!vars
  <2>1. w \notin alive
    BY <1>6, Apart DEF WorkerStarts, IInv, Started
  <2>2. Over' = Over
    BY <1>6, <2>1, Apart DEF WorkerStarts, Over, IInv, Started
  <2>. QED
    BY <1>1, <1>3, <2>2, Untold
<1>7. ASSUME Drift
      PROVE  UNCHANGED Journal!vars
  BY <1>1, <1>3, <1>7, Untold DEF Drift, Over
<1>. QED
  BY <1>2, <1>4, <1>5, <1>6, <1>7 DEF Environment

LEMMA NextAhead ==
    ASSUME IInv, JInv, [Next]_vars
    PROVE  JInv' /\ [Journal!Next]_(Journal!vars)
<1>1. ASSUME NEW w \in {{}} \union {{v} : v \in Workers},
             RegistrationIntent(w) \/ LoadIntent(w)
      PROVE  JInv' /\ Journal!Next
  BY <1>1, RegistrationIntentWritten, LoadIntentWritten
<1>2. ASSUME NEW w \in Workers, SourceStageIntent(w) \/ StageIntent(w)
      PROVE  JInv' /\ Journal!Next
  BY <1>2, SourceStageIntentWritten, StageIntentWritten
<1>3. ASSUME CommitIntent \/ HandoffIntent \/ UndoIntent
      PROVE  JInv' /\ Journal!Next
  BY <1>3, CommitIntentWritten, HandoffIntentWritten, UndoIntentWritten
<1>4. ASSUME NEW p \in Processes, StopIntent(p) \/ NaturalExit(p)
      PROVE  JInv' /\ Journal!Next
  BY <1>4, StopIntentWritten, NaturalExitConfirms
<1>5. ASSUME Call \/ Confirm
      PROVE  JInv' /\ Journal!Next
  BY <1>5, CallAsks, ConfirmConfirms
<1>6. ASSUME NEW w \in Workers, Loaded(w) \/ ShutdownIntent(w) \/ Replaced(w)
      PROVE  JInv' /\ UNCHANGED Journal!vars
  BY <1>6, MovesUntold, HandsOverUntold
<1>7. ASSUME \/ Returns \/ RequireCompleted \/ StopBegins \/ AllStopped
             \/ ColdConfirmed \/ RequireCurrent \/ Fails \/ Dies
      PROVE  JInv' /\ UNCHANGED Journal!vars
  BY <1>7, ReturnsWaits, RequireCompletedUntold, MovesUntold, FailsUntold
<1>8. ASSUME Environment
      PROVE  JInv' /\ [Journal!Next]_(Journal!vars)
  BY <1>8, EnvironmentHappens
<1>9. ASSUME UNCHANGED vars
      PROVE  JInv' /\ UNCHANGED Journal!vars
  <2>1. UNCHANGED <<pc, call, journal, proved, outcome, handoff, sent, Over>>
    BY <1>9 DEF vars, owner, stop, result, processes, world, Over
  <2>. QED
    BY <2>1, Standing, NothingWritten, Untold
<1>. QED
  BY <1>1, <1>2, <1>3, <1>4, <1>5, <1>6, <1>7, <1>8, <1>9 DEF Next

LEMMA InitAhead == Init => JInv /\ Journal!Init
<1>. SUFFICES ASSUME Init PROVE JInv /\ Journal!Init
  OBVIOUS
<1>1. /\ pc = "created" /\ journal = {} /\ ~handoff /\ proved = {}
      /\ sent = {} /\ happened = {} /\ alive = Anchors /\ started = {}
  BY Zenon DEF Init
<1>2. Intended = {} /\ Confirmed = {} /\ Over = {}
  BY <1>1 DEF Intended, Confirmed, Records, Over
<1>3. JInv
  BY <1>1, <1>2 DEF JInv, Unreached, Reached, Proven, InStop, At, Steps
<1>. QED
  BY <1>1, <1>2, <1>3 DEF Journal!Init, Intended, Confirmed, Over

(* However many processes the cluster starts and whatever fails, dies or   *)
(* lands late, the journal is written ahead: an effect is asked for after  *)
(* its intent is on disk, is begun once, in its order and never past one   *)
(* that was not confirmed (Journal::append, publish_and_handoff,           *)
(* stop_owned, run_cold_transaction_once).                                 *)
THEOREM JournalAhead == Spec => ImplementsJournal
<1>1. Init => IInv /\ JInv /\ Journal!Init
  BY InitIInv, InitAhead
<1>2. (IInv /\ JInv) /\ [Next]_vars
        => (IInv /\ JInv)' /\ [Journal!Next]_(Journal!vars)
  BY NextIInv, NextAhead
<1>. QED
  BY <1>1, <1>2, PTL DEF Spec, ImplementsJournal, Journal!Spec
=============================================================================
