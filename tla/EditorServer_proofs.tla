-------------------------- MODULE EditorServer_proofs --------------------------
(***************************************************************************)
(* Theorems about EditorServer for any number of requests, ids, infobases  *)
(* and versions, checked by TLAPS, and that it implements RequestServer.   *)
(***************************************************************************)
EXTENDS EditorServer, SequenceTheorems, TLAPS

Labels == {"waiting", "running", "preparing", "publishing", "writing",
           "committing", "removing", "sending", "ended", "dead"}

(* The worker holds a request that it has not finished with.               *)
Operating == {"running", "preparing", "publishing", "writing", "committing"}
Busy == Operating \union {"removing", "sending"}
Importing == {"publishing", "writing", "committing"}

Simple ==
    /\ reader \in {"reading", "queueing", "sweeping", "joining", "exited"}
    /\ broken \in BOOLEAN /\ code \in 0 .. 2
    /\ worker \in Labels /\ outcome \in Outcome
    /\ initialized \in BOOLEAN /\ down \in BOOLEAN
    /\ versions \in 0 .. MaxVersion /\ source \in 0 .. MaxSource
    /\ flag \subseteq Job /\ published \subseteq Job

Messages == [id : Ids, method : Methods, base : Bases \cup {NoBase},
             token : Job \cup {0}]

JobTypes == jobs \in Seq(Messages) /\ Len(jobs) <= MaxJobs

MapTypes ==
    /\ inFlight \in [Ids -> 0 .. MaxJobs]
    /\ answer \in [Job -> Outcome \cup {"none"}]
    /\ db \in [Bases -> 0 .. MaxVersion]

PlanTypes == plans \subseteq Plan /\ draft \in Plan \cup {NoPlan}

(* A request names an infobase when its method needs one, and a token that *)
(* was given out before.                                                   *)
Formed ==
    \A n \in 1 .. Len(jobs) :
        /\ jobs[n].method \in {"connect", "prepare", "import"}
                => jobs[n].base \in Bases
        /\ jobs[n].token < n
        /\ jobs[n].method # "import" => jobs[n].token = 0

Order ==
    /\ cur \in Nat /\ queued \in Nat /\ epoch \in Nat
    /\ cur <= queued /\ queued <= Len(jobs)
    /\ reader = "reading" => queued = Len(jobs)
    /\ reader = "queueing" => queued + 1 = Len(jobs)
    /\ worker \in Busy => cur >= 1
    /\ epoch <= cur /\ (worker = "running" => epoch < cur)

Answered ==
    \A n \in Job :
        answer[n] # "none" =>
            n <= cur /\ (n = cur => worker \in {"waiting", "ended"})

Registered == IdsUnique => Reachable
Swept == IdsUnique => AllSwept

Methodical ==
    /\ worker = "preparing" => Call.method = "prepare"
    /\ worker \in Importing => Call.method = "import"

(* Only a request that ended has published, and its outcome tells.         *)
PublishedTells ==
    /\ \A n \in published : n <= cur /\ (n = cur => worker \notin Operating)
    /\ worker \in {"removing", "sending"} =>
            (cur \in published <=>
                Call.method = "import" /\ outcome \in {"ok", "recovery"})

(* The plan in hand is the one the request made, or the one it confirms,   *)
(* and nobody has changed the infobase since it was compared.              *)
Confirmed ==
    /\ worker = "preparing" =>
            draft \in Plan /\ draft.token = cur /\ draft.base = Call.base
    /\ worker \in Importing =>
            /\ draft \in Plan
            /\ draft.token = Call.token /\ draft.base = Call.base
            /\ draft.epoch = epoch
    /\ worker \in {"writing", "committing"} => db[draft.base] = draft.version

(* No plan is kept that a later one overtook or that was published.        *)
Overtaken(p, n) ==
    /\ n > p.token /\ jobs[n].method = "prepare" /\ jobs[n].base = p.base
    /\ \/ answer[n] = "ok"
       \/ n = cur /\ worker \in {"removing", "sending"} /\ outcome = "ok"

Latest(p) ==
    \A n \in 1 .. cur :
        /\ ~Overtaken(p, n)
        /\ jobs[n].token = p.token => n \notin published

Current ==
    /\ \A p \in plans :
            /\ p.token <= cur /\ (p.token = cur => worker \notin Operating)
            /\ Latest(p)
    /\ \A p, q \in plans : p.token = q.token => p = q
    /\ worker \in Importing =>
            Latest(draft) /\ \A p \in plans : p.token # draft.token

IInv ==
    /\ Simple /\ JobTypes /\ MapTypes /\ PlanTypes /\ Formed /\ Order
    /\ Answered /\ Registered /\ Swept /\ Methodical
    /\ PublishedTells /\ AnswerTells /\ Confirmed /\ Current

-----------------------------------------------------------------------------
(* What Append does to the elements of a sequence.                         *)
LEMMA Appended ==
    ASSUME NEW S, NEW s \in Seq(S), NEW e \in S
    PROVE  /\ Append(s, e) \in Seq(S)
           /\ Len(s) \in Nat /\ Len(Append(s, e)) = Len(s) + 1
           /\ \A i \in 1 .. Len(s) : Append(s, e)[i] = s[i]
           /\ Append(s, e)[Len(s) + 1] = e
  OBVIOUS

(* The requests read, and the one the worker took last.                    *)
LEMMA Requested ==
    ASSUME IInv
    PROVE  /\ Len(jobs) \in Nat /\ MaxJobs \in Nat /\ Len(jobs) <= MaxJobs
           /\ \A n \in 1 .. Len(jobs) : n \in Job /\ jobs[n] \in Messages
           /\ cur \in Nat /\ queued \in Nat
           /\ cur <= queued /\ queued <= Len(jobs)
           /\ worker \in Busy => cur \in Job /\ cur \in 1 .. Len(jobs)
  BY ServerAssumption DEF IInv, JobTypes, Order, Job

(* What ReadRequest adds to the requests.                                  *)
Reads(id) ==
    /\ jobs' \in Seq(Messages) /\ Len(jobs') = Len(jobs) + 1
    /\ Len(jobs') <= MaxJobs
    /\ \A n \in 1 .. Len(jobs) : jobs'[n] = jobs[n]
    /\ jobs'[Len(jobs) + 1].id = id
    /\ jobs'[Len(jobs) + 1].method \in {"connect", "prepare", "import"}
            => jobs'[Len(jobs) + 1].base \in Bases
    /\ jobs'[Len(jobs) + 1].token < Len(jobs) + 1
    /\ jobs'[Len(jobs) + 1].method # "import"
            => jobs'[Len(jobs) + 1].token = 0

LEMMA RequestReads ==
    ASSUME IInv, NEW id \in Ids, ReadRequest(id)
    PROVE  Reads(id)
<1>1. PICK r \in Requests(id) : jobs' = Append(jobs, r)
  BY DEF ReadRequest
<1>2. Known \subseteq Job \cup {0} /\ \A k \in Known : k < Len(jobs) + 1
  BY Requested DEF Known, Received
<1>3. r \in [id : {id}, method : Methods, base : Bases \cup {NoBase},
             token : Known]
  BY DEF Requests
<1>4. /\ r \in Messages /\ r.id = id /\ r.token < Len(jobs) + 1
      /\ r.base \in Bases \cup {NoBase}
  BY <1>2, <1>3 DEF Messages
<1>5. /\ r.base = NoBase <=> r.method \notin {"connect", "prepare", "import"}
      /\ r.method # "import" => r.token = 0
  BY DEF Requests
<1>6. jobs \in Seq(Messages) /\ Len(jobs) < MaxJobs
  BY DEF IInv, JobTypes, ReadRequest
<1>7. /\ jobs' \in Seq(Messages) /\ Len(jobs') = Len(jobs) + 1
      /\ \A n \in 1 .. Len(jobs) : jobs'[n] = jobs[n]
      /\ jobs'[Len(jobs) + 1] = r
  BY <1>1, <1>4, <1>6, Appended
<1>8. Len(jobs') <= MaxJobs
  BY <1>6, <1>7, Requested
<1>. QED
  BY <1>4, <1>5, <1>7, <1>8 DEF Reads

(* Numbers within the bounds.                                              *)
LEMMA Bounds ==
    /\ MaxJobs \in Nat /\ MaxVersion \in Nat /\ 0 \in 0 .. MaxJobs
    /\ \A n \in 0 .. MaxJobs : n # 0 => n \in Job
    /\ \A v \in 0 .. MaxVersion : v < MaxVersion => v + 1 \in 0 .. MaxVersion
  BY ServerAssumption DEF Job

-----------------------------------------------------------------------------
(* Each action keeps the invariant.                                        *)

LEMMA ReadRequestKeeps ==
    ASSUME IInv, NEW id \in Ids, ReadRequest(id)
    PROVE  IInv'
<1>. USE DEF IInv, ReadRequest, Requests, Known, input, state, world
<1>1. Reads(id)
  BY RequestReads
<1>2. /\ Len(jobs) \in Nat /\ MaxJobs \in Nat /\ Len(jobs) + 1 \in 1 .. MaxJobs
      /\ \A n \in 1 .. Len(jobs) : n \in Job
      /\ cur \in Nat /\ cur <= Len(jobs) /\ (worker \in Busy => cur >= 1)
      /\ worker \in Busy => cur \in 1 .. Len(jobs) /\ jobs'[cur] = jobs[cur]
      /\ \A n \in 1 .. cur : jobs'[n] = jobs[n]
  BY <1>1, Requested DEF Reads, Busy
<1>3. PlanTypes' /\ Answered'
  BY DEF PlanTypes, Answered
<1>4. Simple'
  BY DEF Simple, Labels, Outcome
<1>5. JobTypes'
  BY <1>1, <1>2 DEF JobTypes, Messages, Reads
<1>6. MapTypes'
  BY <1>1, <1>2 DEF MapTypes, Outcome
<1>7. Formed'
  BY <1>1, <1>2 DEF Formed, Reads
<1>8. Order'
  BY DEF Order, Busy, Operating
<1>9. Registered'
  BY DEF Registered, Reachable, Pending, Received, Job, Busy, Operating, Order,
     JobTypes, Messages, MapTypes, Outcome, Answered
<1>10. Swept'
  BY DEF Swept, AllSwept, Pending, Received
<1>11. Methodical'
  BY <1>1, <1>2 DEF Methodical, Importing, Call, Busy, Operating
<1>12. PublishedTells'
  BY <1>1, <1>2 DEF PublishedTells, Call, Operating, Busy
<1>13. AnswerTells'
  <2>. SUFFICES ASSUME NEW n \in 1 .. Len(jobs) + 1, answer[n] # "none"
                PROVE  n \in published <=>
                            /\ jobs'[n].method = "import"
                            /\ answer[n] \in {"ok", "recovery"}
    BY <1>1 DEF AnswerTells, Received, Reads
  <2>1. n <= cur
    BY <1>2 DEF Answered, Job
  <2>2. n \in 1 .. Len(jobs) /\ jobs'[n] = jobs[n]
    BY <1>2, <2>1
  <2>. QED
    BY <2>2 DEF AnswerTells, Received
<1>14. Confirmed'
  BY <1>1, <1>2 DEF Confirmed, Importing, Call, Busy, Operating
<1>15. Current'
  BY <1>1, <1>2 DEF Current, Latest, Overtaken, Importing, Operating, Busy
<1>. QED
  BY <1>3, <1>4, <1>5, <1>6, <1>7, <1>8, <1>9, <1>10, <1>11, <1>12, <1>13,
     <1>14, <1>15

LEMMA QueueKeeps ==
    ASSUME IInv, Queue
    PROVE  IInv'
<1>. USE DEF IInv, Queue, input, state, world
<1>1. JobTypes' /\ MapTypes' /\ PlanTypes' /\ Formed' /\ Answered' /\
      Registered' /\ Methodical' /\ PublishedTells' /\ AnswerTells' /\
      Confirmed' /\ Current'
  BY DEF JobTypes, Messages, MapTypes, Outcome, PlanTypes, Formed, Answered,
     Registered, Reachable, Pending, Received, Job, Busy, Operating,
     Methodical, Importing, Call, PublishedTells, AnswerTells, Confirmed,
     Current, Latest, Overtaken
<1>2. Simple'
  BY DEF Simple, Labels, Outcome
<1>3. Order'
  BY DEF Order, Busy, Operating
<1>4. Swept'
  BY DEF Swept, AllSwept, Pending, Received
<1>. QED
  BY <1>1, <1>2, <1>3, <1>4

LEMMA CancelRequestKeeps ==
    ASSUME IInv, NEW id \in Ids, CancelRequest(id)
    PROVE  IInv'
<1>. USE DEF IInv, CancelRequest, input, state, world
<1>1. JobTypes' /\ MapTypes' /\ PlanTypes' /\ Formed' /\ Order' /\ Answered' /\
      Registered' /\ Methodical' /\ PublishedTells' /\ AnswerTells' /\
      Confirmed' /\ Current'
  BY DEF JobTypes, Messages, MapTypes, Outcome, PlanTypes, Formed, Order, Busy,
     Operating, Answered, Registered, Reachable, Pending, Received, Job,
     Methodical, Importing, Call, PublishedTells, AnswerTells, Confirmed,
     Current, Latest, Overtaken
<1>2. Simple'
  <2>1. inFlight[id] \in Job
    BY Bounds DEF MapTypes
  <2>. QED
    BY <2>1 DEF Simple
<1>3. Swept'
  BY DEF Swept, AllSwept, Pending, Received
<1>. QED
  BY <1>1, <1>2, <1>3

LEMMA ExitKeeps ==
    ASSUME IInv, Exit
    PROVE  IInv'
<1>. USE DEF IInv, Exit, input, state, world
<1>1. JobTypes' /\ MapTypes' /\ PlanTypes' /\ Formed' /\ Answered' /\
      Registered' /\ Methodical' /\ PublishedTells' /\ AnswerTells' /\
      Confirmed' /\ Current'
  BY DEF JobTypes, Messages, MapTypes, Outcome, PlanTypes, Formed, Answered,
     Registered, Reachable, Pending, Received, Job, Busy, Operating,
     Methodical, Importing, Call, PublishedTells, AnswerTells, Confirmed,
     Current, Latest, Overtaken
<1>2. Simple'
  BY DEF Simple, Labels, Outcome
<1>3. Order'
  BY DEF Order, Busy, Operating
<1>4. Swept'
  BY DEF Swept, AllSwept, Pending, Received
<1>. QED
  BY <1>1, <1>2, <1>3, <1>4

LEMMA UnreadableKeeps ==
    ASSUME IInv, Unreadable
    PROVE  IInv'
<1>. USE DEF IInv, Unreadable, input, state, world
<1>1. JobTypes' /\ MapTypes' /\ PlanTypes' /\ Formed' /\ Answered' /\
      Registered' /\ Methodical' /\ PublishedTells' /\ AnswerTells' /\
      Confirmed' /\ Current'
  BY DEF JobTypes, Messages, MapTypes, Outcome, PlanTypes, Formed, Answered,
     Registered, Reachable, Pending, Received, Job, Busy, Operating,
     Methodical, Importing, Call, PublishedTells, AnswerTells, Confirmed,
     Current, Latest, Overtaken
<1>2. Simple'
  BY DEF Simple, Labels, Outcome
<1>3. Order'
  BY DEF Order, Busy, Operating
<1>4. Swept'
  BY DEF Swept, AllSwept, Pending, Received
<1>. QED
  BY <1>1, <1>2, <1>3, <1>4

LEMMA SweepKeeps ==
    ASSUME IInv, Sweep
    PROVE  IInv'
<1>. USE DEF IInv, Sweep, input, state, world
<1>1. JobTypes' /\ MapTypes' /\ PlanTypes' /\ Formed' /\ Answered' /\
      Registered' /\ Methodical' /\ PublishedTells' /\ AnswerTells' /\
      Confirmed' /\ Current'
  BY DEF JobTypes, Messages, MapTypes, Outcome, PlanTypes, Formed, Answered,
     Registered, Reachable, Pending, Received, Job, Busy, Operating,
     Methodical, Importing, Call, PublishedTells, AnswerTells, Confirmed,
     Current, Latest, Overtaken
<1>2. Simple'
  <2>1. {inFlight[id] : id \in Ids} \ {0} \subseteq Job
    BY Bounds DEF MapTypes
  <2>. QED
    BY <2>1 DEF Simple
<1>3. Order'
  BY DEF Order, Busy, Operating
<1>4. Swept'
  <2>. SUFFICES ASSUME IdsUnique, NEW n \in Pending
                PROVE  n \in flag'
    BY DEF Swept, AllSwept, Pending, Received
  <2>1. n \in Job /\ n # 0 /\ jobs[n].id \in Ids
    BY Requested DEF Pending, Received, Messages, Job
  <2>2. inFlight[jobs[n].id] = n
    BY <2>1 DEF Registered, Reachable
  <2>. QED
    BY <2>1, <2>2
<1>. QED
  BY <1>1, <1>2, <1>3, <1>4

LEMMA JoinKeeps ==
    ASSUME IInv, Join
    PROVE  IInv'
<1>. USE DEF IInv, Join, input, state, world
<1>1. JobTypes' /\ MapTypes' /\ PlanTypes' /\ Formed' /\ Answered' /\
      Registered' /\ Methodical' /\ PublishedTells' /\ AnswerTells' /\
      Confirmed' /\ Current'
  BY DEF JobTypes, Messages, MapTypes, Outcome, PlanTypes, Formed, Answered,
     Registered, Reachable, Pending, Received, Job, Busy, Operating,
     Methodical, Importing, Call, PublishedTells, AnswerTells, Confirmed,
     Current, Latest, Overtaken
<1>2. Simple'
  BY DEF Simple, Labels, Outcome
<1>3. Order'
  BY DEF Order, Busy, Operating
<1>4. Swept'
  BY DEF Swept, AllSwept, Pending, Received
<1>. QED
  BY <1>1, <1>2, <1>3, <1>4

LEMMA TakeKeeps ==
    ASSUME IInv, Take
    PROVE  IInv'
<1>. USE DEF IInv, Take, Finish, input, state, world
<1>1. JobTypes' /\ MapTypes' /\ PlanTypes' /\ Formed' /\ AnswerTells'
  BY DEF JobTypes, Messages, MapTypes, Outcome, PlanTypes, Formed, AnswerTells,
     Received
<1>2. Simple'
  BY DEF Simple, Labels, Outcome
<1>3. Order'
  BY DEF Order, Busy, Operating
<1>4. Answered'
  BY DEF Answered, Order, Busy, Operating, MapTypes, Outcome
<1>5. Registered'
  BY DEF Registered, Reachable, Pending, Received, Job, Busy, Operating, Order,
     JobTypes, Messages, MapTypes, Outcome, Answered
<1>6. Swept'
  BY DEF Swept, AllSwept, Pending, Received, Registered, Reachable, Job, Busy,
     Operating, Order, MapTypes, Outcome, Simple, Labels
<1>7. Methodical'
  BY DEF Methodical, Importing, Call
<1>8. PublishedTells'
  BY DEF Simple, Labels, Outcome, JobTypes, Messages, MapTypes, PlanTypes,
     Formed, Order, Busy, Operating, Answered, Registered, Reachable, Pending,
     Received, Job, Swept, AllSwept, Methodical, Importing, Call,
     PublishedTells, AnswerTells, Confirmed, Current, Latest, Overtaken
<1>9. Confirmed'
  BY DEF Confirmed, Importing, Call
<1>10. Current'
  <2>1. /\ cur + 1 \in Nat /\ cur + 1 \in 1 .. Len(jobs) /\ cur + 1 \in Job
        /\ jobs[cur + 1].token < cur + 1
    BY Requested DEF Formed
  <2>2. /\ answer[cur + 1] = "none" /\ cur + 1 \notin published
        /\ answer \in [Job -> Outcome \cup {"none"}]
    <3>1. answer[cur + 1] = "none"
      BY <2>1 DEF Answered, Order
    <3>2. cur + 1 \notin published
      BY <2>1 DEF PublishedTells, Order
    <3>. QED
      BY <3>1, <3>2 DEF MapTypes
  <2>3. ASSUME NEW p \in plans, NEW n \in 1 .. cur + 1
        PROVE  /\ ~Overtaken(p, n)'
               /\ jobs[n].token = p.token => n \notin published
    <3>1. CASE n \in 1 .. cur
      BY <3>1, Requested DEF Current, Latest, Overtaken
    <3>2. CASE n = cur + 1
      BY <2>2, <3>2 DEF Overtaken
    <3>. QED
      BY <3>1, <3>2, Requested
  <2>4. \A p \in plans : p.token <= cur + 1 /\ p.token # cur + 1
    <3>1. \A p \in plans : p.token \in Nat
      BY DEF PlanTypes, Plan, Job
    <3>. QED
      BY <3>1, Requested DEF Current
  <2>. QED
    BY <2>1, <2>3, <2>4 DEF Current, Latest, Importing
<1>. QED
  BY <1>1, <1>2, <1>3, <1>4, <1>5, <1>6, <1>7, <1>8, <1>9, <1>10

LEMMA WorkerEndsKeeps ==
    ASSUME IInv, WorkerEnds
    PROVE  IInv'
<1>. USE DEF IInv, WorkerEnds, input, state, world
<1>1. JobTypes' /\ MapTypes' /\ PlanTypes' /\ Formed' /\ AnswerTells'
  BY DEF JobTypes, Messages, MapTypes, Outcome, PlanTypes, Formed, AnswerTells,
     Received
<1>2. Simple'
  BY DEF Simple, Labels, Outcome
<1>3. Order'
  BY DEF Order, Busy, Operating
<1>4. Answered'
  BY DEF Answered
<1>5. Registered'
  BY DEF Registered, Reachable, Pending, Received, Job, Busy, Operating
<1>6. Swept'
  BY DEF Swept, AllSwept, Pending, Received
<1>7. Methodical'
  BY DEF Methodical, Importing, Call
<1>8. PublishedTells'
  BY DEF PublishedTells, Call, Operating
<1>9. Confirmed'
  BY DEF Confirmed, Importing, Call
<1>10. Current'
  BY DEF Current, Latest, Overtaken, Importing, Operating
<1>. QED
  BY <1>1, <1>2, <1>3, <1>4, <1>5, <1>6, <1>7, <1>8, <1>9, <1>10

LEMMA RemoveKeeps ==
    ASSUME IInv, Remove
    PROVE  IInv'
<1>. USE DEF IInv, Remove, input, state, world
<1>1. JobTypes' /\ Formed' /\ AnswerTells'
  BY DEF JobTypes, Messages, Formed, AnswerTells, Received
<1>2. Simple'
  BY DEF Simple, Labels, Outcome
<1>3. MapTypes'
  <2>1. inFlight' \in [Ids -> 0 .. MaxJobs]
    BY Bounds DEF MapTypes
  <2>. QED
    BY <2>1 DEF MapTypes
<1>4. PlanTypes'
  BY DEF PlanTypes
<1>5. Order'
  BY DEF Order, Busy, Operating
<1>6. Answered'
  BY DEF Answered
<1>7. Registered'
  <2>. SUFFICES ASSUME IdsUnique
                PROVE  Reachable'
    BY DEF Registered
  <2>1. cur \in Job /\ cur \in Pending /\ Call.id \in Ids
    BY Requested DEF Busy, Pending, Received, Call, Messages
  <2>2. inFlight[Call.id] = cur /\ inFlight \in [Ids -> 0 .. MaxJobs]
    BY <2>1 DEF Registered, Reachable, Call, MapTypes
  <2>3. Pending' = Pending \ {cur}
    BY Requested DEF Pending, Received
  <2>. SUFFICES ASSUME NEW id \in Ids, NEW n \in Job
                PROVE  inFlight'[id] = n <=> n \in Pending' /\ jobs[n].id = id
    BY DEF Reachable
  <2>4. inFlight[id] = n <=> n \in Pending /\ jobs[n].id = id
    BY DEF Registered, Reachable
  <2>5. CASE id = Call.id
    BY <2>2, <2>3, <2>4, <2>5 DEF Job
  <2>6. CASE id # Call.id
    BY <2>2, <2>3, <2>4, <2>6 DEF Call
  <2>. QED
    BY <2>5, <2>6
<1>8. Swept'
  BY DEF Swept, AllSwept, Pending, Received
<1>9. Methodical'
  BY DEF Methodical, Importing, Call
<1>10. PublishedTells'
  BY DEF PublishedTells, Call, Operating
<1>11. Confirmed'
  BY DEF Confirmed, Importing, Call
<1>12. Current'
  BY DEF Current, Latest, Overtaken, Importing, Operating
<1>. QED
  BY <1>1, <1>2, <1>3, <1>4, <1>5, <1>6, <1>7, <1>8, <1>9, <1>10, <1>11, <1>12

LEMMA SendKeeps ==
    ASSUME IInv, Send
    PROVE  IInv'
<1>. USE DEF IInv, Send, input, state, world
<1>1. JobTypes' /\ PlanTypes' /\ Formed'
  BY DEF JobTypes, Messages, PlanTypes, Formed
<1>2. Simple'
  BY DEF Simple, Labels, Outcome
<1>3. MapTypes'
  BY DEF MapTypes, Outcome, Simple, Labels
<1>4. Order'
  BY DEF Order, Busy, Operating
<1>5. Answered'
  BY DEF Answered, Order, Busy, Operating, MapTypes, Outcome
<1>6. Registered'
  BY DEF Registered, Reachable, Pending, Received, Job, Busy, Operating
<1>7. Swept'
  BY DEF Swept, AllSwept, Pending, Received
<1>8. Methodical'
  BY DEF Methodical, Importing, Call
<1>9. PublishedTells'
  BY DEF PublishedTells, Call, Operating
<1>10. AnswerTells'
  BY DEF AnswerTells, Received, PublishedTells, Call, Operating, Order, Busy,
     MapTypes, Outcome, Answered
<1>11. Confirmed'
  BY DEF Confirmed, Importing, Call
<1>12. Current'
  BY DEF Current, Latest, Overtaken, Importing, Operating
<1>. QED
  BY <1>1, <1>2, <1>3, <1>4, <1>5, <1>6, <1>7, <1>8, <1>9, <1>10, <1>11, <1>12

LEMMA SendDiesKeeps ==
    ASSUME IInv, SendDies
    PROVE  IInv'
<1>. USE DEF IInv, SendDies, input, state, world
<1>1. JobTypes' /\ MapTypes' /\ PlanTypes' /\ Formed' /\ AnswerTells'
  BY DEF JobTypes, Messages, MapTypes, Outcome, PlanTypes, Formed, AnswerTells,
     Received
<1>2. Simple'
  BY DEF Simple, Labels, Outcome
<1>3. Order'
  BY DEF Order, Busy, Operating
<1>4. Answered'
  BY DEF Answered
<1>5. Registered'
  BY DEF Registered, Reachable, Pending, Received, Job, Busy, Operating
<1>6. Swept'
  BY DEF Swept, AllSwept, Pending, Received
<1>7. Methodical'
  BY DEF Methodical, Importing, Call
<1>8. PublishedTells'
  BY DEF PublishedTells, Call, Operating
<1>9. Confirmed'
  BY DEF Confirmed, Importing, Call
<1>10. Current'
  BY DEF Current, Latest, Overtaken, Importing, Operating
<1>. QED
  BY <1>1, <1>2, <1>3, <1>4, <1>5, <1>6, <1>7, <1>8, <1>9, <1>10

LEMMA RefuseKeeps ==
    ASSUME IInv, Refuse
    PROVE  IInv'
<1>. USE DEF IInv, Refuse, Finish, input, state, world
<1>1. JobTypes' /\ MapTypes' /\ PlanTypes' /\ Formed' /\ AnswerTells'
  BY DEF JobTypes, Messages, MapTypes, Outcome, PlanTypes, Formed, AnswerTells,
     Received
<1>2. Simple'
  BY DEF Simple, Labels, Outcome
<1>3. Order'
  BY DEF Order, Busy, Operating
<1>4. Answered'
  BY DEF Answered
<1>5. Registered'
  BY DEF Registered, Reachable, Pending, Received, Job, Busy, Operating
<1>6. Swept'
  BY DEF Swept, AllSwept, Pending, Received
<1>7. Methodical'
  BY DEF Methodical, Importing, Call
<1>8. PublishedTells'
  BY DEF PublishedTells, Call, Operating
<1>9. Confirmed'
  BY DEF Confirmed, Importing, Call
<1>10. Current'
  BY DEF Current, Latest, Overtaken, Importing, Operating
<1>. QED
  BY <1>1, <1>2, <1>3, <1>4, <1>5, <1>6, <1>7, <1>8, <1>9, <1>10

LEMMA InitializeKeeps ==
    ASSUME IInv, Initialize
    PROVE  IInv'
<1>. USE DEF IInv, Initialize, Finish, input, state, world
<1>1. JobTypes' /\ MapTypes' /\ PlanTypes' /\ Formed' /\ AnswerTells'
  BY DEF JobTypes, Messages, MapTypes, Outcome, PlanTypes, Formed, AnswerTells,
     Received
<1>2. Simple'
  BY DEF Simple, Labels, Outcome
<1>3. Order'
  BY DEF Order, Busy, Operating
<1>4. Answered'
  BY DEF Answered
<1>5. Registered'
  BY DEF Registered, Reachable, Pending, Received, Job, Busy, Operating
<1>6. Swept'
  BY DEF Swept, AllSwept, Pending, Received
<1>7. Methodical'
  BY DEF Methodical, Importing, Call
<1>8. PublishedTells'
  BY DEF PublishedTells, Call, Operating
<1>9. Confirmed'
  BY DEF Confirmed, Importing, Call
<1>10. Current'
  BY DEF Current, Latest, Overtaken, Importing, Operating, Confirmed, Call,
     Order, Busy
<1>. QED
  BY <1>1, <1>2, <1>3, <1>4, <1>5, <1>6, <1>7, <1>8, <1>9, <1>10

LEMMA ShutdownKeeps ==
    ASSUME IInv, Shutdown
    PROVE  IInv'
<1>. USE DEF IInv, Shutdown, Serving, Finish, input, state, world
<1>1. JobTypes' /\ MapTypes' /\ Formed' /\ AnswerTells'
  BY DEF JobTypes, Messages, MapTypes, Outcome, Formed, AnswerTells, Received
<1>2. Simple'
  BY DEF Simple, Labels, Outcome
<1>3. PlanTypes'
  BY DEF PlanTypes
<1>4. Order'
  BY DEF Order, Busy, Operating
<1>5. Answered'
  BY DEF Answered
<1>6. Registered'
  BY DEF Registered, Reachable, Pending, Received, Job, Busy, Operating
<1>7. Swept'
  BY DEF Swept, AllSwept, Pending, Received
<1>8. Methodical'
  BY DEF Methodical, Importing, Call
<1>9. PublishedTells'
  BY DEF PublishedTells, Call, Operating
<1>10. Confirmed'
  BY DEF Confirmed, Importing, Call
<1>11. Current'
  BY DEF Current, Latest, Overtaken, Importing, Operating
<1>. QED
  BY <1>1, <1>2, <1>3, <1>4, <1>5, <1>6, <1>7, <1>8, <1>9, <1>10, <1>11

LEMMA ConnectKeeps ==
    ASSUME IInv, Connect
    PROVE  IInv'
<1>. USE DEF IInv, Connect, Serving, Finish, input, state, world
<1>1. JobTypes' /\ MapTypes' /\ Formed' /\ AnswerTells'
  BY DEF JobTypes, Messages, MapTypes, Outcome, Formed, AnswerTells, Received
<1>2. Simple'
  BY DEF Simple, Labels, Outcome
<1>3. PlanTypes'
  BY DEF PlanTypes
<1>4. Order'
  BY DEF Order, Busy, Operating
<1>5. Answered'
  BY DEF Answered
<1>6. Registered'
  BY DEF Registered, Reachable, Pending, Received, Job, Busy, Operating
<1>7. Swept'
  BY DEF Swept, AllSwept, Pending, Received
<1>8. Methodical'
  BY DEF Methodical, Importing, Call
<1>9. PublishedTells'
  BY DEF PublishedTells, Call, Operating
<1>10. Confirmed'
  BY DEF Confirmed, Importing, Call
<1>11. Current'
  BY DEF Current, Latest, Overtaken, Importing, Operating
<1>. QED
  BY <1>1, <1>2, <1>3, <1>4, <1>5, <1>6, <1>7, <1>8, <1>9, <1>10, <1>11

LEMMA ReadKeeps ==
    ASSUME IInv, Read
    PROVE  IInv'
<1>. USE DEF IInv, Read, Serving, Finish, input, state, world
<1>1. JobTypes' /\ MapTypes' /\ PlanTypes' /\ Formed' /\ AnswerTells'
  BY DEF JobTypes, Messages, MapTypes, Outcome, PlanTypes, Formed, AnswerTells,
     Received
<1>2. Simple'
  BY DEF Simple, Labels, Outcome
<1>3. Order'
  BY DEF Order, Busy, Operating
<1>4. Answered'
  BY DEF Answered
<1>5. Registered'
  BY DEF Registered, Reachable, Pending, Received, Job, Busy, Operating
<1>6. Swept'
  BY DEF Swept, AllSwept, Pending, Received
<1>7. Methodical'
  BY DEF Methodical, Importing, Call
<1>8. PublishedTells'
  BY DEF PublishedTells, Call, Operating
<1>9. Confirmed'
  BY DEF Confirmed, Importing, Call
<1>10. Current'
  BY DEF Current, Latest, Overtaken, Importing, Operating, Confirmed, Call,
     Order, Busy
<1>. QED
  BY <1>1, <1>2, <1>3, <1>4, <1>5, <1>6, <1>7, <1>8, <1>9, <1>10

LEMMA ApplyKeeps ==
    ASSUME IInv, Apply
    PROVE  IInv'
<1>. USE DEF IInv, Apply, Serving, Finish, input, state, world
<1>1. JobTypes' /\ MapTypes' /\ Formed' /\ AnswerTells'
  BY DEF JobTypes, Messages, MapTypes, Outcome, Formed, AnswerTells, Received
<1>2. Simple'
  BY DEF Simple, Labels, Outcome
<1>3. PlanTypes'
  BY DEF PlanTypes
<1>4. Order'
  BY DEF Order, Busy, Operating
<1>5. Answered'
  BY DEF Answered
<1>6. Registered'
  BY DEF Registered, Reachable, Pending, Received, Job, Busy, Operating
<1>7. Swept'
  BY DEF Swept, AllSwept, Pending, Received
<1>8. Methodical'
  BY DEF Methodical, Importing, Call
<1>9. PublishedTells'
  BY DEF PublishedTells, Call, Operating
<1>10. Confirmed'
  BY DEF Confirmed, Importing, Call
<1>11. Current'
  BY DEF Current, Latest, Overtaken, Importing, Operating
<1>. QED
  BY <1>1, <1>2, <1>3, <1>4, <1>5, <1>6, <1>7, <1>8, <1>9, <1>10, <1>11

LEMMA FailKeeps ==
    ASSUME IInv, Fail
    PROVE  IInv'
<1>. USE DEF IInv, Fail, Finish, input, state, world
<1>1. JobTypes' /\ MapTypes' /\ PlanTypes' /\ Formed' /\ AnswerTells'
  BY DEF JobTypes, Messages, MapTypes, Outcome, PlanTypes, Formed, AnswerTells,
     Received
<1>2. Simple'
  BY DEF Simple, Labels, Outcome
<1>3. Order'
  BY DEF Order, Busy, Operating
<1>4. Answered'
  BY DEF Answered
<1>5. Registered'
  BY DEF Registered, Reachable, Pending, Received, Job, Busy, Operating
<1>6. Swept'
  BY DEF Swept, AllSwept, Pending, Received
<1>7. Methodical'
  BY DEF Methodical, Importing, Call
<1>8. PublishedTells'
  BY DEF PublishedTells, Call, Operating
<1>9. Confirmed'
  BY DEF Confirmed, Importing, Call
<1>10. Current'
  BY DEF Current, Latest, Overtaken, Importing, Operating
<1>. QED
  BY <1>1, <1>2, <1>3, <1>4, <1>5, <1>6, <1>7, <1>8, <1>9, <1>10

LEMMA PrepareOpensKeeps ==
    ASSUME IInv, PrepareOpens
    PROVE  IInv'
<1>. USE DEF IInv, PrepareOpens, Serving, input, state, world
<1>1. JobTypes' /\ MapTypes' /\ Formed' /\ AnswerTells'
  BY DEF JobTypes, Messages, MapTypes, Outcome, Formed, AnswerTells, Received
<1>2. Simple'
  BY DEF Simple, Labels, Outcome
<1>3. PlanTypes'
  <2>1. /\ cur \in Job /\ Call.base \in Bases /\ epoch \in 0 .. MaxJobs
        /\ db[Call.base] \in 0 .. MaxVersion /\ source \in 0 .. MaxSource
    BY Requested DEF Busy, Operating, Formed, Call, Order, MapTypes, Simple
  <2>2. draft' \in Plan
    BY <2>1 DEF Plan
  <2>. QED
    BY <2>2 DEF PlanTypes
<1>4. Order'
  BY DEF Order, Busy, Operating
<1>5. Answered'
  BY DEF Answered
<1>6. Registered'
  BY DEF Registered, Reachable, Pending, Received, Job, Busy, Operating
<1>7. Swept'
  BY DEF Swept, AllSwept, Pending, Received
<1>8. Methodical'
  BY DEF Methodical, Importing, Call
<1>9. PublishedTells'
  BY DEF PublishedTells, Call, Operating
<1>10. Confirmed'
  <2>1. /\ cur \in Job /\ Call.base \in Bases /\ epoch \in 0 .. MaxJobs
        /\ db[Call.base] \in 0 .. MaxVersion /\ source \in 0 .. MaxSource
    BY Requested DEF Busy, Operating, Formed, Call, Order, MapTypes, Simple
  <2>2. draft' \in Plan
    BY <2>1 DEF Plan
  <2>. QED
    BY <2>2 DEF Confirmed, Importing, Call
<1>11. Current'
  BY DEF Current, Latest, Overtaken, Importing, Operating
<1>. QED
  BY <1>1, <1>2, <1>3, <1>4, <1>5, <1>6, <1>7, <1>8, <1>9, <1>10, <1>11

LEMMA PrepareEndsKeeps ==
    ASSUME IInv, PrepareEnds
    PROVE  IInv'
<1>. USE DEF IInv, PrepareEnds, Finish, input, state, world
<1>1. JobTypes' /\ MapTypes' /\ Formed' /\ AnswerTells'
  BY DEF JobTypes, Messages, MapTypes, Outcome, Formed, AnswerTells, Received
<1>2. Simple'
  BY DEF Simple, Labels, Outcome
<1>3. PlanTypes'
  BY DEF Simple, Labels, Outcome, JobTypes, Messages, MapTypes, PlanTypes,
     Formed, Order, Busy, Operating, Answered, Registered, Reachable, Pending,
     Received, Job, Swept, AllSwept, Methodical, Importing, Call,
     PublishedTells, AnswerTells, Confirmed, Current, Latest, Overtaken
<1>4. Order'
  BY DEF Order, Busy, Operating
<1>5. Answered'
  BY DEF Answered
<1>6. Registered'
  BY DEF Registered, Reachable, Pending, Received, Job, Busy, Operating
<1>7. Swept'
  BY DEF Swept, AllSwept, Pending, Received
<1>8. Methodical'
  BY DEF Methodical, Importing, Call
<1>9. PublishedTells'
  BY DEF PublishedTells, Call, Operating, Order, Busy, Simple, Labels, Outcome,
     Methodical, Importing
<1>10. Confirmed'
  BY DEF Confirmed, Importing, Call
<1>11. Current'
  <2>1. cur \in 1 .. Len(jobs) /\ draft.token = cur /\ draft.base = Call.base
    BY DEF Order, Busy, Operating, Confirmed
  <2>2. \A p \in plans : p.token < cur
    BY <2>1 DEF Current, Operating, PlanTypes, Plan, Job
  <2>3. Call.token < cur /\ \A n \in 1 .. Len(jobs) : jobs[n].token < n
    BY <2>1 DEF Formed, Call
  <2>4. plans' \subseteq {p \in plans : p.base # draft.base} \cup {draft}
    OBVIOUS
  <2>5. \A p \in plans' : Latest(p)'
    <3>. SUFFICES ASSUME NEW p \in plans', NEW n \in 1 .. cur
                  PROVE  /\ ~Overtaken(p, n)'
                         /\ jobs[n].token = p.token => n \notin published
      BY DEF Latest
    <3>1. CASE p \in plans /\ p.base # draft.base
      BY <2>1, <3>1 DEF Current, Latest, Overtaken, Call, Operating
    <3>2. CASE p = draft
      <4>1. n <= p.token /\ jobs[n].token # p.token
        BY <2>1, <2>3, <3>2
      <4>. QED
        BY <2>1, <3>2, <4>1 DEF Overtaken
    <3>. QED
      BY <2>4, <3>1, <3>2
  <2>. QED
    BY <2>1, <2>2, <2>4, <2>5 DEF Current, Operating, Importing
<1>. QED
  BY <1>1, <1>2, <1>3, <1>4, <1>5, <1>6, <1>7, <1>8, <1>9, <1>10, <1>11

LEMMA ImportTakesPlanKeeps ==
    ASSUME IInv, ImportTakesPlan
    PROVE  IInv'
<1>. USE DEF IInv, ImportTakesPlan, Serving, Finish, input, state, world
<1>1. JobTypes' /\ MapTypes' /\ Formed' /\ AnswerTells'
  BY DEF JobTypes, Messages, MapTypes, Outcome, Formed, AnswerTells, Received
<1>2. Simple'
  BY DEF Simple, Labels, Outcome
<1>3. PlanTypes'
  BY DEF PlanTypes
<1>4. Order'
  BY DEF Order, Busy, Operating
<1>5. Answered'
  BY DEF Answered
<1>6. Registered'
  BY DEF Registered, Reachable, Pending, Received, Job, Busy, Operating
<1>7. Swept'
  BY DEF Swept, AllSwept, Pending, Received
<1>8. Methodical'
  BY DEF Methodical, Importing, Call
<1>9. PublishedTells'
  BY DEF PublishedTells, Call, Operating
<1>10. Confirmed'
  BY DEF Simple, Labels, Outcome, JobTypes, Messages, MapTypes, PlanTypes,
     Formed, Order, Busy, Operating, Answered, Registered, Reachable, Pending,
     Received, Job, Swept, AllSwept, Methodical, Importing, Call,
     PublishedTells, AnswerTells, Confirmed, Current, Latest, Overtaken
<1>11. Current'
  BY DEF Current, Latest, Overtaken, Importing, Operating
<1>. QED
  BY <1>1, <1>2, <1>3, <1>4, <1>5, <1>6, <1>7, <1>8, <1>9, <1>10, <1>11

LEMMA ImportExpiredKeeps ==
    ASSUME IInv, ImportExpired
    PROVE  IInv'
<1>. USE DEF IInv, ImportExpired, Serving, Finish, input, state, world
<1>1. JobTypes' /\ MapTypes' /\ PlanTypes' /\ Formed' /\ AnswerTells'
  BY DEF JobTypes, Messages, MapTypes, Outcome, PlanTypes, Formed, AnswerTells,
     Received
<1>2. Simple'
  BY DEF Simple, Labels, Outcome
<1>3. Order'
  BY DEF Order, Busy, Operating
<1>4. Answered'
  BY DEF Answered
<1>5. Registered'
  BY DEF Registered, Reachable, Pending, Received, Job, Busy, Operating
<1>6. Swept'
  BY DEF Swept, AllSwept, Pending, Received
<1>7. Methodical'
  BY DEF Methodical, Importing, Call
<1>8. PublishedTells'
  BY DEF PublishedTells, Call, Operating
<1>9. Confirmed'
  BY DEF Confirmed, Importing, Call
<1>10. Current'
  BY DEF Current, Latest, Overtaken, Importing, Operating
<1>. QED
  BY <1>1, <1>2, <1>3, <1>4, <1>5, <1>6, <1>7, <1>8, <1>9, <1>10

LEMMA PublishOpensKeeps ==
    ASSUME IInv, PublishOpens
    PROVE  IInv'
<1>. USE DEF IInv, PublishOpens, input, state, world
<1>1. JobTypes' /\ MapTypes' /\ PlanTypes' /\ Formed' /\ AnswerTells'
  BY DEF JobTypes, Messages, MapTypes, Outcome, PlanTypes, Formed, AnswerTells,
     Received
<1>2. Simple'
  BY DEF Simple, Labels, Outcome
<1>3. Order'
  BY DEF Order, Busy, Operating
<1>4. Answered'
  BY DEF Answered
<1>5. Registered'
  BY DEF Registered, Reachable, Pending, Received, Job, Busy, Operating
<1>6. Swept'
  BY DEF Swept, AllSwept, Pending, Received
<1>7. Methodical'
  BY DEF Methodical, Importing, Call
<1>8. PublishedTells'
  BY DEF PublishedTells, Call, Operating
<1>9. Confirmed'
  BY DEF Confirmed, Importing, Call
<1>10. Current'
  BY DEF Current, Latest, Overtaken, Importing, Operating
<1>. QED
  BY <1>1, <1>2, <1>3, <1>4, <1>5, <1>6, <1>7, <1>8, <1>9, <1>10

LEMMA PublishChecksKeeps ==
    ASSUME IInv, PublishChecks
    PROVE  IInv'
<1>. USE DEF IInv, PublishChecks, input, state, world
<1>1. JobTypes' /\ MapTypes' /\ PlanTypes' /\ Formed' /\ AnswerTells'
  BY DEF JobTypes, Messages, MapTypes, Outcome, PlanTypes, Formed, AnswerTells,
     Received
<1>2. Simple'
  BY DEF Simple, Labels, Outcome
<1>3. Order'
  BY DEF Order, Busy, Operating
<1>4. Answered'
  BY DEF Answered
<1>5. Registered'
  BY DEF Registered, Reachable, Pending, Received, Job, Busy, Operating
<1>6. Swept'
  BY DEF Swept, AllSwept, Pending, Received
<1>7. Methodical'
  BY DEF Methodical, Importing, Call
<1>8. PublishedTells'
  BY DEF PublishedTells, Call, Operating
<1>9. Confirmed'
  BY DEF Confirmed, Importing, Call
<1>10. Current'
  BY DEF Current, Latest, Overtaken, Importing, Operating
<1>. QED
  BY <1>1, <1>2, <1>3, <1>4, <1>5, <1>6, <1>7, <1>8, <1>9, <1>10

LEMMA CommitKeeps ==
    ASSUME IInv, Commit
    PROVE  IInv'
<1>. USE DEF IInv, Commit, Finish, input, state, world
<1>1. JobTypes' /\ PlanTypes' /\ Formed'
  BY DEF JobTypes, Messages, PlanTypes, Formed
<1>2. Simple'
  <2>1. cur \in Job /\ versions' \in 0 .. MaxVersion
    BY Bounds, Requested DEF Simple, Busy, Operating
  <2>2. published' \subseteq Job
    BY <2>1 DEF Simple
  <2>. QED
    BY <2>1, <2>2 DEF Simple, Labels, Outcome
<1>3. MapTypes'
  <2>1. versions + 1 \in 0 .. MaxVersion
    BY Bounds DEF Simple
  <2>2. db' \in [Bases -> 0 .. MaxVersion]
    BY <2>1 DEF MapTypes
  <2>. QED
    BY <2>2 DEF MapTypes
<1>4. Order'
  BY DEF Order, Busy, Operating
<1>5. Answered'
  BY DEF Answered
<1>6. Registered'
  BY DEF Registered, Reachable, Pending, Received, Job, Busy, Operating
<1>7. Swept'
  BY DEF Swept, AllSwept, Pending, Received
<1>8. Methodical'
  BY DEF Methodical, Importing, Call
<1>9. PublishedTells'
  BY DEF PublishedTells, Call, Operating, Order, Busy, Simple, Labels, Outcome,
     Methodical, Importing
<1>10. AnswerTells'
  <2>. SUFFICES ASSUME NEW n \in 1 .. Len(jobs), answer[n] # "none"
                PROVE  n \in published' <=>
                            /\ jobs[n].method = "import"
                            /\ answer[n] \in {"ok", "recovery"}
    BY DEF AnswerTells, Received
  <2>1. n # cur
    BY Requested DEF Answered
  <2>. QED
    BY <2>1 DEF AnswerTells, Received
<1>11. Confirmed'
  BY DEF Confirmed, Importing, Call
<1>12. Current'
  BY DEF Simple, Labels, Outcome, JobTypes, Messages, MapTypes, PlanTypes,
     Formed, Order, Busy, Operating, Answered, Registered, Reachable, Pending,
     Received, Job, Swept, AllSwept, Methodical, Importing, Call,
     PublishedTells, AnswerTells, Confirmed, Current, Latest, Overtaken
<1>. QED
  BY <1>1, <1>2, <1>3, <1>4, <1>5, <1>6, <1>7, <1>8, <1>9, <1>10, <1>11, <1>12

LEMMA CommitFailsKeeps ==
    ASSUME IInv, CommitFails
    PROVE  IInv'
<1>. USE DEF IInv, CommitFails, Finish, FailedOrCancelled, input, state, world
<1>1. JobTypes' /\ MapTypes' /\ PlanTypes' /\ Formed' /\ AnswerTells'
  BY DEF JobTypes, Messages, MapTypes, Outcome, PlanTypes, Formed, AnswerTells,
     Received
<1>2. Simple'
  BY DEF Simple, Labels, Outcome
<1>3. Order'
  BY DEF Order, Busy, Operating
<1>4. Answered'
  BY DEF Answered
<1>5. Registered'
  BY DEF Registered, Reachable, Pending, Received, Job, Busy, Operating
<1>6. Swept'
  BY DEF Swept, AllSwept, Pending, Received
<1>7. Methodical'
  BY DEF Methodical, Importing, Call
<1>8. PublishedTells'
  BY DEF PublishedTells, Call, Operating
<1>9. Confirmed'
  BY DEF Confirmed, Importing, Call
<1>10. Current'
  BY DEF Current, Latest, Overtaken, Importing, Operating
<1>. QED
  BY <1>1, <1>2, <1>3, <1>4, <1>5, <1>6, <1>7, <1>8, <1>9, <1>10

LEMMA PlatformWritesKeeps ==
    ASSUME IInv, NEW b \in Bases, PlatformWrites(b)
    PROVE  IInv'
<1>. USE DEF IInv, PlatformWrites, Locked, input, state, world
<1>1. JobTypes' /\ PlanTypes' /\ Formed' /\ Order' /\ Answered' /\ Registered'
      /\ Swept' /\ Methodical' /\ PublishedTells' /\ AnswerTells' /\ Current'
  BY DEF JobTypes, Messages, PlanTypes, Formed, Order, Busy, Operating,
     Answered, Registered, Reachable, Pending, Received, Job, Swept, AllSwept,
     Methodical, Importing, Call, PublishedTells, AnswerTells, Current, Latest,
     Overtaken
<1>2. Simple'
  BY Requested, ServerAssumption DEF Simple, Labels, Outcome, Busy, Operating
<1>3. MapTypes'
  BY Requested, ServerAssumption DEF MapTypes, Outcome, Simple, Busy, Operating
<1>4. Confirmed'
  BY DEF Confirmed, Importing, Call
<1>. QED
  BY <1>1, <1>2, <1>3, <1>4

LEMMA UserEditsSourceKeeps ==
    ASSUME IInv, UserEditsSource
    PROVE  IInv'
<1>. USE DEF IInv, UserEditsSource, input, state, world
<1>1. JobTypes' /\ MapTypes' /\ PlanTypes' /\ Formed' /\ Order' /\ Answered' /\
      Registered' /\ Swept' /\ Methodical' /\ PublishedTells' /\ AnswerTells'
      /\ Confirmed' /\ Current'
  BY DEF JobTypes, Messages, MapTypes, Outcome, PlanTypes, Formed, Order, Busy,
     Operating, Answered, Registered, Reachable, Pending, Received, Job, Swept,
     AllSwept, Methodical, Importing, Call, PublishedTells, AnswerTells,
     Confirmed, Current, Latest, Overtaken
<1>2. Simple'
  BY Requested, ServerAssumption DEF Simple, Labels, Outcome, Busy, Operating
<1>. QED
  BY <1>1, <1>2

LEMMA StutterKeeps ==
    ASSUME IInv, UNCHANGED vars
    PROVE  IInv'
<1>1. /\ UNCHANGED <<reader, broken, code, jobs, queued, inFlight>>
      /\ UNCHANGED <<initialized, down, epoch, plans, db, versions, source>>
      /\ UNCHANGED <<flag, worker, cur, outcome, answer, draft, published>>
  BY DEF vars, input, state, world
<1>2. Simple' /\ JobTypes' /\ MapTypes' /\ PlanTypes'
  BY <1>1 DEF IInv, Simple, JobTypes, MapTypes, PlanTypes
<1>3. Formed' /\ Order' /\ Answered'
  BY <1>1 DEF IInv, Formed, Order, Answered
<1>4. Pending' = Pending
  BY <1>1 DEF Pending, Received
<1>5. Reachable' <=> Reachable
  BY <1>1, <1>4 DEF Reachable
<1>6. AllSwept' <=> AllSwept
  BY <1>1, <1>4 DEF AllSwept
<1>7. Registered' /\ Swept'
  BY <1>5, <1>6 DEF IInv, Registered, Swept
<1>8. Call' = Call
  BY <1>1 DEF Call
<1>9. Methodical' /\ Confirmed'
  BY <1>1, <1>8 DEF IInv, Methodical, Confirmed
<1>10. PublishedTells'
  BY <1>1, <1>8 DEF IInv, PublishedTells
<1>11. AnswerTells' <=> AnswerTells
  BY <1>1 DEF AnswerTells, Received
<1>12. Current'
  BY <1>1 DEF IInv, Current, Latest, Overtaken
<1>. QED
  BY <1>2, <1>3, <1>7, <1>9, <1>10, <1>11, <1>12 DEF IInv

-----------------------------------------------------------------------------
(* The invariant holds at first, and each step keeps it.                   *)
LEMMA InitIInv == Init => IInv
<1>. SUFFICES ASSUME Init
              PROVE  IInv
  OBVIOUS
<1>. USE DEF Init
<1>1. Simple /\ JobTypes /\ MapTypes /\ PlanTypes
  <2>1. 0 \in 0 .. MaxVersion /\ 0 \in 0 .. MaxSource /\ 0 \in 0 .. MaxJobs
    BY ServerAssumption
  <2>2. Simple
    <3>1. reader = "reading" /\ broken \in BOOLEAN /\ code = 2
      OBVIOUS
    <3>2. worker \in Labels /\ outcome \in Outcome
      BY DEF Labels, Outcome
    <3>3. /\ initialized \in BOOLEAN /\ down \in BOOLEAN
          /\ versions \in 0 .. MaxVersion /\ source \in 0 .. MaxSource
          /\ flag \subseteq Job /\ published \subseteq Job
      BY <2>1
    <3>. QED
      BY <3>1, <3>2, <3>3 DEF Simple
  <2>3. JobTypes
    BY ServerAssumption DEF JobTypes
  <2>4. MapTypes
    BY <2>1 DEF MapTypes
  <2>. QED
    BY <2>2, <2>3, <2>4 DEF PlanTypes
<1>2. Formed /\ Order /\ Answered /\ Methodical
  BY DEF Formed, Order, Busy, Operating, Answered, Methodical, Importing
<1>3. Pending = {}
  BY DEF Pending, Received
<1>4. Registered /\ Swept
  BY <1>3 DEF Registered, Reachable, Swept, AllSwept, Job
<1>5. PublishedTells /\ AnswerTells /\ Confirmed /\ Current
  BY DEF PublishedTells, AnswerTells, Received, Confirmed, Importing, Current
<1>. QED
  BY <1>1, <1>2, <1>4, <1>5 DEF IInv

LEMMA NextKeeps ==
    ASSUME IInv, [Next]_vars
    PROVE  IInv'
<1>1. ASSUME NEW id \in Ids, ReadRequest(id)
      PROVE  IInv'
  BY <1>1, ReadRequestKeeps
<1>2. CASE Queue
  BY <1>2, QueueKeeps
<1>3. ASSUME NEW id \in Ids, CancelRequest(id)
      PROVE  IInv'
  BY <1>3, CancelRequestKeeps
<1>4. CASE Exit
  BY <1>4, ExitKeeps
<1>5. CASE Unreadable
  BY <1>5, UnreadableKeeps
<1>6. CASE Sweep
  BY <1>6, SweepKeeps
<1>7. CASE Join
  BY <1>7, JoinKeeps
<1>8. CASE Take
  BY <1>8, TakeKeeps
<1>9. CASE WorkerEnds
  BY <1>9, WorkerEndsKeeps
<1>10. CASE Remove
  BY <1>10, RemoveKeeps
<1>11. CASE Send
  BY <1>11, SendKeeps
<1>12. CASE SendDies
  BY <1>12, SendDiesKeeps
<1>13. CASE Refuse
  BY <1>13, RefuseKeeps
<1>14. CASE Initialize
  BY <1>14, InitializeKeeps
<1>15. CASE Shutdown
  BY <1>15, ShutdownKeeps
<1>16. CASE Connect
  BY <1>16, ConnectKeeps
<1>17. CASE Read
  BY <1>17, ReadKeeps
<1>18. CASE Apply
  BY <1>18, ApplyKeeps
<1>19. CASE Fail
  BY <1>19, FailKeeps
<1>20. CASE PrepareOpens
  BY <1>20, PrepareOpensKeeps
<1>21. CASE PrepareEnds
  BY <1>21, PrepareEndsKeeps
<1>22. CASE ImportTakesPlan
  BY <1>22, ImportTakesPlanKeeps
<1>23. CASE ImportExpired
  BY <1>23, ImportExpiredKeeps
<1>24. CASE PublishOpens
  BY <1>24, PublishOpensKeeps
<1>25. CASE PublishChecks
  BY <1>25, PublishChecksKeeps
<1>26. CASE Commit
  BY <1>26, CommitKeeps
<1>27. CASE CommitFails
  BY <1>27, CommitFailsKeeps
<1>28. ASSUME NEW b \in Bases, PlatformWrites(b)
      PROVE  IInv'
  BY <1>28, PlatformWritesKeeps
<1>29. CASE UserEditsSource
  BY <1>29, UserEditsSourceKeeps
<1>30. CASE UNCHANGED vars
  BY <1>30, StutterKeeps
<1>. QED
  BY <1>1, <1>2, <1>3, <1>4, <1>5, <1>6, <1>7, <1>8, <1>9, <1>10, <1>11,
     <1>12, <1>13, <1>14, <1>15, <1>16, <1>17, <1>18, <1>19, <1>20, <1>21,
     <1>22, <1>23, <1>24, <1>25, <1>26, <1>27, <1>28, <1>29, <1>30 DEF
     Next, WorkerStep, Operation, ReaderStep, Client, Exited

THEOREM Invariant == Spec => []IInv
<1>1. Init => IInv
  BY InitIInv
<1>2. IInv /\ [Next]_vars => IInv'
  BY NextKeeps
<1>. QED
  BY <1>1, <1>2, PTL DEF Spec

(* Every variable keeps its type, for any number of requests, ids and      *)
(* infobases.                                                              *)
THEOREM Typing == Spec => []TypeOK
<1>1. IInv => TypeOK
  <2>. SUFFICES ASSUME IInv
                PROVE  TypeOK
    OBVIOUS
  <2>1. /\ queued \in 0 .. MaxJobs /\ cur \in 0 .. MaxJobs
        /\ epoch \in 0 .. MaxJobs
    BY Requested DEF IInv, Order
  <2>. QED
    BY <2>1 DEF IInv, TypeOK, Simple, Labels, JobTypes, Messages, MapTypes,
                PlanTypes
<1>. QED
  BY <1>1, Invariant, PTL

(* A cancellation reaches the request the client means, as long as the     *)
(* client uses an id again only after its answer (mod.rs: in_flight).      *)
THEOREM RequestsReachable ==
    ASSUME IdsUnique
    PROVE  Spec => []Reachable
<1>1. IInv => Reachable
  BY DEF IInv, Registered
<1>. QED
  BY <1>1, Invariant, PTL

(* With such a client, nothing that waits or runs escapes the sweep at the *)
(* end of the input (mod.rs: serve).                                       *)
THEOREM EverythingSwept ==
    ASSUME IdsUnique
    PROVE  Spec => []AllSwept
<1>1. IInv => AllSwept
  BY DEF IInv, Swept
<1>. QED
  BY <1>1, Invariant, PTL

(* Whatever races, the answer to an import tells whether the database was  *)
(* replaced (file_import.rs: finish_publication).                          *)
THEOREM AnswersTell == Spec => []AnswerTells
<1>1. IInv => AnswerTells
  BY DEF IInv
<1>. QED
  BY <1>1, Invariant, PTL

(* Only what the user confirmed is published: the version, the source, the *)
(* infobase and the connection of the plan (file_import.rs: publish).      *)
THEOREM PublicationsConfirmed == Spec => PublishesWhatWasConfirmed
<1>. DEFINE A ==
        /\ (worker = "writing" /\ worker' = "committing")
                => source = draft.source
        /\ published' # published =>
                /\ draft.base = Call.base /\ draft.epoch = epoch
                /\ db[draft.base] = draft.version
<1>1. ASSUME IInv, [Next]_vars
      PROVE  [A]_vars
  <2>1. published' # published => Commit
    BY <1>1 DEF Next, WorkerStep, Operation, ReaderStep, Client, Exited, vars,
        input, state, world, Finish, Serving, Take, Refuse, Initialize,
        Shutdown, Connect, Read, Apply, Fail, PrepareOpens, PrepareEnds,
        ImportTakesPlan, ImportExpired, PublishOpens, PublishChecks, Commit,
        CommitFails, Remove, Send, WorkerEnds, Queue, Sweep, Join,
        ReadRequest, CancelRequest, Exit, Unreadable, SendDies,
        PlatformWrites, UserEditsSource
  <2>2. worker = "writing" /\ worker' = "committing" => PublishChecks
    BY <1>1 DEF Next, WorkerStep, Operation, ReaderStep, Client, Exited, vars,
        input, state, world, Finish, Serving, Take, Refuse, Initialize,
        Shutdown, Connect, Read, Apply, Fail, PrepareOpens, PrepareEnds,
        ImportTakesPlan, ImportExpired, PublishOpens, PublishChecks, Commit,
        CommitFails, Remove, Send, WorkerEnds, Queue, Sweep, Join,
        ReadRequest, CancelRequest, Exit, Unreadable, SendDies,
        PlatformWrites, UserEditsSource
  <2>3. Commit => A
    BY <1>1 DEF IInv, Commit, Confirmed, Importing, Finish
  <2>4. PublishChecks => A
    BY DEF PublishChecks, world
  <2>. QED
    BY <2>1, <2>2, <2>3, <2>4
<1>. HIDE DEF A
<1>2. Spec => [][A]_vars
  BY <1>1, Invariant, PTL DEF Spec
<1>. QED
  BY <1>2 DEF A, PublishesWhatWasConfirmed

(* An overtaken or used confirmation publishes nothing (mod.rs: imports).  *)
THEOREM LatestPlanOnce == Spec => PublishesLatestPlanOnce
<1>. DEFINE A ==
        published' # published =>
            \A n \in 1 .. cur - 1 :
                /\ n > Call.token /\ jobs[n].method = "prepare"
                      /\ jobs[n].base = draft.base => answer[n] # "ok"
                /\ jobs[n].token = Call.token => n \notin published
<1>1. ASSUME IInv, [Next]_vars
      PROVE  [A]_vars
  <2>1. published' # published => Commit
    BY <1>1 DEF Next, WorkerStep, Operation, ReaderStep, Client, Exited, vars,
        input, state, world, Finish, Serving, Take, Refuse, Initialize,
        Shutdown, Connect, Read, Apply, Fail, PrepareOpens, PrepareEnds,
        ImportTakesPlan, ImportExpired, PublishOpens, PublishChecks, Commit,
        CommitFails, Remove, Send, WorkerEnds, Queue, Sweep, Join,
        ReadRequest, CancelRequest, Exit, Unreadable, SendDies,
        PlatformWrites, UserEditsSource
  <2>2. Commit => A
    <3>. SUFFICES ASSUME Commit, NEW n \in 1 .. cur - 1
                  PROVE  /\ n > Call.token /\ jobs[n].method = "prepare"
                              /\ jobs[n].base = draft.base => answer[n] # "ok"
                         /\ jobs[n].token = Call.token => n \notin published
      OBVIOUS
    <3>1. Latest(draft) /\ draft.token = Call.token
      BY <1>1 DEF IInv, Commit, Current, Confirmed, Importing
    <3>2. n \in 1 .. cur
      BY <1>1, Requested
    <3>. QED
      BY <3>1, <3>2 DEF Latest, Overtaken
  <2>. QED
    BY <2>1, <2>2
<1>. HIDE DEF A
<1>2. Spec => [][A]_vars
  BY <1>1, Invariant, PTL DEF Spec
<1>. QED
  BY <1>2 DEF A, PublishesLatestPlanOnce
-----------------------------------------------------------------------------
(* The server its client sees.                                             *)

(* The worker ends, and with it the process, when nothing is left to       *)
(* answer; otherwise it died.                                              *)
Serves ==
    /\ \A n \in 1 .. Done : answer[n] # "none"
    /\ reader # "queueing" /\ worker # "dead" => queued = Len(jobs)
    /\ worker = "ended" => reader \in {"joining", "exited"} /\ cur = Len(jobs)
    /\ reader = "exited" => worker \in {"ended", "dead"}
    /\ worker = "dead" => cur >= 1

Asked == [i \in 1 .. Len(jobs) - Done |-> Message("request", Done + i)]
Replied == [n \in 1 .. Done |-> Message(Reply(n), n)]
Ending == reader \notin {"reading", "queueing"}
Dead == worker = "dead"
Gone == reader = "exited"

LEMMA DoneBounds ==
    ASSUME IInv, Serves
    PROVE  Done \in Nat /\ Done <= Len(jobs) /\ Done <= cur
           /\ \A n \in 1 .. Done : n \in Job
<1>1. worker \in Busy \/ worker \in {"waiting", "ended", "dead"}
  BY DEF IInv, Simple, Labels, Busy, Operating
<1>2. /\ cur \in Nat /\ Len(jobs) \in Nat /\ MaxJobs \in Nat
      /\ cur <= Len(jobs) /\ Len(jobs) <= MaxJobs
  BY Requested
<1>3. worker \notin {"waiting", "ended"} => cur >= 1
  BY <1>1 DEF IInv, Order, Serves
<1>. QED
  BY <1>2, <1>3 DEF Done, Job

(* A function on 1 .. n is a sequence of length n.                         *)
LEMMA Listed ==
    ASSUME NEW S, NEW n \in Nat, NEW f \in [1 .. n -> S]
    PROVE  f \in Seq(S) /\ Len(f) = n
  OBVIOUS

LEMMA ListTail ==
    ASSUME NEW S, NEW n \in Nat, n # 0, NEW f \in [1 .. n -> S],
           NEW g \in [1 .. n - 1 -> S],
           \A i \in 1 .. n - 1 : g[i] = f[i + 1]
    PROVE  f # << >> /\ g = Tail(f) /\ Head(f) = f[1]
<1>1. f \in Seq(S) /\ Len(f) = n /\ g \in Seq(S) /\ Len(g) = n - 1
  BY Listed
<1>2. f # << >> /\ Head(f) = f[1]
  BY <1>1
<1>3. /\ Tail(f) \in Seq(S) /\ Len(Tail(f)) = n - 1
      /\ \A i \in 1 .. n - 1 : Tail(f)[i] = f[i + 1]
  BY <1>1, <1>2, HeadTailProperties
<1>. QED
  BY <1>1, <1>2, <1>3, SeqEqual

LEMMA ListAppend ==
    ASSUME NEW S, NEW n \in Nat, NEW f \in [1 .. n -> S], NEW e \in S,
           NEW g \in [1 .. n + 1 -> S],
           \A i \in 1 .. n : g[i] = f[i], g[n + 1] = e
    PROVE  g = Append(f, e)
<1>1. f \in Seq(S) /\ Len(f) = n /\ g \in Seq(S) /\ Len(g) = n + 1
  BY Listed
<1>2. /\ Append(f, e) \in Seq(S) /\ Len(Append(f, e)) = n + 1
      /\ \A i \in 1 .. n : Append(f, e)[i] = f[i]
      /\ Append(f, e)[n + 1] = e
  BY <1>1, Appended
<1>3. \A i \in 1 .. n + 1 : g[i] = Append(f, e)[i]
  BY <1>2
<1>. QED
  BY <1>1, <1>2, <1>3, SeqEqual

(* A step that answers nothing and reads nothing.                          *)
LEMMA NothingSeen ==
    ASSUME UNCHANGED <<jobs, answer, Done, Ending, Dead, Gone>>
    PROVE  UNCHANGED Seen!vars /\ UNCHANGED <<Asked, Replied>>
<1>1. UNCHANGED <<Asked, Replied>>
  BY DEF Asked, Replied, Message, Reply
<1>. QED
  BY <1>1 DEF Seen!vars, Asked, Replied, Ending, Dead, Gone

(* The worker goes on with its request, or somebody else moves.            *)
LEMMA WorkServes ==
    ASSUME Serves, IInv, UNCHANGED <<jobs, answer, reader, queued, cur>>,
           worker' = worker \/ (worker \in Busy /\ worker' \in Busy)
    PROVE  Serves' /\ UNCHANGED Seen!vars
<1>1. UNCHANGED <<Done, Ending, Dead, Gone>>
  BY DEF Done, Ending, Dead, Gone, Busy, Operating
<1>2. Serves'
  BY <1>1 DEF Serves, Busy, Operating
<1>. QED
  BY <1>1, <1>2, NothingSeen

LEMMA TakeServes == ASSUME Serves, IInv, Take PROVE Serves' /\ UNCHANGED Seen!vars
<1>1. /\ worker = "waiting" /\ worker' \in Busy /\ cur' = cur + 1
      /\ UNCHANGED <<jobs, answer, reader, queued>> /\ cur \in Nat
  BY Requested DEF Take, Finish, input, Busy, Operating
<1>2. UNCHANGED <<Done, Ending, Dead, Gone>>
  BY <1>1 DEF Done, Ending, Dead, Gone, Busy, Operating
<1>3. Serves'
  BY <1>1, <1>2 DEF Serves, Busy, Operating
<1>. QED
  BY <1>1, <1>2, <1>3, NothingSeen

LEMMA WorkerEndsServes ==
    ASSUME Serves, IInv, WorkerEnds
    PROVE  Serves' /\ UNCHANGED Seen!vars
<1>1. /\ worker = "waiting" /\ worker' = "ended" /\ reader = "joining"
      /\ cur = queued /\ UNCHANGED <<jobs, answer, reader, queued, cur>>
  BY DEF WorkerEnds, input
<1>2. UNCHANGED <<Done, Ending, Dead, Gone>>
  BY <1>1 DEF Done, Ending, Dead, Gone
<1>3. Serves'
  BY <1>1, <1>2 DEF Serves
<1>. QED
  BY <1>1, <1>2, <1>3, NothingSeen

(* Its answer follows the answers to all the requests before.              *)
LEMMA SendServes ==
    ASSUME Serves, IInv, Send
    PROVE  Serves' /\ Seen!Answer
<1>1. /\ worker = "sending" /\ worker' = "waiting"
      /\ answer' = [answer EXCEPT ![cur] = outcome]
      /\ UNCHANGED <<jobs, reader, queued, cur>>
  BY DEF Send, input
<1>2. /\ cur \in Job /\ cur \in 1 .. Len(jobs) /\ Len(jobs) \in Nat
      /\ outcome \in Outcome /\ answer \in [Job -> Outcome \cup {"none"}]
      /\ \A n \in 1 .. Len(jobs) : n \in Job
  BY <1>1, Requested DEF IInv, Simple, MapTypes, Busy
<1>3. /\ Done = cur - 1 /\ Done' = cur /\ Done \in Nat
      /\ UNCHANGED <<Ending, Dead, Gone>>
  BY <1>1, <1>2 DEF Done, Ending, Dead, Gone, Job
<1>4. /\ answer'[cur] # "none"
      /\ \A n \in 1 .. Done : answer'[n] = answer[n]
  BY <1>1, <1>2, <1>3 DEF Outcome
<1>5. Serves'
  <2>1. \A n \in 1 .. Done' : answer'[n] # "none"
    BY <1>2, <1>3, <1>4 DEF Serves
  <2>. QED
    BY <1>1, <2>1 DEF Serves
<1>. DEFINE kind == IF answer'[cur] = "ok" THEN "answered" ELSE "error"
            M == [kind : {"nothing", "answered", "error", "request"},
                  id : {jobs[n].id : n \in 1 .. Len(jobs)}, call : Nat]
<1>6. /\ Asked # << >> /\ Asked' = Tail(Asked)
      /\ Head(Asked) = Message("request", cur)
  <2>. DEFINE k == Len(jobs) - Done
  <2>1. k \in Nat /\ k # 0 /\ Len(jobs)' - Done' = k - 1
    BY <1>1, <1>2, <1>3
  <2>2. Asked = [i \in 1 .. k |-> Message("request", Done + i)]
    BY DEF Asked
  <2>3. Asked' = [i \in 1 .. k - 1 |-> Message("request", cur + i)]
    <3>1. Asked' = [i \in 1 .. Len(jobs) - cur |-> Message("request", cur + i)]
      BY <1>1, <1>3 DEF Asked, Message
    <3>2. k - 1 = Len(jobs) - cur
      BY <1>2, <1>3
    <3>. QED
      BY <3>1, <3>2
  <2>4. Asked \in [1 .. k -> M] /\ Asked' \in [1 .. k - 1 -> M]
    <3>1. \A n \in 1 .. Len(jobs) : n \in Nat /\ Message("request", n) \in M
      BY <1>2 DEF Message
    <3>2. /\ \A i \in 1 .. k : Done + i \in 1 .. Len(jobs)
          /\ \A i \in 1 .. k - 1 : cur + i \in 1 .. Len(jobs)
      BY <1>2, <1>3
    <3>. HIDE DEF k, M
    <3>. QED
      BY <2>2, <2>3, <3>1, <3>2
  <2>5. \A i \in 1 .. k - 1 : Asked'[i] = Asked[i + 1]
    <3>. SUFFICES ASSUME NEW i \in 1 .. k - 1 PROVE Asked'[i] = Asked[i + 1]
      OBVIOUS
    <3>1. i + 1 \in 1 .. k /\ Done + (i + 1) = cur + i
      BY <1>2, <1>3, <2>1
    <3>. HIDE DEF k
    <3>2. Asked[i + 1] = Message("request", cur + i)
      BY <2>2, <3>1
    <3>3. Asked'[i] = Message("request", cur + i)
      BY <2>3
    <3>. QED
      BY <3>2, <3>3
  <2>6. 1 \in 1 .. k /\ Asked[1] = Message("request", cur)
    BY <1>2, <1>3, <2>1, <2>2 DEF Message
  <2>. HIDE DEF k, M
  <2>. QED
    BY <2>1, <2>4, <2>5, <2>6, ListTail
<1>7. Replied' = Append(Replied, Message(kind, cur))
  <2>1. Replied = [n \in 1 .. Done |-> Message(Reply(n), n)]
    BY DEF Replied
  <2>2. Replied' = [n \in 1 .. Done + 1 |->
                       [kind |-> Reply(n)', id |-> jobs[n].id, call |-> n]]
    BY <1>1, <1>2, <1>3 DEF Replied, Message
  <2>3. \A n \in 1 .. Done + 1 : Reply(n)' \in {"nothing", "answered", "error"}
    BY DEF Reply
  <2>4. \A n \in 1 .. Done : Reply(n) \in {"nothing", "answered", "error"}
    BY DEF Reply
  <2>5. /\ Replied \in [1 .. Done -> M] /\ Replied' \in [1 .. Done + 1 -> M]
        /\ Message(kind, cur) \in M
    BY <1>2, <1>3, <2>1, <2>2, <2>3, <2>4 DEF Message
  <2>6. \A n \in 1 .. Done : Replied'[n] = Replied[n]
    <3>1. \A n \in 1 .. Done : Reply(n)' = Reply(n)
      BY <1>4 DEF Reply
    <3>. QED
      BY <1>3, <2>1, <2>2, <3>1 DEF Message
  <2>7. Replied'[Done + 1] = Message(kind, cur)
    <3>1. cur = Done + 1 /\ Done + 1 \in 1 .. Done + 1
      BY <1>2, <1>3
    <3>2. Reply(cur)' = kind
      BY <1>1, <1>4 DEF Reply
    <3>3. Replied'[cur] = [kind |-> Reply(cur)', id |-> jobs[cur].id, call |-> cur]
      BY <1>1, <2>2, <3>1 DEF Reply
    <3>. QED
      BY <3>1, <3>2, <3>3 DEF Message
  <2>. HIDE DEF M, kind
  <2>. QED
    BY <1>3, <2>5, <2>6, <2>7, ListAppend
<1>8. kind \in Seen!Answers
  BY DEF Seen!Answers
<1>9. Seen!Message(kind, Head(Asked).id, Head(Asked).call) = Message(kind, cur)
  BY <1>6 DEF Seen!Message, Message
<1>10. ~Gone
  BY <1>1 DEF Gone, Serves
<1>. HIDE DEF kind, M
<1>11. Seen!Answer
  BY <1>3, <1>6, <1>7, <1>8, <1>9, <1>10
     DEF Seen!Answer, Asked, Replied, Ending, Dead, Gone
<1>. QED
  BY <1>5, <1>11

LEMMA ReadRequestServes ==
    ASSUME Serves, IInv, NEW id \in Ids, ReadRequest(id)
    PROVE  /\ Serves'
           /\ \E request \in [kind: {"request"}, id: Ids, call: Job] :
                 Seen!Accept(request)
<1>1. /\ reader = "reading" /\ reader' = "queueing"
      /\ UNCHANGED <<worker, answer, queued, cur>>
      /\ UNCHANGED <<Done, Dead>>
  BY DEF ReadRequest, Done, Dead
<1>2. /\ jobs' \in Seq(Messages) /\ Len(jobs') = Len(jobs) + 1
      /\ Len(jobs') <= MaxJobs
      /\ \A n \in 1 .. Len(jobs) : jobs'[n] = jobs[n]
      /\ jobs'[Len(jobs) + 1].id = id
  BY RequestReads DEF Reads
<1>3. /\ Len(jobs) \in Nat /\ Done \in Nat /\ Done <= Len(jobs)
      /\ \A n \in 1 .. Done : n \in 1 .. Len(jobs)
      /\ \A n \in 1 .. Len(jobs) : n \in Job /\ jobs[n].id \in Ids
      /\ Len(jobs) + 1 \in Job
  BY <1>2, Requested, DoneBounds DEF Messages, Job
<1>4. Serves'
  BY <1>1, <1>3 DEF Serves
<1>. DEFINE request == [kind |-> "request", id |-> id, call |-> Len(jobs) + 1]
            M == [kind: {"request"}, id: Ids, call: Job]
            k == Len(jobs) - Done
<1>5. request \in M
  BY <1>3
<1>6. Asked' = Append(Asked, request)
  <2>. DEFINE Now(n) == [kind |-> "request", id |-> jobs'[n].id, call |-> n]
  <2>1. k \in Nat /\ Asked = [i \in 1 .. k |-> Message("request", Done + i)]
    BY <1>3 DEF Asked
  <2>2. Asked' = [i \in 1 .. k + 1 |-> Now(Done + i)]
    <3>1. Len(jobs)' - Done' = k + 1
      BY <1>1, <1>2, <1>3
    <3>. QED
      BY <1>1, <3>1 DEF Asked, Message
  <2>3. \A i \in 1 .. k : Done + i \in 1 .. Len(jobs)
    BY <1>3
  <2>4. \A n \in 1 .. Len(jobs) : Now(n) = Message("request", n) /\ Now(n) \in M
    BY <1>2, <1>3 DEF Message
  <2>5. /\ k + 1 \in 1 .. k + 1 /\ Done + (k + 1) = Len(jobs) + 1
        /\ \A i \in 1 .. k + 1 : i \in 1 .. k \/ i = k + 1
        /\ \A i \in 1 .. k : i \in 1 .. k + 1
    BY <1>3
  <2>6. Now(Len(jobs) + 1) = request
    BY <1>2
  <2>. HIDE DEF k, M, request, Now
  <2>7. \A i \in 1 .. k : Asked'[i] = Asked[i] /\ Asked[i] \in M
    BY <2>1, <2>2, <2>3, <2>4, <2>5
  <2>8. Asked'[k + 1] = request
    BY <2>2, <2>5, <2>6
  <2>9. \A i \in 1 .. k + 1 : Asked'[i] \in M
    BY <1>5, <2>5, <2>7, <2>8
  <2>10. Asked \in [1 .. k -> M] /\ Asked' \in [1 .. k + 1 -> M]
    BY <2>1, <2>2, <2>7, <2>9
  <2>. QED
    BY <1>5, <2>1, <2>7, <2>8, <2>10, ListAppend
<1>7. Replied' = Replied
  <2>1. \A n \in 1 .. Done : Message(Reply(n), n)' = Message(Reply(n), n)
    BY <1>1, <1>2, <1>3 DEF Message, Reply
  <2>. QED
    BY <1>1, <2>1 DEF Replied
<1>8. ~Gone /\ ~Ending /\ UNCHANGED <<Ending, Dead, Gone>>
  BY <1>1 DEF Gone, Ending, Dead
<1>9. Seen!Accept(request)
  BY <1>6, <1>7, <1>8 DEF Seen!Accept, Asked, Replied, Ending, Dead, Gone
<1>. QED
  BY <1>4, <1>5, <1>9

(* The reader ends: nothing more is read.                                  *)
LEMMA EndServes ==
    ASSUME Serves, IInv, UNCHANGED <<jobs, answer, queued, cur, worker>>,
           reader \in {"reading", "queueing"}, reader' = "sweeping",
           reader = "queueing" => worker = "dead"
    PROVE  Serves' /\ Seen!End
<1>1. UNCHANGED <<Done, Dead>> /\ ~Gone /\ ~Gone' /\ Ending'
  BY DEF Done, Dead, Gone, Ending
<1>2. UNCHANGED <<Asked, Replied>>
  BY <1>1 DEF Asked, Replied, Message, Reply
<1>3. Serves'
  BY <1>1 DEF Serves
<1>4. Seen!End
  BY <1>1, <1>2 DEF Seen!End, Asked, Replied, Ending, Dead, Gone
<1>. QED
  BY <1>3, <1>4

LEMMA QueueServes ==
    ASSUME Serves, IInv, Queue
    PROVE  Serves' /\ [Seen!Next]_(Seen!vars)
<1>1. /\ reader = "queueing" /\ queued + 1 = Len(jobs)
      /\ UNCHANGED <<jobs, answer, cur, worker>>
  BY DEF Queue, IInv, Order
<1>2. CASE worker = "dead"
  BY <1>1, <1>2, EndServes DEF Queue, Seen!Next
<1>3. CASE worker # "dead"
  <2>1. reader' = "reading" /\ queued' = queued + 1
    BY <1>3 DEF Queue
  <2>2. UNCHANGED <<Done, Ending, Dead, Gone>>
    BY <1>1, <2>1 DEF Done, Ending, Dead, Gone
  <2>3. Serves'
    BY <1>1, <1>3, <2>1, <2>2 DEF Serves
  <2>. QED
    BY <1>1, <2>2, <2>3, NothingSeen
<1>. QED
  BY <1>2, <1>3

LEMMA SweepServes == ASSUME Serves, IInv, Sweep PROVE Serves' /\ UNCHANGED Seen!vars
<1>1. /\ reader = "sweeping" /\ reader' = "joining"
      /\ UNCHANGED <<jobs, answer, queued, cur, worker>>
  BY DEF Sweep
<1>2. UNCHANGED <<Done, Ending, Dead, Gone>>
  BY <1>1 DEF Done, Ending, Dead, Gone
<1>3. Serves'
  BY <1>1, <1>2 DEF Serves
<1>. QED
  BY <1>1, <1>2, <1>3, NothingSeen

(* The process exits when the worker ended, with everything answered, or   *)
(* died.                                                                   *)
LEMMA JoinServes == ASSUME Serves, IInv, Join PROVE Serves' /\ Seen!Stop
<1>1. /\ reader = "joining" /\ reader' = "exited" /\ worker \in {"ended", "dead"}
      /\ UNCHANGED <<jobs, answer, queued, cur, worker>>
  BY DEF Join
<1>2. UNCHANGED <<Done, Dead, Ending>> /\ ~Gone /\ Gone' /\ Ending
  BY <1>1 DEF Done, Dead, Gone, Ending
<1>3. UNCHANGED <<Asked, Replied>>
  BY <1>1, <1>2 DEF Asked, Replied, Message, Reply
<1>4. Serves'
  BY <1>1, <1>2 DEF Serves
<1>5. Dead \/ Asked = << >>
  <2>1. CASE worker = "ended"
    <3>1. Done = Len(jobs) /\ Len(jobs) \in Nat
      BY <2>1, Requested DEF Done, Serves
    <3>2. Asked = [i \in 1 .. 0 |-> Message("request", Done + i)]
      BY <3>1 DEF Asked
    <3>3. Asked \in [1 .. 0 -> {0}]
      BY <3>2
    <3>4. Asked \in Seq({0}) /\ Len(Asked) = 0
      BY <3>3, Listed
    <3>. QED
      BY <3>4
  <2>. QED
    BY <1>1, <2>1 DEF Dead
<1>6. Seen!Stop
  BY <1>2, <1>3, <1>5 DEF Seen!Stop, Asked, Replied, Ending, Dead, Gone
<1>. QED
  BY <1>4, <1>6

LEMMA SendDiesServes ==
    ASSUME Serves, IInv, SendDies
    PROVE  Serves' /\ Seen!Client
<1>1. /\ worker = "sending" /\ worker' = "dead"
      /\ UNCHANGED <<jobs, answer, reader, queued, cur>>
  BY DEF SendDies, input
<1>2. UNCHANGED <<Done, Ending, Gone>> /\ Dead'
  BY <1>1 DEF Done, Ending, Gone, Dead
<1>3. UNCHANGED <<Asked, Replied>>
  BY <1>1, <1>2 DEF Asked, Replied, Message, Reply
<1>4. Serves'
  BY <1>1, <1>2 DEF Serves, IInv, Order, Busy
<1>5. Seen!Client
  BY <1>2, <1>3 DEF Seen!Client, Asked, Replied, Ending, Dead, Gone
<1>. QED
  BY <1>4, <1>5

LEMMA OperationWorks ==
    ASSUME Operation \/ Remove
    PROVE  /\ UNCHANGED <<jobs, answer, reader, queued, cur>>
           /\ worker \in Busy /\ worker' \in Busy
  BY DEF Operation, Remove, Refuse, Initialize, Shutdown, Connect, Read, Apply,
     Fail, PrepareOpens, PrepareEnds, ImportTakesPlan, ImportExpired,
     PublishOpens, PublishChecks, Commit, CommitFails, Serving, Finish, input,
     Busy, Operating

LEMMA NextServes ==
    ASSUME Serves, IInv, [Next]_vars
    PROVE  Serves' /\ [Seen!Next]_(Seen!vars)
<1>1. CASE Operation \/ Remove
  BY <1>1, OperationWorks, WorkServes
<1>2. CASE Take \/ WorkerEnds \/ Sweep
  BY <1>2, TakeServes, WorkerEndsServes, SweepServes
<1>3. CASE Send \/ Join \/ SendDies \/ Queue
  BY <1>3, SendServes, JoinServes, SendDiesServes, QueueServes DEF Seen!Next
<1>4. ASSUME NEW id \in Ids, ReadRequest(id)
      PROVE  Serves' /\ [Seen!Next]_(Seen!vars)
  BY <1>4, ReadRequestServes DEF Seen!Next
<1>5. CASE Exit \/ Unreadable
  BY <1>5, EndServes DEF Exit, Unreadable, Seen!Next
<1>6. CASE \/ \E id \in Ids : CancelRequest(id)
           \/ \E b \in Bases : PlatformWrites(b)
           \/ UserEditsSource \/ Exited \/ UNCHANGED vars
  BY <1>6, WorkServes DEF CancelRequest, PlatformWrites, UserEditsSource,
     Exited, vars, input
<1>. QED
  BY <1>1, <1>2, <1>3, <1>4, <1>5, <1>6
     DEF Next, WorkerStep, ReaderStep, Client

(* To its client the server is RequestServer, for any number of requests   *)
(* and however they are cancelled, fail, panic or are swept: one answer to *)
(* each, in order, under its id, and an exit with none left unless the     *)
(* worker died (mod.rs: serve, work).                                      *)
THEOREM ServesInOrder == Spec => ImplementsServer
<1>1. Init => Serves /\ Seen!Init
  <2>. SUFFICES ASSUME Init PROVE Serves /\ Seen!Init
    OBVIOUS
  <2>1. /\ worker = "waiting" /\ cur = 0 /\ jobs = << >> /\ reader = "reading"
        /\ queued = 0 /\ Done = 0 /\ Len(jobs) = 0
    BY DEF Init, Done
  <2>2. Serves
    BY <2>1 DEF Serves
  <2>3. Asked \in [1 .. 0 -> {0}] /\ Replied \in [1 .. 0 -> {0}]
    BY <2>1 DEF Asked, Replied
  <2>4. Asked = << >> /\ Replied = << >>
    BY <2>3, Listed
  <2>5. Seen!Init
    BY <2>1, <2>4 DEF Seen!Init, Asked, Replied
  <2>. QED
    BY <2>2, <2>5
<1>2. IInv /\ Serves /\ [Next]_vars => Serves' /\ [Seen!Next]_(Seen!vars)
  BY NextServes
<1>. QED
  BY <1>1, <1>2, Invariant, PTL DEF Spec, ImplementsServer, Seen!Spec
=============================================================================
