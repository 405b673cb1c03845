---------------------------- MODULE RpcClient_proofs ----------------------------
(***************************************************************************)
(* Theorems about RpcClient for any number of requests, checked by TLAPS:  *)
(* its types, that an answer only reaches the request it answers, that     *)
(* nobody waits for a lost server, that a loss is reported once, that      *)
(* every step is one of RpcContract, that disposing finds the server idle, *)
(* and that the server it talks to is RequestServer.                       *)
(***************************************************************************)
EXTENDS RpcClient, TLAPS

(* What a message that carries a request says of it: the id was given out, *)
(* and whoever waits under that id is the request itself.                  *)
Names(m) ==
    m.kind \notin {"cancel", "exit"} =>
        /\ m.id \in 1 .. sequence
        /\ m.call \in Calls
        /\ waiting[m.id] \in {0, m.call}

Carries(s) == \A i \in 1 .. Len(s) : Names(s[i])

(* A cancellation or `exit` never gets into the queue or to the client.    *)
Requests(s) == \A i \in 1 .. Len(s) : s[i].kind \notin {"cancel", "exit"}

Types ==
    /\ calls \in 0 .. MaxCalls /\ sequence \in 0 .. calls
    /\ waiting \in [Calls -> 0 .. MaxCalls]
    /\ settled \in [Calls -> How] /\ got \in [Calls -> 0 .. MaxCalls]

Flags ==
    /\ dead \in BOOLEAN /\ disposing \in BOOLEAN /\ disposed \in BOOLEAN
    /\ killed \in BOOLEAN /\ exited \in BOOLEAN
    /\ ending \in BOOLEAN /\ gone \in BOOLEAN
    /\ goodbye \in 0 .. calls

Pipes ==
    /\ toServer \in Seq(Messages) /\ toClient \in Seq(Messages)
    /\ queue \in Seq(Messages)

(* Ids that were not given out have nobody waiting, and whoever is not     *)
(* settled waits under one that was.                                       *)
Waiting ==
    /\ \A id \in Calls : id > sequence => waiting[id] = 0
    /\ \A c \in 1 .. calls : settled[c] = "none" =>
           \E id \in Calls : waiting[id] = c
    /\ dead => waiting = Idle

Matching ==
    /\ Carries(toServer) /\ Carries(toClient) /\ Carries(queue)
    /\ Requests(toClient) /\ Requests(queue)

IInv ==
    /\ Types /\ Flags /\ Pipes
    /\ Waiting /\ Matching
    /\ CrashReported /\ OwnAnswer

-----------------------------------------------------------------------------
(* What Tail and Append do to the elements of a sequence.                  *)
LEMMA TailElements ==
    ASSUME NEW S, NEW s \in Seq(S), s # << >>
    PROVE  /\ Tail(s) \in Seq(S) /\ Head(s) \in S /\ Head(s) = s[1]
           /\ 1 \in 1 .. Len(s)
           /\ \A i \in 1 .. Len(Tail(s)) :
                 i + 1 \in 1 .. Len(s) /\ Tail(s)[i] = s[i + 1]
  OBVIOUS

LEMMA AppendElements ==
    ASSUME NEW S, NEW s \in Seq(S), NEW m \in S
    PROVE  /\ Append(s, m) \in Seq(S)
           /\ \A i \in 1 .. Len(Append(s, m)) :
                 \/ i \in 1 .. Len(s) /\ Append(s, m)[i] = s[i]
                 \/ Append(s, m)[i] = m
  OBVIOUS

(* Messages of the kinds used are messages.                                *)
LEMMA MessageTyped ==
    ASSUME NEW kind \in MessageKind, NEW id \in 0 .. MaxCalls,
           NEW call \in 0 .. MaxCalls
    PROVE  /\ Message(kind, id, call) \in Messages
           /\ Message(kind, id, call).kind = kind
           /\ Message(kind, id, call).id = id
           /\ Message(kind, id, call).call = call
  BY DEF Message, Server!Message, Messages

(* Once it failed, the client is dead and nobody waits any more.           *)
LEMMA FailSettles ==
    ASSUME IInv, NEW left, NEW how, NEW running \in BOOLEAN,
           left \in [Calls -> 0 .. MaxCalls], how \in [Calls -> How],
           \A id \in Calls : left[id] \in {0, waiting[id]},
           \A c \in 1 .. calls : how[c] = "none" =>
               \E id \in Calls : left[id] = c,
           Fail(left, how, running)
    PROVE  /\ dead' = TRUE /\ killed' \in BOOLEAN
           /\ waiting' = Idle
           /\ settled' \in [Calls -> How]
           /\ \A c \in 1 .. calls : settled'[c] # "none"
           /\ crashes' = IF disposing THEN 0 ELSE 1
<1>1. CASE dead
  <2>1. left = Idle
    BY <1>1 DEF IInv, Waiting, Idle
  <2>2. \A c \in 1 .. calls : how[c] # "none"
    BY <2>1, ClientAssumption DEF Idle, Calls, IInv, Types
  <2>. QED
    BY <1>1, <2>1, <2>2 DEF Fail, IInv, Flags, CrashReported
<1>2. CASE ~dead
  <2>1. /\ dead' = TRUE /\ waiting' = Idle
        /\ killed' = (killed \/ running)
        /\ crashes' = IF disposing THEN crashes ELSE crashes + 1
        /\ settled' = [c \in Calls |->
              IF \E id \in Calls : left[id] = c THEN "stopped" ELSE how[c]]
    BY <1>2 DEF Fail
  <2>2. settled' \in [Calls -> How]
    BY <2>1 DEF How
  <2>3. \A c \in 1 .. calls : settled'[c] # "none"
    BY <2>1, ClientAssumption DEF IInv, Types, Calls
  <2>. QED
    BY <1>2, <2>1, <2>2, <2>3 DEF IInv, Flags, CrashReported
<1>. QED
  BY <1>1, <1>2

(* A step never gives an id out twice: who waits under an id given out     *)
(* before goes on waiting or is settled.                                   *)
Keeps ==
    /\ sequence' \in sequence .. MaxCalls
    /\ \A id \in 1 .. sequence : waiting'[id] \in {0, waiting[id]}

(* What a message says stays true over such a step.                        *)
LEMMA NamesKept ==
    ASSUME NEW m, Names(m), Keeps, sequence \in 0 .. MaxCalls
    PROVE  Names(m)'
<1>. SUFFICES ASSUME m.kind \notin {"cancel", "exit"}
              PROVE  /\ m.id \in 1 .. sequence' /\ m.call \in Calls
                     /\ waiting'[m.id] \in {0, m.call}
  BY DEF Names
<1>1. m.id \in 1 .. sequence /\ m.call \in Calls /\ waiting[m.id] \in {0, m.call}
  BY DEF Names
<1>2. waiting'[m.id] \in {0, waiting[m.id]}
  BY <1>1 DEF Keeps
<1>3. m.id \in 1 .. sequence'
  BY <1>1, ClientAssumption DEF Keeps
<1>. QED
  BY <1>1, <1>2, <1>3

LEMMA CarriesKept ==
    ASSUME NEW s, Carries(s), Keeps, sequence \in 0 .. MaxCalls
    PROVE  \A i \in 1 .. Len(s) : Names(s[i])'
  BY NamesKept DEF Carries

LEMMA CarriesAppend ==
    ASSUME NEW s \in Seq(Messages), Carries(s), Keeps,
           sequence \in 0 .. MaxCalls, NEW m \in Messages, Names(m)'
    PROVE  \A i \in 1 .. Len(Append(s, m)) : Names(Append(s, m)[i])'
<1>1. \A i \in 1 .. Len(s) : Names(s[i])'
  BY CarriesKept
<1>. SUFFICES ASSUME NEW i \in 1 .. Len(Append(s, m))
              PROVE  Names(Append(s, m)[i])'
  OBVIOUS
<1>2. CASE i \in 1 .. Len(s) /\ Append(s, m)[i] = s[i]
  BY <1>1, <1>2 DEF Names
<1>3. CASE Append(s, m)[i] = m
  BY <1>3 DEF Names
<1>. QED
  BY <1>2, <1>3, AppendElements

LEMMA CarriesTail ==
    ASSUME NEW s \in Seq(Messages), s # << >>, Carries(s), Keeps,
           sequence \in 0 .. MaxCalls
    PROVE  \A i \in 1 .. Len(Tail(s)) : Names(Tail(s)[i])'
<1>1. \A i \in 1 .. Len(s) : Names(s[i])'
  BY CarriesKept
<1>. SUFFICES ASSUME NEW i \in 1 .. Len(Tail(s)) PROVE Names(Tail(s)[i])'
  OBVIOUS
<1>2. i + 1 \in 1 .. Len(s) /\ Tail(s)[i] = s[i + 1]
  BY TailElements
<1>. QED
  BY <1>1, <1>2 DEF Names

-----------------------------------------------------------------------------
(* A step that leaves the pipes and the queue alone keeps Matching.        *)
LEMMA MatchingKept ==
    ASSUME IInv, Keeps, UNCHANGED <<toServer, toClient, queue>>
    PROVE  Matching'
<1>1. sequence \in 0 .. MaxCalls
  BY ClientAssumption DEF IInv, Types
<1>2. Carries(toServer)' /\ Carries(toClient)' /\ Carries(queue)'
  BY <1>1, CarriesKept DEF IInv, Matching, Carries, Names
<1>3. Requests(toClient)' /\ Requests(queue)'
  BY DEF IInv, Matching, Requests
<1>. QED
  BY <1>2, <1>3 DEF Matching

(* A request, dispose's `shutdown` included, waits under a new id or is    *)
(* refused.                                                                *)
LEMMA DispatchEffects ==
    ASSUME IInv, calls < MaxCalls, calls' = calls + 1,
           sequence' = sequence + 1, Dispatch(calls + 1, NextId),
           UNCHANGED <<got, dead, toClient, queue>>
    PROVE  Types' /\ Pipes' /\ Waiting' /\ Matching'
<1>. PICK m : m = Message("request", sequence + 1, calls + 1)
  OBVIOUS
<1>1. /\ calls \in Nat /\ sequence \in Nat /\ sequence <= calls
      /\ calls + 1 \in Calls /\ sequence + 1 \in Calls
      /\ sequence \in 0 .. MaxCalls /\ MaxCalls \in Nat
  BY ClientAssumption DEF IInv, Types, Calls
<1>2. CASE dead
  <2>1. /\ settled' = [settled EXCEPT ![calls + 1] = "unsent"]
        /\ UNCHANGED <<waiting, toServer>>
    BY <1>2 DEF Dispatch
  <2>2. Types'
    BY <1>1, <2>1 DEF IInv, Types, How
  <2>3. Pipes'
    BY <2>1 DEF IInv, Pipes
  <2>4. Waiting'
    <3>1. \A id \in Calls : id > sequence' => waiting'[id] = 0
      <4>1. waiting = Idle
        BY <1>2 DEF IInv, Waiting
      <4>. QED
        BY <2>1, <4>1 DEF Idle
    <3>2. \A c \in 1 .. calls' : settled'[c] # "none"
      BY <1>1, <1>2, <2>1 DEF IInv, Waiting, Types, Idle, Calls
    <3>. QED
      BY <1>2, <2>1, <3>1, <3>2 DEF Waiting, IInv
  <2>5. Keeps
    BY <1>1, <2>1 DEF Keeps, IInv, Types, Calls
  <2>. QED
    BY <2>1, <2>2, <2>3, <2>4, <2>5, MatchingKept
<1>3. CASE ~dead
  <2>1. /\ waiting' = [waiting EXCEPT ![sequence + 1] = calls + 1]
        /\ toServer' = Append(toServer, m)
        /\ settled' = settled
    BY <1>3 DEF Dispatch, NextId
  <2>2. Types'
    BY <1>1, <2>1 DEF IInv, Types, Calls
  <2>3. m \in Messages /\ m.kind = "request" /\ m.id = sequence + 1
        /\ m.call = calls + 1
    BY <1>1, MessageTyped DEF MessageKind, Calls
  <2>4. Pipes'
    BY <2>1, <2>3 DEF IInv, Pipes
  <2>5. Waiting'
    <3>1. \A id \in Calls : id > sequence' => waiting'[id] = 0
      BY <1>1, <2>1 DEF IInv, Waiting, Types, Calls
    <3>2. \A c \in 1 .. calls' : settled'[c] = "none" =>
             \E id \in Calls : waiting'[id] = c
      <4>. SUFFICES ASSUME NEW c \in 1 .. calls + 1, settled[c] = "none"
                    PROVE  \E id \in Calls : waiting'[id] = c
        BY <2>1
      <4>1. CASE c = calls + 1
        BY <1>1, <2>1, <4>1 DEF IInv, Types
      <4>2. CASE c \in 1 .. calls
        <5>1. PICK id \in Calls : waiting[id] = c
          BY <4>2 DEF IInv, Waiting
        <5>2. id # sequence + 1
          BY <1>1, <4>2, <5>1 DEF IInv, Waiting
        <5>. QED
          BY <2>1, <5>1, <5>2 DEF IInv, Types
      <4>. QED
        BY <1>1, <4>1, <4>2
    <3>. QED
      BY <1>3, <3>1, <3>2 DEF Waiting
  <2>6. Keeps
    BY <1>1, <2>1 DEF Keeps, IInv, Types, Calls
  <2>7. Names(m)'
    BY <1>1, <2>1, <2>3 DEF Names, IInv, Types
  <2>8. Carries(toServer)'
    BY <1>1, <2>1, <2>3, <2>6, <2>7, CarriesAppend
       DEF IInv, Pipes, Matching, Carries, Names
  <2>9. Carries(toClient)' /\ Carries(queue)'
    BY <1>1, <2>6, CarriesKept DEF IInv, Matching, Carries, Names
  <2>10. Requests(toClient)' /\ Requests(queue)'
    BY DEF IInv, Matching, Requests
  <2>. QED
    BY <2>2, <2>4, <2>5, <2>8, <2>9, <2>10 DEF Matching
<1>. QED
  BY <1>2, <1>3

(* The client failed over what it had before the step.                     *)
LEMMA FailAll ==
    ASSUME IInv, NEW running \in BOOLEAN, Fail(waiting, settled, running),
           UNCHANGED <<calls, sequence, got, disposing>>
    PROVE  /\ Types' /\ Waiting' /\ Keeps /\ CrashReported'
           /\ dead' = TRUE /\ killed' \in BOOLEAN
<1>1. /\ dead' = TRUE /\ killed' \in BOOLEAN /\ waiting' = Idle
      /\ settled' \in [Calls -> How]
      /\ \A c \in 1 .. calls : settled'[c] # "none"
      /\ crashes' = IF disposing THEN 0 ELSE 1
  BY FailSettles DEF IInv, Types, Waiting
<1>2. Types'
  BY <1>1, ClientAssumption DEF IInv, Types, Idle
<1>3. Waiting'
  BY <1>1 DEF Waiting, Idle
<1>4. Keeps
  BY <1>1, ClientAssumption DEF Keeps, IInv, Types, Idle, Calls
<1>5. CrashReported'
  BY <1>1 DEF CrashReported, IInv, Flags
<1>. QED
  BY <1>1, <1>2, <1>3, <1>4, <1>5

-----------------------------------------------------------------------------
(* Every action keeps the invariant.                                       *)

LEMMA RequestKeeps == IInv /\ Request => IInv'
<1>. SUFFICES ASSUME IInv, Request PROVE IInv'
  OBVIOUS
<1>1. /\ calls < MaxCalls /\ calls' = calls + 1 /\ sequence' = sequence + 1
      /\ Dispatch(calls + 1, NextId)
      /\ UNCHANGED <<got, dead, toClient, queue>>
      /\ UNCHANGED <<disposing, goodbye, disposed, crashes, killed, exited,
                     ending, gone>>
  BY DEF Request, life, server
<1>2. Types' /\ Pipes' /\ Waiting' /\ Matching'
  BY <1>1, DispatchEffects
<1>3. Flags'
  BY <1>1 DEF IInv, Flags, Types
<1>4. CrashReported' /\ OwnAnswer'
  BY <1>1 DEF IInv, CrashReported, OwnAnswer
<1>. QED
  BY <1>2, <1>3, <1>4 DEF IInv

LEMMA DisposeKeeps == IInv /\ Dispose => IInv'
<1>. SUFFICES ASSUME IInv, Dispose PROVE IInv'
  OBVIOUS
<1>1. /\ calls < MaxCalls /\ calls' = calls + 1 /\ sequence' = sequence + 1
      /\ Dispatch(calls + 1, NextId)
      /\ UNCHANGED <<got, dead, toClient, queue>>
      /\ UNCHANGED <<disposed, crashes, killed, exited, ending, gone>>
      /\ ~dead /\ disposing' = TRUE /\ goodbye' = calls + 1
  BY DEF Dispose, server
<1>2. Types' /\ Pipes' /\ Waiting' /\ Matching'
  BY <1>1, DispatchEffects
<1>3. Flags'
  BY <1>1 DEF IInv, Flags, Types
<1>4. CrashReported' /\ OwnAnswer'
  BY <1>1 DEF IInv, CrashReported, OwnAnswer
<1>. QED
  BY <1>2, <1>3, <1>4 DEF IInv

LEMMA RequestAbortedKeeps == IInv /\ RequestAborted => IInv'
<1>. SUFFICES ASSUME IInv, RequestAborted PROVE IInv'
  OBVIOUS
<1>1. /\ calls < MaxCalls /\ calls' = calls + 1
      /\ settled' = [settled EXCEPT ![calls + 1] = "cancelled"]
      /\ UNCHANGED <<sequence, waiting, got>>
      /\ UNCHANGED <<dead, disposing, goodbye, disposed, crashes, killed, exited>>
      /\ UNCHANGED <<toServer, toClient>>
      /\ UNCHANGED <<queue, ending, gone>>
  BY DEF RequestAborted, life, pipes, server
<1>2. calls + 1 \in Calls /\ calls \in 0 .. MaxCalls /\ MaxCalls \in Nat
  BY <1>1, ClientAssumption DEF IInv, Types, Calls
<1>3. Types'
  BY <1>1, <1>2 DEF IInv, Types, How
<1>4. Flags' /\ Pipes' /\ CrashReported' /\ OwnAnswer'
  BY <1>1, <1>2 DEF IInv, Flags, Pipes, CrashReported, OwnAnswer
<1>5. Waiting'
  <2>1. \A c \in 1 .. calls' : settled'[c] = "none" =>
           \E id \in Calls : waiting'[id] = c
    BY <1>1, <1>2 DEF IInv, Types, Waiting, Calls
  <2>. QED
    BY <1>1, <2>1 DEF IInv, Waiting
<1>6. Matching'
  <2>1. Keeps
    BY <1>1, ClientAssumption DEF Keeps, IInv, Types
  <2>. QED
    BY <1>1, <2>1, MatchingKept
<1>. QED
  BY <1>3, <1>4, <1>5, <1>6 DEF IInv

LEMMA GiveUpKeeps == ASSUME IInv, NEW id \in Calls, GiveUp(id) PROVE IInv'
<1>. PICK m : m = Message("cancel", id, waiting[id])
  OBVIOUS
<1>1. /\ waiting[id] # 0
      /\ toServer' = Append(toServer, m)
      /\ settled' = [settled EXCEPT ![waiting[id]] = "cancelled"]
      /\ waiting' = [waiting EXCEPT ![id] = 0]
      /\ UNCHANGED <<calls, sequence, got, toClient>>
      /\ UNCHANGED <<dead, disposing, goodbye, disposed, crashes, killed, exited>>
      /\ UNCHANGED <<queue, ending, gone>>
  BY DEF GiveUp, life, server
<1>2. m \in Messages /\ m.kind = "cancel"
  <2>1. id \in 0 .. MaxCalls /\ waiting[id] \in 0 .. MaxCalls
    BY ClientAssumption DEF IInv, Types, Calls
  <2>2. "cancel" \in MessageKind
    BY DEF MessageKind
  <2>. QED
    BY <2>1, <2>2, MessageTyped
<1>3. Types'
  <2>1. calls' \in 0 .. MaxCalls /\ sequence' \in 0 .. calls'
        /\ got' \in [Calls -> 0 .. MaxCalls]
    BY <1>1 DEF IInv, Types
  <2>2. settled' \in [Calls -> How]
    BY <1>1 DEF IInv, Types, How
  <2>3. 0 \in 0 .. MaxCalls
    BY ClientAssumption
  <2>4. waiting' \in [Calls -> 0 .. MaxCalls]
    BY <1>1, <2>3 DEF IInv, Types
  <2>. QED
    BY <2>1, <2>2, <2>4 DEF Types
<1>4. Flags' /\ CrashReported' /\ OwnAnswer'
  BY <1>1 DEF IInv, Flags, CrashReported, OwnAnswer
<1>5. Pipes'
  BY <1>1, <1>2 DEF IInv, Pipes
<1>6. Waiting'
  <2>1. \A c \in 1 .. calls' : settled'[c] = "none" =>
           \E other \in Calls : waiting'[other] = c
    <3>. SUFFICES ASSUME NEW c \in 1 .. calls, settled'[c] = "none"
                  PROVE  \E other \in Calls : waiting'[other] = c
      BY <1>1
    <3>1. c # waiting[id] /\ settled[c] = "none"
      BY <1>1, ClientAssumption DEF IInv, Types, Calls
    <3>. QED
      BY <1>1, <3>1 DEF IInv, Types, Waiting
  <2>2. ~dead
    BY <1>1 DEF IInv, Waiting, Idle
  <2>. QED
    BY <1>1, <2>1, <2>2 DEF IInv, Types, Waiting
<1>7. Keeps
  BY <1>1, ClientAssumption DEF Keeps, IInv, Types, Calls
<1>8. Names(m)'
  BY <1>2 DEF Names
<1>9. Matching'
  <2>1. sequence \in 0 .. MaxCalls
    BY ClientAssumption DEF IInv, Types
  <2>2. Carries(toServer)'
    BY <1>1, <1>2, <1>7, <1>8, <2>1, CarriesAppend
       DEF IInv, Pipes, Matching, Carries, Names
  <2>3. Carries(toClient)' /\ Carries(queue)'
    BY <1>1, <1>7, <2>1, CarriesKept DEF IInv, Matching, Carries, Names
  <2>4. Requests(toClient)' /\ Requests(queue)'
    BY <1>1 DEF IInv, Matching, Requests
  <2>. QED
    BY <2>2, <2>3, <2>4 DEF Matching
<1>. QED
  BY <1>3, <1>4, <1>5, <1>6, <1>9 DEF IInv

LEMMA SeesExitKeeps == IInv /\ SeesExit => IInv'
<1>. SUFFICES ASSUME IInv, SeesExit PROVE IInv'
  OBVIOUS
<1>1. /\ Fail(waiting, settled, FALSE) /\ exited' = TRUE
      /\ UNCHANGED <<calls, sequence, got, disposing, goodbye, disposed>>
      /\ UNCHANGED <<toServer, toClient>>
      /\ UNCHANGED <<queue, ending, gone>>
  BY DEF SeesExit, pipes, server
<1>2. /\ Types' /\ Waiting' /\ Keeps /\ CrashReported'
      /\ dead' = TRUE /\ killed' \in BOOLEAN
  BY <1>1, FailAll
<1>3. Flags' /\ Pipes' /\ OwnAnswer'
  BY <1>1, <1>2 DEF IInv, Flags, Pipes, OwnAnswer
<1>4. Matching'
  BY <1>1, <1>2, MatchingKept
<1>. QED
  BY <1>2, <1>3, <1>4 DEF IInv

LEMMA PipeBreaksKeeps == IInv /\ PipeBreaks => IInv'
<1>. SUFFICES ASSUME IInv, PipeBreaks PROVE IInv'
  OBVIOUS
<1>1. /\ Fail(waiting, settled, ~exited)
      /\ UNCHANGED <<calls, sequence, got, disposing, goodbye, disposed, exited>>
      /\ UNCHANGED <<toServer, toClient>>
      /\ UNCHANGED <<queue, ending, gone>>
  BY DEF PipeBreaks, pipes, server
<1>2. /\ Types' /\ Waiting' /\ Keeps /\ CrashReported'
      /\ dead' = TRUE /\ killed' \in BOOLEAN
  BY <1>1, FailAll DEF IInv, Flags
<1>3. Flags' /\ Pipes' /\ OwnAnswer'
  BY <1>1, <1>2 DEF IInv, Flags, Pipes, OwnAnswer
<1>4. Matching'
  BY <1>1, <1>2, MatchingKept
<1>. QED
  BY <1>2, <1>3, <1>4 DEF IInv

LEMMA DisposeGoesOnKeeps == IInv /\ DisposeGoesOn => IInv'
<1>. SUFFICES ASSUME IInv, DisposeGoesOn PROVE IInv'
  OBVIOUS
<1>. PICK m : m = Message("exit", 0, 0)
  OBVIOUS
<1>1. /\ Fail(waiting, settled, ~exited)
      /\ disposed' = TRUE /\ toServer' = Append(toServer, m)
      /\ UNCHANGED <<calls, sequence, got, disposing, goodbye, exited, toClient>>
      /\ UNCHANGED <<queue, ending, gone>>
  BY DEF DisposeGoesOn, server
<1>2. /\ Types' /\ Waiting' /\ Keeps /\ CrashReported'
      /\ dead' = TRUE /\ killed' \in BOOLEAN
  BY <1>1, FailAll DEF IInv, Flags
<1>3. m \in Messages /\ m.kind = "exit"
  BY MessageTyped, ClientAssumption DEF MessageKind
<1>4. Flags' /\ OwnAnswer'
  BY <1>1, <1>2 DEF IInv, Flags, OwnAnswer
<1>5. Pipes'
  BY <1>1, <1>3 DEF IInv, Pipes
<1>6. Names(m)'
  BY <1>3 DEF Names
<1>7. sequence \in 0 .. MaxCalls
  BY ClientAssumption DEF IInv, Types
<1>8. Carries(toServer)'
  BY <1>1, <1>2, <1>3, <1>6, <1>7, CarriesAppend
     DEF IInv, Pipes, Matching, Carries, Names
<1>9. Carries(toClient)' /\ Carries(queue)'
  BY <1>1, <1>2, <1>7, CarriesKept DEF IInv, Matching, Carries, Names
<1>10. Requests(toClient)' /\ Requests(queue)'
  BY <1>1 DEF IInv, Matching, Requests
<1>. QED
  BY <1>2, <1>4, <1>5, <1>8, <1>9, <1>10 DEF IInv, Matching

(* The answer, an error included, goes to the request that waits under the *)
(* id it names, which is the request it answers.                           *)
LEMMA AnswerKeeps ==
    ASSUME IInv, NEW m \in Messages, Names(m),
           m.kind \in {"answered", "error"}, waiting[m.id] # 0,
           settled' = [settled EXCEPT ![waiting[m.id]] = m.kind],
           got' = [got EXCEPT ![waiting[m.id]] = m.call],
           waiting' = [waiting EXCEPT ![m.id] = 0],
           UNCHANGED <<calls, sequence, dead>>
    PROVE  Types' /\ Waiting' /\ Keeps /\ OwnAnswer'
<1>1. /\ m.id \in 1 .. sequence /\ m.call \in Calls
      /\ waiting[m.id] = m.call /\ m.id \in Calls
      /\ sequence \in 0 .. MaxCalls /\ MaxCalls \in Nat
  BY ClientAssumption DEF Names, IInv, Types, Calls
<1>2. Types'
  <2>1. settled' \in [Calls -> How]
    BY <1>1 DEF IInv, Types, How
  <2>2. m.call \in 0 .. MaxCalls /\ 0 \in 0 .. MaxCalls
    BY <1>1 DEF Calls
  <2>3. got' \in [Calls -> 0 .. MaxCalls] /\ waiting' \in [Calls -> 0 .. MaxCalls]
    BY <1>1, <2>2 DEF IInv, Types
  <2>. QED
    BY <2>1, <2>3 DEF IInv, Types
<1>3. Waiting'
  <2>1. \A c \in 1 .. calls' : settled'[c] = "none" =>
           \E id \in Calls : waiting'[id] = c
    <3>. SUFFICES ASSUME NEW c \in 1 .. calls, settled'[c] = "none"
                  PROVE  \E id \in Calls : waiting'[id] = c
      OBVIOUS
    <3>1. c \in Calls
      BY ClientAssumption DEF IInv, Types, Calls
    <3>2. c # m.call /\ settled[c] = "none"
      BY <1>1, <3>1 DEF IInv, Types
    <3>3. PICK id \in Calls : waiting[id] = c
      BY <3>2 DEF IInv, Waiting
    <3>. QED
      BY <1>1, <3>2, <3>3 DEF IInv, Types
  <2>2. ~dead
    BY <1>1 DEF IInv, Waiting, Idle
  <2>3. \A id \in Calls : id > sequence' => waiting'[id] = 0
    BY <1>1 DEF IInv, Types, Waiting
  <2>. QED
    BY <2>1, <2>2, <2>3 DEF Waiting
<1>4. Keeps
  BY <1>1 DEF Keeps, IInv, Types, Calls
<1>5. OwnAnswer'
  BY <1>1 DEF OwnAnswer, IInv, Types
<1>. QED
  BY <1>2, <1>3, <1>4, <1>5

(* A request rejected for an answer the protocol does not allow takes the  *)
(* client with it.                                                         *)
LEMMA InvalidKeeps ==
    ASSUME IInv, NEW id \in Calls, NEW running \in BOOLEAN, waiting[id] # 0,
           Fail([waiting EXCEPT ![id] = 0],
                [settled EXCEPT ![waiting[id]] = "error"], running),
           UNCHANGED <<calls, sequence, got, disposing>>
    PROVE  /\ Types' /\ Waiting' /\ Keeps /\ CrashReported' /\ OwnAnswer'
           /\ dead' \in BOOLEAN /\ killed' \in BOOLEAN
<1>. PICK left : left = [waiting EXCEPT ![id] = 0]
  OBVIOUS
<1>. PICK how : how = [settled EXCEPT ![waiting[id]] = "error"]
  OBVIOUS
<1>1. Fail(left, how, running)
  OBVIOUS
<1>2. left \in [Calls -> 0 .. MaxCalls] /\ how \in [Calls -> How]
  <2>1. 0 \in 0 .. MaxCalls /\ "error" \in How
    BY ClientAssumption DEF How
  <2>. QED
    BY <2>1 DEF IInv, Types
<1>4. \A c \in 1 .. calls :
         how[c] = "none" => \E other \in Calls : left[other] = c
  <2>. SUFFICES ASSUME NEW c \in 1 .. calls, how[c] = "none"
                PROVE  \E other \in Calls : left[other] = c
    OBVIOUS
  <2>1. c \in Calls
    BY ClientAssumption DEF IInv, Types, Calls
  <2>2. c # waiting[id] /\ settled[c] = "none"
    BY <2>1 DEF IInv, Types
  <2>3. PICK other \in Calls : waiting[other] = c
    BY <2>2 DEF IInv, Waiting
  <2>. QED
    BY <2>2, <2>3 DEF IInv, Types
<1>5. /\ dead' = TRUE /\ killed' \in BOOLEAN /\ waiting' = Idle
      /\ settled' \in [Calls -> How]
      /\ \A c \in 1 .. calls : settled'[c] # "none"
      /\ crashes' = IF disposing THEN 0 ELSE 1
  <2>1. ~dead
    BY DEF IInv, Waiting, Idle
  <2>2. /\ dead' = TRUE /\ waiting' = Idle
        /\ killed' = (killed \/ running)
        /\ crashes' = IF disposing THEN crashes ELSE crashes + 1
        /\ settled' = [c \in Calls |->
              IF \E other \in Calls : left[other] = c THEN "stopped" ELSE how[c]]
    BY <1>1, <2>1 DEF Fail
  <2>3. settled' \in [Calls -> How]
    BY <1>2, <2>2 DEF How
  <2>4. \A c \in 1 .. calls : settled'[c] # "none"
    <3>1. \A c \in 1 .. calls : c \in Calls
      BY ClientAssumption DEF IInv, Types, Calls
    <3>. QED
      BY <1>4, <2>2, <3>1
  <2>. QED
    BY <2>1, <2>2, <2>3, <2>4 DEF IInv, Flags, CrashReported
<1>6. Types'
  <2>1. 0 \in 0 .. MaxCalls
    BY ClientAssumption
  <2>2. waiting' \in [Calls -> 0 .. MaxCalls]
    BY <1>5, <2>1 DEF Idle
  <2>. QED
    BY <1>5, <2>2 DEF IInv, Types
<1>7. Waiting' /\ CrashReported' /\ OwnAnswer'
  BY <1>5 DEF Waiting, Idle, CrashReported, IInv, Flags, OwnAnswer
<1>8. Keeps
  BY <1>5, ClientAssumption DEF Keeps, IInv, Types, Idle, Calls
<1>. QED
  BY <1>5, <1>6, <1>7, <1>8

LEMMA ReceiveKeeps == IInv /\ Receive => IInv'
<1>. SUFFICES ASSUME IInv, Receive PROVE IInv'
  OBVIOUS
<1>. PICK m : m = Head(toClient)
  OBVIOUS
<1>1. /\ toClient # << >> /\ toClient' = Tail(toClient)
      /\ UNCHANGED <<calls, sequence, disposing, goodbye, disposed, exited>>
      /\ UNCHANGED toServer
      /\ UNCHANGED <<queue, ending, gone>>
  BY DEF Receive, server
<1>2. m \in Messages /\ Names(m) /\ m.kind \notin {"cancel", "exit"}
  <2>1. m \in Messages /\ m = toClient[1] /\ 1 \in 1 .. Len(toClient)
    BY <1>1, TailElements DEF IInv, Pipes
  <2>. QED
    BY <2>1 DEF IInv, Matching, Carries, Requests
<1>3. /\ m.id \in 1 .. sequence /\ m.id \in Calls
      /\ waiting[m.id] \in 0 .. MaxCalls
      /\ sequence \in 0 .. MaxCalls
  BY <1>2, ClientAssumption DEF Names, IInv, Types, Calls
<1>4. /\ Types' /\ Waiting' /\ Keeps /\ CrashReported' /\ OwnAnswer'
      /\ dead' \in BOOLEAN /\ killed' \in BOOLEAN
  <2>1. CASE m.kind = "garbage"
    <3>1. Fail(waiting, settled, ~exited) /\ UNCHANGED got
      BY <2>1 DEF Receive
    <3>2. /\ Types' /\ Waiting' /\ Keeps /\ CrashReported'
          /\ dead' = TRUE /\ killed' \in BOOLEAN
      BY <1>1, <3>1, FailAll DEF IInv, Flags
    <3>. QED
      BY <3>1, <3>2 DEF IInv, OwnAnswer
  <2>2. CASE m.kind # "garbage" /\ waiting[m.id] = 0
    <3>1. UNCHANGED <<waiting, settled, got, dead, crashes, killed>>
      BY <2>2 DEF Receive
    <3>2. Types' /\ Waiting' /\ CrashReported' /\ OwnAnswer'
      BY <1>1, <3>1 DEF IInv, Types, Waiting, CrashReported, OwnAnswer
    <3>3. Keeps
      BY <1>1, <1>3, <3>1, ClientAssumption DEF Keeps, IInv, Types, Calls
    <3>. QED
      BY <3>1, <3>2, <3>3 DEF IInv, Flags
  <2>3. CASE m.kind = "invalid" /\ waiting[m.id] # 0
    <3>1. /\ Fail([waiting EXCEPT ![m.id] = 0],
                  [settled EXCEPT ![waiting[m.id]] = "error"], ~exited)
          /\ UNCHANGED got
      BY <2>3 DEF Receive, RejectInvalid
    <3>. QED
      BY <1>1, <1>3, <2>3, <3>1, InvalidKeeps DEF IInv, Flags
  <2>4. CASE m.kind \in {"answered", "error"} /\ waiting[m.id] # 0
    <3>1. /\ settled' = [settled EXCEPT ![waiting[m.id]] = m.kind]
          /\ got' = [got EXCEPT ![waiting[m.id]] = m.call]
          /\ waiting' = [waiting EXCEPT ![m.id] = 0]
          /\ UNCHANGED <<dead, crashes, killed>>
      BY <2>4 DEF Receive
    <3>2. Types' /\ Waiting' /\ Keeps /\ OwnAnswer'
      BY <1>1, <1>2, <2>4, <3>1, AnswerKeeps
    <3>. QED
      BY <1>1, <3>1, <3>2 DEF IInv, Flags, CrashReported
  <2>. QED
    BY <2>1, <2>2, <2>3, <2>4 DEF Receive
<1>5. Flags'
  BY <1>1, <1>4 DEF IInv, Flags
<1>6. Pipes'
  BY <1>1, TailElements DEF IInv, Pipes
<1>7. Carries(toClient)'
  BY <1>1, <1>3, <1>4, CarriesTail DEF IInv, Pipes, Matching, Carries, Names
<1>8. Carries(toServer)' /\ Carries(queue)'
  BY <1>1, <1>3, <1>4, CarriesKept DEF IInv, Matching, Carries, Names
<1>9. Requests(toClient)' /\ Requests(queue)'
  <2>1. \A i \in 1 .. Len(Tail(toClient)) :
           Tail(toClient)[i].kind \notin {"cancel", "exit"}
    BY <1>1, TailElements DEF IInv, Pipes, Matching, Requests
  <2>. QED
    BY <1>1, <2>1 DEF IInv, Matching, Requests
<1>. QED
  BY <1>4, <1>5, <1>6, <1>7, <1>8, <1>9 DEF IInv, Matching

LEMMA ServerReadsKeeps == IInv /\ ServerReads => IInv'
<1>. SUFFICES ASSUME IInv, ServerReads PROVE IInv'
  OBVIOUS
<1>. PICK m : m = Head(toServer)
  OBVIOUS
<1>1. /\ toServer # << >> /\ toServer' = Tail(toServer)
      /\ UNCHANGED <<calls, sequence, waiting, settled, got>>
      /\ UNCHANGED <<dead, disposing, goodbye, disposed, crashes, killed, exited>>
      /\ UNCHANGED <<toClient, gone>>
  BY DEF ServerReads, requests, server, Server!Accept, Server!End
<1>2. m \in Messages /\ Names(m)
  <2>1. m \in Messages /\ m = toServer[1] /\ 1 \in 1 .. Len(toServer)
    BY <1>1, TailElements DEF IInv, Pipes
  <2>. QED
    BY <2>1 DEF IInv, Matching, Carries
<1>3. sequence \in 0 .. MaxCalls
  BY ClientAssumption DEF IInv, Types
<1>4. Types' /\ Waiting' /\ CrashReported' /\ OwnAnswer'
  BY <1>1 DEF IInv, Types, Waiting, CrashReported, OwnAnswer
<1>5. Keeps
  BY <1>1, <1>3, ClientAssumption DEF Keeps, IInv, Types, Calls
<1>6. Names(m)'
  BY <1>2, <1>3, <1>5, NamesKept
<1>7. Carries(toServer)'
  BY <1>1, <1>3, <1>5, CarriesTail DEF IInv, Pipes, Matching, Carries, Names
<1>8. Carries(toClient)'
  BY <1>1, <1>3, <1>5, CarriesKept DEF IInv, Matching, Carries, Names
<1>9. Requests(toClient)' /\ toServer' \in Seq(Messages) /\ toClient' \in Seq(Messages)
  BY <1>1, TailElements DEF IInv, Matching, Requests, Pipes
<1>10. /\ queue' \in Seq(Messages) /\ Carries(queue)' /\ Requests(queue)'
       /\ ending' \in BOOLEAN
  <2>1. CASE m.kind = "request"
    <3>1. queue' = Append(queue, m) /\ UNCHANGED ending
      BY <2>1 DEF ServerReads, Server!Accept
    <3>2. queue' \in Seq(Messages)
      BY <1>2, <3>1 DEF IInv, Pipes
    <3>3. Carries(queue)'
      BY <1>2, <1>3, <1>5, <1>6, <3>1, CarriesAppend
         DEF IInv, Pipes, Matching, Carries, Names
    <3>4. Requests(queue)'
      <4>1. \A i \in 1 .. Len(Append(queue, m)) :
               Append(queue, m)[i].kind \notin {"cancel", "exit"}
        BY <1>2, <2>1, AppendElements DEF IInv, Pipes, Matching, Requests
      <4>. QED
        BY <3>1, <4>1 DEF Requests
    <3>. QED
      BY <3>1, <3>2, <3>3, <3>4 DEF IInv, Flags, Pipes
  <2>2. CASE m.kind = "cancel"
    <3>1. UNCHANGED <<queue, ending>>
      BY <2>2 DEF ServerReads, server
    <3>2. Carries(queue)'
      BY <1>3, <1>5, <3>1, CarriesKept DEF IInv, Matching, Carries, Names
    <3>. QED
      BY <3>1, <3>2 DEF IInv, Flags, Pipes, Matching, Requests
  <2>3. CASE m.kind = "exit"
    <3>1. ending' = TRUE /\ UNCHANGED queue
      BY <2>3 DEF ServerReads, Server!End
    <3>2. Carries(queue)'
      BY <1>3, <1>5, <3>1, CarriesKept DEF IInv, Matching, Carries, Names
    <3>. QED
      BY <3>1, <3>2 DEF IInv, Pipes, Matching, Requests
  <2>. QED
    BY <2>1, <2>2, <2>3 DEF ServerReads
<1>11. Flags'
  BY <1>1, <1>10 DEF IInv, Flags
<1>. QED
  BY <1>4, <1>7, <1>8, <1>9, <1>10, <1>11 DEF IInv, Pipes, Matching

LEMMA ServerAnswersKeeps == IInv /\ ServerAnswers => IInv'
<1>. SUFFICES ASSUME IInv, ServerAnswers PROVE IInv'
  OBVIOUS
<1>. PICK m : m = Head(queue)
  OBVIOUS
<1>1. /\ queue # << >> /\ queue' = Tail(queue)
      /\ UNCHANGED <<calls, sequence, waiting, settled, got>>
      /\ UNCHANGED <<dead, disposing, goodbye, disposed, crashes, killed, exited>>
      /\ UNCHANGED <<toServer, ending, gone>>
  BY DEF ServerAnswers, requests, Server!Answer
<1>2. PICK kind \in {"answered", "error", "invalid", "garbage"} :
         toClient' = Append(toClient, Message(kind, m.id, m.call))
  BY DEF ServerAnswers, Server!Answer, Server!Answers, Message
<1>. PICK answer : answer = Message(kind, m.id, m.call)
  OBVIOUS
<1>3. m \in Messages /\ Names(m) /\ m.kind \notin {"cancel", "exit"}
  <2>1. m \in Messages /\ m = queue[1] /\ 1 \in 1 .. Len(queue)
    BY <1>1, TailElements DEF IInv, Pipes
  <2>. QED
    BY <2>1 DEF IInv, Matching, Carries, Requests
<1>4. /\ answer \in Messages /\ answer.kind = kind
      /\ answer.id = m.id /\ answer.call = m.call
  <2>1. kind \in MessageKind /\ m.id \in 0 .. MaxCalls /\ m.call \in 0 .. MaxCalls
    BY <1>3 DEF MessageKind, Messages
  <2>. QED
    BY <2>1, MessageTyped
<1>16. toClient' = Append(toClient, answer)
  BY <1>2
<1>5. Names(answer)
  BY <1>3, <1>4 DEF Names
<1>6. sequence \in 0 .. MaxCalls
  BY ClientAssumption DEF IInv, Types
<1>7. Types' /\ Waiting' /\ CrashReported' /\ OwnAnswer' /\ Flags'
  BY <1>1 DEF IInv, Types, Waiting, CrashReported, OwnAnswer, Flags
<1>8. Keeps
  BY <1>1, <1>6, ClientAssumption DEF Keeps, IInv, Types, Calls
<1>9. Names(answer)'
  BY <1>5, <1>6, <1>8, NamesKept
<1>10. Pipes'
  BY <1>1, <1>2, <1>4, TailElements DEF IInv, Pipes
<1>11. Carries(toClient)'
  <2>. PICK s : s = toClient
    OBVIOUS
  <2>1. s \in Seq(Messages) /\ Carries(s)
    BY DEF IInv, Pipes, Matching
  <2>2. \A i \in 1 .. Len(Append(s, answer)) : Names(Append(s, answer)[i])'
    BY <1>4, <1>6, <1>8, <1>9, <2>1, CarriesAppend
  <2>. QED
    BY <1>16, <2>2 DEF Carries, Names
<1>12. Carries(toServer)'
  BY <1>1, <1>6, <1>8, CarriesKept DEF IInv, Matching, Carries, Names
<1>13. Carries(queue)'
  BY <1>1, <1>6, <1>8, CarriesTail DEF IInv, Pipes, Matching, Carries, Names
<1>14. Requests(toClient)'
  <2>1. \A i \in 1 .. Len(Append(toClient, answer)) :
           Append(toClient, answer)[i].kind \notin {"cancel", "exit"}
    BY <1>4, AppendElements DEF IInv, Pipes, Matching, Requests
  <2>. QED
    BY <1>2, <2>1 DEF Requests
<1>15. Requests(queue)'
  <2>1. \A i \in 1 .. Len(Tail(queue)) :
           Tail(queue)[i].kind \notin {"cancel", "exit"}
    BY <1>1, TailElements DEF IInv, Pipes, Matching, Requests
  <2>. QED
    BY <1>1, <2>1 DEF Requests
<1>. QED
  BY <1>7, <1>10, <1>11, <1>12, <1>13, <1>14, <1>15 DEF IInv, Matching

LEMMA ServerStopsKeeps == IInv /\ ServerStops => IInv'
<1>. SUFFICES ASSUME IInv, ServerStops PROVE IInv'
  OBVIOUS
<1>1. /\ gone' = TRUE
      /\ UNCHANGED <<calls, sequence, waiting, settled, got>>
      /\ UNCHANGED <<dead, disposing, goodbye, disposed, crashes, killed, exited>>
      /\ UNCHANGED <<toServer, toClient, queue, ending>>
  BY DEF ServerStops, requests, Server!Stop
<1>2. Keeps
  BY <1>1, ClientAssumption DEF Keeps, IInv, Types, Calls
<1>3. Matching'
  BY <1>1, <1>2, MatchingKept
<1>. QED
  BY <1>1, <1>3 DEF IInv, Types, Flags, Pipes, Waiting, CrashReported, OwnAnswer

(* A step that changes nothing.                                            *)
LEMMA StutterKeeps == IInv /\ UNCHANGED vars => IInv'
<1>. SUFFICES ASSUME IInv, UNCHANGED vars PROVE IInv'
  OBVIOUS
<1>1. /\ UNCHANGED <<calls, sequence, waiting, settled, got>>
      /\ UNCHANGED <<dead, disposing, goodbye, disposed, crashes, killed, exited>>
      /\ UNCHANGED <<toServer, toClient, queue, ending, gone>>
  BY DEF vars, requests, life, pipes, server
<1>2. Keeps
  BY <1>1, ClientAssumption DEF Keeps, IInv, Types, Calls
<1>3. Matching'
  BY <1>1, <1>2, MatchingKept
<1>. QED
  BY <1>1, <1>3 DEF IInv, Types, Flags, Pipes, Waiting, CrashReported, OwnAnswer

-----------------------------------------------------------------------------
LEMMA InitInv == Init => IInv
<1>. SUFFICES ASSUME Init PROVE IInv
  OBVIOUS
<1>1. Types
  BY ClientAssumption DEF Init, Types, Idle, How
<1>2. Flags
  <2>1. goodbye \in 0 .. calls
    BY DEF Init
  <2>. QED
    BY <2>1 DEF Init, Flags
<1>6. Waiting
  BY DEF Init, Waiting, Idle
<1>5. Pipes
  BY DEF Init, Pipes
<1>3. Matching
  BY DEF Init, Matching, Carries, Requests
<1>4. CrashReported /\ OwnAnswer
  BY DEF Init, CrashReported, OwnAnswer
<1>. QED
  BY <1>1, <1>2, <1>3, <1>4, <1>5, <1>6 DEF IInv

LEMMA StepKeeps == IInv /\ [Next]_vars => IInv'
<1>. SUFFICES ASSUME IInv, [Next]_vars PROVE IInv'
  OBVIOUS
<1>1. CASE Request
  BY <1>1, RequestKeeps
<1>2. CASE RequestAborted
  BY <1>2, RequestAbortedKeeps
<1>3. CASE \E id \in Calls : GiveUp(id)
  BY <1>3, GiveUpKeeps
<1>4. CASE SeesExit
  BY <1>4, SeesExitKeeps
<1>5. CASE PipeBreaks
  BY <1>5, PipeBreaksKeeps
<1>6. CASE Dispose
  BY <1>6, DisposeKeeps
<1>7. CASE DisposeGoesOn
  BY <1>7, DisposeGoesOnKeeps
<1>8. CASE Receive
  BY <1>8, ReceiveKeeps
<1>9. CASE ServerReads
  BY <1>9, ServerReadsKeeps
<1>10. CASE ServerAnswers
  BY <1>10, ServerAnswersKeeps
<1>11. CASE ServerStops
  BY <1>11, ServerStopsKeeps
<1>12. CASE UNCHANGED vars
  BY <1>12, StutterKeeps
<1>. QED
  BY <1>1, <1>2, <1>3, <1>4, <1>5, <1>6, <1>7, <1>8, <1>9, <1>10, <1>11, <1>12
     DEF Next

LEMMA Invariant == Spec => []IInv
  BY InitInv, StepKeeps, PTL DEF Spec

-----------------------------------------------------------------------------
(* Every variable of the client stays in its domain, however many requests *)
(* are made (rpc.ts, the fields of RpcClient).                             *)
THEOREM Typing == Spec => []TypeOK
<1>1. IInv => TypeOK
  <2>. SUFFICES ASSUME IInv PROVE TypeOK
    OBVIOUS
  <2>1. crashes \in 0 .. 1
    BY DEF IInv, CrashReported
  <2>. QED
    BY <2>1 DEF IInv, Types, Flags, Pipes, TypeOK
<1>. QED
  BY <1>1, Invariant, PTL

(* An answer only ever becomes the result of the request it answers, with  *)
(* any number of requests given up and answered late (rpc.ts, request and  *)
(* receive).                                                               *)
THEOREM AnswersMatch == Spec => []OwnAnswer
<1>1. IInv => OwnAnswer
  BY DEF IInv
<1>. QED
  BY <1>1, Invariant, PTL

(* Nobody is left waiting for a server that is lost (rpc.ts, fail, send).  *)
THEOREM NobodyWaits == Spec => []NoneWaitsOnDead
<1>1. IInv => NoneWaitsOnDead
  <2>. SUFFICES ASSUME IInv, dead, NEW c \in 1 .. calls, settled[c] = "none"
                PROVE  FALSE
    BY DEF NoneWaitsOnDead
  <2>1. PICK id \in Calls : waiting[id] = c
    BY DEF IInv, Waiting
  <2>2. waiting[id] = 0
    BY DEF IInv, Waiting, Idle
  <2>. QED
    BY <2>1, <2>2 DEF IInv, Types
<1>. QED
  BY <1>1, Invariant, PTL

(* The loss of a server nobody disposed of is reported exactly once        *)
(* (rpc.ts, fail).                                                         *)
THEOREM LossReportedOnce == Spec => []CrashReported
<1>1. IInv => CrashReported
  BY DEF IInv
<1>. QED
  BY <1>1, Invariant, PTL

-----------------------------------------------------------------------------
(* The contract.                                                           *)

(* Requests not made yet are not settled, and nobody waits for them.       *)
Made ==
    /\ \A c \in Calls : c > calls => settled[c] = "none"
    /\ \A id \in Calls : waiting[id] <= calls

Phase == IF dead THEN "dead" ELSE IF disposing THEN "ending" ELSE "live"
Open == {c \in 1 .. calls : settled[c] = "none"}
Crashed == crashes > 0

(* A step the contract does not see.                                       *)
LEMMA Unseen ==
    ASSUME UNCHANGED <<calls, waiting, settled, dead, disposing, crashes>>, Made
    PROVE  Made' /\ UNCHANGED Contract!vars
  BY DEF Made, Contract!vars

(* A request the client makes is open, unless it refuses it at once.       *)
LEMMA DispatchOpens ==
    ASSUME IInv, Made, calls < MaxCalls, calls' = calls + 1,
           Dispatch(calls + 1, NextId)
    PROVE  /\ Made'
           /\ ~dead => Open' = Open \cup {calls + 1}
           /\ dead => Open' = Open
<1>1. /\ calls \in Nat /\ MaxCalls \in Nat /\ sequence \in Nat
      /\ calls + 1 \in Calls /\ NextId \in Calls
      /\ settled \in [Calls -> How] /\ waiting \in [Calls -> 0 .. MaxCalls]
  BY ClientAssumption DEF IInv, Types, Calls, NextId
<1>2. CASE dead
  <2>1. /\ settled' = [settled EXCEPT ![calls + 1] = "unsent"]
        /\ waiting' = waiting
    BY <1>2 DEF Dispatch
  <2>2. Made'
    BY <1>1, <2>1 DEF Made, Calls
  <2>3. Open' = Open
    BY <1>1, <2>1 DEF Open, Calls
  <2>. QED
    BY <1>2, <2>2, <2>3
<1>3. CASE ~dead
  <2>1. /\ waiting' = [waiting EXCEPT ![NextId] = calls + 1]
        /\ settled' = settled
    BY <1>3 DEF Dispatch
  <2>2. Made'
    BY <1>1, <2>1 DEF Made, Calls
  <2>3. Open' = Open \cup {calls + 1}
    BY <1>1, <2>1 DEF Open, Made, Calls
  <2>. QED
    BY <1>3, <2>2, <2>3
<1>. QED
  BY <1>2, <1>3

(* Settling a request that waits is the contract's, or changes nothing.    *)
LEMMA SettleCloses ==
    ASSUME IInv, Made, NEW id \in Calls, waiting[id] # 0, NEW how \in How,
           how # "none",
           settled' = [settled EXCEPT ![waiting[id]] = how],
           waiting' = [waiting EXCEPT ![id] = 0],
           UNCHANGED <<calls, dead, disposing, crashes>>
    PROVE  Made' /\ [Contract!Next]_(Contract!vars)
<1>1. /\ calls \in 0 .. MaxCalls /\ MaxCalls \in Nat
      /\ settled \in [Calls -> How] /\ waiting \in [Calls -> 0 .. MaxCalls]
      /\ waiting[id] \in 1 .. calls /\ waiting[id] \in Calls
  BY ClientAssumption DEF IInv, Types, Calls, Made
<1>2. Made'
  BY <1>1 DEF Made, Calls
<1>3. Open' = Open \ {waiting[id]}
  BY <1>1 DEF Open, Calls
<1>4. CASE waiting[id] \in Open
  <2>1. PICK c \in 1 .. MaxCalls : c = waiting[id]
    BY <1>1 DEF Calls
  <2>2. Contract!Settle(c)
    BY <1>3, <1>4, <2>1 DEF Contract!Settle, Open
  <2>. QED
    BY <1>2, <2>2 DEF Contract!Next
<1>5. CASE waiting[id] \notin Open
  <2>1. Open' = Open
    BY <1>3, <1>5
  <2>. QED
    BY <1>2, <2>1 DEF Contract!vars, Open
<1>. QED
  BY <1>4, <1>5

(* The end of the server is the contract's, the first time it is seen.     *)
LEMMA FailEnds ==
    ASSUME IInv, Made, NEW left, NEW how, NEW running \in BOOLEAN,
           left \in [Calls -> 0 .. MaxCalls], how \in [Calls -> How],
           \A id \in Calls : left[id] \in {0, waiting[id]},
           \A c \in Calls : how[c] \in {settled[c], "error"},
           \A c \in Calls : how[c] # settled[c] => c \in 1 .. calls,
           \A c \in 1 .. calls : how[c] = "none" =>
               \E id \in Calls : left[id] = c,
           Fail(left, how, running), UNCHANGED <<calls, disposing>>
    PROVE  Made' /\ [Contract!Next]_(Contract!vars)
<1>1. /\ dead' = TRUE /\ waiting' = Idle
      /\ \A c \in 1 .. calls : settled'[c] # "none"
      /\ crashes' = IF disposing THEN 0 ELSE 1
  BY FailSettles
<1>2. /\ calls \in 0 .. MaxCalls /\ MaxCalls \in Nat
      /\ waiting \in [Calls -> 0 .. MaxCalls]
      /\ dead \in BOOLEAN /\ disposing \in BOOLEAN
  BY ClientAssumption DEF IInv, Types, Flags
<1>3. \A c \in Calls : c > calls => settled'[c] = "none"
  <2>1. \A c \in Calls : c > calls =>
            how[c] = "none" /\ \A id \in Calls : left[id] # c
    <3>. SUFFICES ASSUME NEW c \in Calls, c > calls
                  PROVE  how[c] = "none" /\ \A id \in Calls : left[id] # c
      OBVIOUS
    <3>1. c \notin 1 .. calls /\ c # 0 /\ c \in Nat
      BY <1>2 DEF Calls
    <3>2. how[c] = "none"
      BY <3>1 DEF Made
    <3>3. \A id \in Calls : waiting[id] # c
      BY <1>2, <3>1 DEF Made
    <3>. QED
      BY <3>1, <3>2, <3>3
  <2>2. CASE dead
    BY <2>1, <2>2 DEF Fail
  <2>3. CASE ~dead
    <3>1. settled' = [c \in Calls |->
              IF \E id \in Calls : left[id] = c THEN "stopped" ELSE how[c]]
      BY <2>3 DEF Fail
    <3>. QED
      BY <2>1, <3>1
  <2>. QED
    BY <2>2, <2>3
<1>4. Made'
  BY <1>1, <1>2, <1>3 DEF Made, Idle, Calls
<1>5. Open' = {}
  BY <1>1 DEF Open
<1>6. CASE ~dead
  <2>1. Contract!End
    BY <1>1, <1>2, <1>5, <1>6 DEF Contract!End, Open
  <2>. QED
    BY <1>4, <2>1 DEF Contract!Next
<1>7. CASE dead
  <2>1. Open = {}
    <3>1. \A c \in 1 .. calls : settled[c] # "none"
      BY <1>2, <1>7 DEF IInv, Waiting, Idle
    <3>. QED
      BY <3>1 DEF Open
  <2>2. crashes' = crashes
    BY <1>1, <1>7 DEF IInv, CrashReported
  <2>. QED
    BY <1>1, <1>4, <1>5, <1>7, <2>1, <2>2 DEF Contract!vars, Open
<1>. QED
  BY <1>6, <1>7

LEMMA RequestMakes ==
    ASSUME IInv, Made, Request
    PROVE  Made' /\ [Contract!Next]_(Contract!vars)
<1>1. /\ calls < MaxCalls /\ calls' = calls + 1 /\ Dispatch(calls + 1, NextId)
      /\ UNCHANGED <<dead, disposing, crashes>>
  BY DEF Request, life
<1>2. /\ Made' /\ dead \in BOOLEAN
      /\ ~dead => Open' = Open \cup {calls + 1}
      /\ dead => Open' = Open
  BY <1>1, DispatchOpens DEF IInv, Flags
<1>3. Contract!Make
  BY <1>1, <1>2 DEF Contract!Make, Open
<1>. QED
  BY <1>2, <1>3 DEF Contract!Next

LEMMA RequestAbortedMakes ==
    ASSUME IInv, Made, RequestAborted
    PROVE  Made' /\ [Contract!Next]_(Contract!vars)
<1>1. /\ calls < MaxCalls /\ calls' = calls + 1
      /\ settled' = [settled EXCEPT ![calls + 1] = "cancelled"]
      /\ UNCHANGED <<waiting, dead, disposing, crashes>>
  BY DEF RequestAborted, life
<1>2. /\ calls \in Nat /\ MaxCalls \in Nat /\ settled \in [Calls -> How]
      /\ waiting \in [Calls -> 0 .. MaxCalls]
  BY ClientAssumption DEF IInv, Types
<1>3. Made'
  BY <1>1, <1>2 DEF Made, Calls
<1>4. Open' = Open
  BY <1>1, <1>2 DEF Open, Calls
<1>5. Contract!Make
  BY <1>1, <1>4 DEF Contract!Make, Open
<1>. QED
  BY <1>3, <1>5 DEF Contract!Next

LEMMA DisposeDisposes ==
    ASSUME IInv, Made, Dispose
    PROVE  Made' /\ [Contract!Next]_(Contract!vars)
<1>1. /\ ~dead /\ ~disposing /\ calls < MaxCalls
      /\ calls' = calls + 1 /\ Dispatch(calls + 1, NextId)
      /\ disposing' = TRUE /\ UNCHANGED <<dead, crashes>>
  BY DEF Dispose
<1>2. Made' /\ Open' = Open \cup {calls + 1}
  BY <1>1, DispatchOpens
<1>3. Contract!Dispose
  BY <1>1, <1>2 DEF Contract!Dispose, Open
<1>. QED
  BY <1>2, <1>3 DEF Contract!Next

(* Each way the client learns that the server is lost.                     *)
LEMMA LossEnds ==
    ASSUME IInv, Made, NEW running \in BOOLEAN, Fail(waiting, settled, running),
           UNCHANGED <<calls, disposing>>
    PROVE  Made' /\ [Contract!Next]_(Contract!vars)
<1>1. \A c \in 1 .. calls : settled[c] = "none" =>
          \E id \in Calls : waiting[id] = c
  BY DEF IInv, Waiting
<1>. QED
  BY <1>1, FailEnds DEF IInv, Types

LEMMA ReceiveSettles ==
    ASSUME IInv, Made, Receive
    PROVE  Made' /\ [Contract!Next]_(Contract!vars)
<1>. PICK m : m = Head(toClient)
  OBVIOUS
<1>1. toClient # << >> /\ UNCHANGED <<calls, disposing>>
  BY DEF Receive
<1>2. m \in Messages /\ Names(m) /\ m.kind \notin {"cancel", "exit"}
  <2>1. m \in Messages /\ m = toClient[1] /\ 1 \in 1 .. Len(toClient)
    BY <1>1, TailElements DEF IInv, Pipes
  <2>. QED
    BY <2>1 DEF IInv, Matching, Carries, Requests
<1>3. m.id \in Calls /\ exited \in BOOLEAN
  BY <1>2, ClientAssumption DEF Names, IInv, Types, Flags, Calls
<1>4. CASE m.kind = "garbage"
  BY <1>1, <1>3, <1>4, LossEnds DEF Receive
<1>5. CASE m.kind # "garbage" /\ waiting[m.id] = 0
  BY <1>1, <1>5, Unseen DEF Receive
<1>6. CASE m.kind = "invalid" /\ waiting[m.id] # 0
  <2>. DEFINE left == [waiting EXCEPT ![m.id] = 0]
              how == [settled EXCEPT ![waiting[m.id]] = "error"]
  <2>1. Fail(left, how, ~exited)
    BY <1>6 DEF Receive, RejectInvalid
  <2>2. /\ left \in [Calls -> 0 .. MaxCalls] /\ how \in [Calls -> How]
        /\ waiting[m.id] \in 1 .. calls
        /\ \A id \in Calls : left[id] \in {0, waiting[id]}
        /\ \A c \in Calls : how[c] \in {settled[c], "error"}
        /\ \A c \in Calls : how[c] # settled[c] => c \in 1 .. calls
    BY <1>3, <1>6, ClientAssumption DEF IInv, Types, Made, Calls, How
  <2>3. \A c \in 1 .. calls : how[c] = "none" => \E id \in Calls : left[id] = c
    <3>. SUFFICES ASSUME NEW c \in 1 .. calls, how[c] = "none"
                  PROVE  \E id \in Calls : left[id] = c
      OBVIOUS
    <3>1. c # waiting[m.id] /\ settled[c] = "none" /\ c # 0
      BY <1>3, ClientAssumption DEF IInv, Types, Calls
    <3>2. PICK id \in Calls : waiting[id] = c
      BY <3>1 DEF IInv, Waiting
    <3>. QED
      BY <3>1, <3>2 DEF IInv, Types
  <2>. HIDE DEF left, how
  <2>. QED
    BY <1>1, <1>3, <2>1, <2>2, <2>3, FailEnds
<1>7. CASE m.kind \in {"answered", "error"} /\ waiting[m.id] # 0
  <2>1. /\ settled' = [settled EXCEPT ![waiting[m.id]] = m.kind]
        /\ waiting' = [waiting EXCEPT ![m.id] = 0]
        /\ UNCHANGED <<dead, crashes>>
    BY <1>7 DEF Receive
  <2>. QED
    BY <1>1, <1>3, <1>7, <2>1, SettleCloses DEF How
<1>. QED
  BY <1>4, <1>5, <1>6, <1>7 DEF Receive

LEMMA NextContract ==
    ASSUME IInv, Made, [Next]_vars
    PROVE  Made' /\ [Contract!Next]_(Contract!vars)
<1>1. CASE Request \/ RequestAborted \/ Dispose \/ Receive
  BY <1>1, RequestMakes, RequestAbortedMakes, DisposeDisposes, ReceiveSettles
<1>2. ASSUME NEW id \in Calls, GiveUp(id)
      PROVE  Made' /\ [Contract!Next]_(Contract!vars)
  <2>1. /\ waiting[id] # 0
        /\ settled' = [settled EXCEPT ![waiting[id]] = "cancelled"]
        /\ waiting' = [waiting EXCEPT ![id] = 0]
        /\ UNCHANGED <<calls, dead, disposing, crashes>>
    BY <1>2 DEF GiveUp, life
  <2>. QED
    BY <2>1, SettleCloses DEF How
<1>3. CASE SeesExit \/ PipeBreaks \/ DisposeGoesOn
  <2>1. /\ \E running \in BOOLEAN : Fail(waiting, settled, running)
        /\ UNCHANGED <<calls, disposing>>
    BY <1>3 DEF SeesExit, PipeBreaks, DisposeGoesOn, IInv, Flags
  <2>. QED
    BY <2>1, LossEnds
<1>4. CASE ServerReads \/ ServerAnswers \/ ServerStops \/ UNCHANGED vars
  BY <1>4, Unseen DEF ServerReads, ServerAnswers, ServerStops, vars, requests,
     life
<1>. QED
  BY <1>1, <1>2, <1>3, <1>4 DEF Next

(* However many requests are made, given up and answered late, and however *)
(* the server is lost, every step of the client is one of RpcContract: it  *)
(* settles only what is open, all of it at the end of the server, and      *)
(* reports that end once (rpc.ts, request, receive, fail and dispose).     *)
THEOREM KeepsContract ==
    Spec => Contract!Init /\ [][Contract!Next]_(Contract!vars)
<1>1. Init => Made /\ Contract!Init
  <2>1. Init => Made
    BY ClientAssumption DEF Init, Made, Idle, Calls
  <2>2. Init => Contract!Init
    BY DEF Init, Contract!Init
  <2>. QED
    BY <2>1, <2>2
<1>2. IInv /\ Made /\ [Next]_vars => Made'
  BY NextContract
<1>3. IInv /\ Made /\ [Next]_vars => [Contract!Next]_(Contract!vars)
  BY NextContract
<1>. QED
  BY <1>1, <1>2, <1>3, Invariant, PTL DEF Spec
-----------------------------------------------------------------------------
(* Disposing finds the server idle.                                        *)

Asks(m) == m.kind = "request"

(* The server reads the requests in the order they were made.              *)
Ordered ==
    /\ \A i \in 1 .. Len(queue) : Asks(queue[i]) /\ queue[i].call <= calls
    /\ \A i, j \in 1 .. Len(queue) : i < j => queue[i].call < queue[j].call
    /\ \A j \in 1 .. Len(toServer) :
          Asks(toServer[j]) => toServer[j].call <= calls
    /\ \A i, j \in 1 .. Len(toServer) :
          i < j /\ Asks(toServer[i]) /\ Asks(toServer[j])
              => toServer[i].call < toServer[j].call
    /\ \A i \in 1 .. Len(queue), j \in 1 .. Len(toServer) :
          Asks(toServer[j]) => queue[i].call < toServer[j].call

(* Whatever is answered was asked before everything that is not.           *)
Behind ==
    /\ \A i \in 1 .. Len(toClient) : toClient[i].call <= calls
    /\ \A i \in 1 .. Len(toClient), c \in Calls :
          Underway(c) => toClient[i].call < c
    /\ disposing => goodbye # 0
    /\ goodbye # 0 /\ settled[goodbye] \in {"answered", "error"}
          => \A c \in Calls : Underway(c) => goodbye < c
    /\ \A c \in Calls : settled[c] \in {"unsent", "stopped"} => dead

LEMMA AppendIndices ==
    ASSUME NEW S, NEW s \in Seq(S), NEW m \in S
    PROVE  /\ Len(s) \in Nat /\ Len(Append(s, m)) = Len(s) + 1
           /\ Append(s, m)[Len(s) + 1] = m
           /\ \A i \in 1 .. Len(s) : Append(s, m)[i] = s[i]
  OBVIOUS

LEMMA TailIndices ==
    ASSUME NEW S, NEW s \in Seq(S), s # << >>
    PROVE  /\ Len(s) \in Nat /\ Len(Tail(s)) = Len(s) - 1
           /\ Head(s) = s[1] /\ 1 \in 1 .. Len(s)
           /\ \A i \in 1 .. Len(s) - 1 : Tail(s)[i] = s[i + 1]
  OBVIOUS

(* Requests are numbers, in the pipes as well.                             *)
LEMMA PipesNumbered ==
    ASSUME IInv
    PROVE  /\ MaxCalls \in Nat /\ calls \in 0 .. MaxCalls
           /\ goodbye \in 0 .. calls
           /\ \A i \in 1 .. Len(queue) : queue[i].call \in Calls
           /\ \A i \in 1 .. Len(toClient) : toClient[i].call \in Calls
           /\ \A i \in 1 .. Len(toServer) :
                 Asks(toServer[i]) => toServer[i].call \in Calls
  BY ClientAssumption DEF IInv, Types, Flags, Matching, Requests, Carries, Names,
     Asks

(* A step that sends the server nothing but cancellations or `exit`.       *)
LEMMA OrderKept ==
    ASSUME IInv, Ordered, UNCHANGED queue, calls' \in Nat, calls <= calls',
           \/ UNCHANGED toServer
           \/ \E m \in Messages : ~Asks(m) /\ toServer' = Append(toServer, m)
    PROVE  Ordered' /\ \A c \in Calls : Underway(c)' => Underway(c)
<1>0. /\ calls \in Nat
      /\ \A i \in 1 .. Len(queue) : queue[i].call \in Nat
      /\ \A i \in 1 .. Len(toServer) : Asks(toServer[i]) => toServer[i].call \in Nat
  <2>1. calls \in Nat /\ Calls \subseteq Nat
    BY PipesNumbered DEF Calls
  <2>. QED
    BY <2>1, PipesNumbered
<1>1. CASE UNCHANGED toServer
  BY <1>0, <1>1 DEF Ordered, Underway, Asks
<1>2. ASSUME NEW m \in Messages, ~Asks(m), toServer' = Append(toServer, m)
      PROVE  Ordered' /\ \A c \in Calls : Underway(c)' => Underway(c)
  <2>1. /\ Len(toServer) \in Nat /\ Len(toServer') = Len(toServer) + 1
        /\ ~Asks(toServer'[Len(toServer) + 1])
        /\ \A i \in 1 .. Len(toServer) : toServer'[i] = toServer[i]
    BY <1>2, AppendIndices DEF IInv, Pipes
  <2>2. \A i \in 1 .. Len(toServer') :
           Asks(toServer'[i]) => i \in 1 .. Len(toServer) /\ toServer'[i] = toServer[i]
    BY <2>1
  <2>3. Ordered'
    <3>1. \A i \in 1 .. Len(queue') :
             Asks(queue'[i]) /\ queue'[i].call <= calls'
      BY <1>0 DEF Ordered
    <3>2. \A j \in 1 .. Len(toServer') :
             Asks(toServer'[j]) => toServer'[j].call <= calls'
      BY <1>0, <2>2 DEF Ordered
    <3>3. \A i, j \in 1 .. Len(toServer') :
             i < j /\ Asks(toServer'[i]) /\ Asks(toServer'[j])
                 => toServer'[i].call < toServer'[j].call
      BY <2>2 DEF Ordered
    <3>4. \A i \in 1 .. Len(queue'), j \in 1 .. Len(toServer') :
             Asks(toServer'[j]) => queue'[i].call < toServer'[j].call
      BY <2>2 DEF Ordered
    <3>. QED
      BY <3>1, <3>2, <3>3, <3>4 DEF Ordered, Asks
  <2>4. \A c \in Calls : Underway(c)' => Underway(c)
    BY <2>2 DEF Underway, Asks
  <2>. QED
    BY <2>3, <2>4
<1>. QED
  BY <1>1, <1>2

(* Nothing new gets underway or is answered, and the answer to `shutdown`  *)
(* did not come.                                                           *)
LEMMA BehindKept ==
    ASSUME IInv, Behind, calls' \in Nat, calls <= calls',
           \A c \in Calls : Underway(c)' => Underway(c),
           UNCHANGED <<goodbye, disposing>>,
           \/ UNCHANGED toClient
           \/ toClient # << >> /\ toClient' = Tail(toClient),
           settled'[goodbye] \in {"answered", "error"} =>
               settled[goodbye] \in {"answered", "error"},
           \A c \in Calls : settled'[c] \in {"unsent", "stopped"} => dead'
    PROVE  Behind'
<1>1. \A i \in 1 .. Len(toClient') :
         \E j \in 1 .. Len(toClient) : toClient'[i] = toClient[j]
  <2>1. CASE UNCHANGED toClient
    BY <2>1
  <2>2. CASE toClient # << >> /\ toClient' = Tail(toClient)
    BY <2>2, TailElements DEF IInv, Pipes
  <2>. QED
    BY <2>1, <2>2
<1>2. \A i \in 1 .. Len(toClient') : toClient'[i].call <= calls'
  <2>1. /\ calls \in Nat /\ Calls \subseteq Nat
        /\ \A j \in 1 .. Len(toClient) :
              toClient[j].call \in Calls /\ toClient[j].call <= calls
    BY PipesNumbered DEF Behind, Calls
  <2>2. \A n \in Calls : n <= calls => n <= calls'
    BY <2>1
  <2>. QED
    BY <1>1, <2>1, <2>2
<1>3. \A i \in 1 .. Len(toClient'), c \in Calls :
         Underway(c)' => toClient'[i].call < c
  BY <1>1 DEF Behind
<1>4. goodbye' # 0 /\ settled'[goodbye'] \in {"answered", "error"}
          => \A c \in Calls : Underway(c)' => goodbye' < c
  BY DEF Behind
<1>5. disposing' => goodbye' # 0
  BY DEF Behind
<1>. QED
  BY <1>2, <1>3, <1>4, <1>5 DEF Behind

(* A new request is asked after all the others.                            *)
LEMMA DispatchOrders ==
    ASSUME IInv, Made, Ordered, Behind, calls < MaxCalls, calls' = calls + 1,
           Dispatch(calls + 1, NextId), UNCHANGED <<dead, toClient, queue>>,
           \/ UNCHANGED <<goodbye, disposing>>
           \/ ~dead /\ goodbye' = calls + 1
    PROVE  Ordered' /\ Behind'
<1>0. /\ calls \in Nat /\ calls + 1 \in Calls /\ MaxCalls \in Nat
      /\ goodbye \in 0 .. calls /\ goodbye # calls + 1
      /\ settled \in [Calls -> How] /\ 0 \notin Calls
      /\ sequence + 1 \in 0 .. MaxCalls /\ calls + 1 \in 0 .. MaxCalls
  BY PipesNumbered, ClientAssumption DEF IInv, Types, Calls
<1>1. CASE dead
  <2>1. /\ settled' = [settled EXCEPT ![calls + 1] = "unsent"]
        /\ UNCHANGED toServer /\ UNCHANGED <<goodbye, disposing>>
    BY <1>1 DEF Dispatch
  <2>2. Ordered' /\ \A c \in Calls : Underway(c)' => Underway(c)
    BY <1>0, <2>1, OrderKept
  <2>3. settled'[goodbye] \in {"answered", "error"} =>
            settled[goodbye] \in {"answered", "error"}
    BY <1>0, <2>1
  <2>4. dead' /\ calls' \in Nat /\ calls <= calls'
    BY <1>0, <1>1
  <2>. QED
    BY <2>1, <2>2, <2>3, <2>4, BehindKept
<1>2. CASE ~dead
  <2>. PICK m : m = Message("request", sequence + 1, calls + 1)
    OBVIOUS
  <2>1. toServer' = Append(toServer, m) /\ UNCHANGED settled
    BY <1>2 DEF Dispatch, NextId
  <2>2. m \in Messages /\ m.kind = "request" /\ m.call = calls + 1
    <3>1. "request" \in MessageKind
      BY DEF MessageKind
    <3>. QED
      BY <1>0, <3>1, MessageTyped
  <2>3. /\ Len(toServer) \in Nat /\ Len(toServer') = Len(toServer) + 1
        /\ toServer'[Len(toServer) + 1] = m
        /\ \A i \in 1 .. Len(toServer) : toServer'[i] = toServer[i]
    BY <2>1, <2>2, AppendIndices DEF IInv, Pipes
  <2>4. \A i \in 1 .. Len(toServer') :
           \/ i \in 1 .. Len(toServer) /\ toServer'[i] = toServer[i]
           \/ i = Len(toServer) + 1 /\ toServer'[i].call = calls + 1
    BY <2>2, <2>3
  <2>5. Ordered'
    <3>1. \A i \in 1 .. Len(queue') :
             Asks(queue'[i]) /\ queue'[i].call <= calls'
      BY <1>0, PipesNumbered DEF Ordered, Calls
    <3>2. \A j \in 1 .. Len(toServer') :
             Asks(toServer'[j]) => toServer'[j].call <= calls'
      BY <1>0, <2>4, PipesNumbered DEF Ordered, Calls
    <3>3. \A i, j \in 1 .. Len(toServer') :
             i < j /\ Asks(toServer'[i]) /\ Asks(toServer'[j])
                 => toServer'[i].call < toServer'[j].call
      <4>. SUFFICES ASSUME NEW i \in 1 .. Len(toServer'),
                           NEW j \in 1 .. Len(toServer'), i < j,
                           Asks(toServer'[i]), Asks(toServer'[j])
                    PROVE  toServer'[i].call < toServer'[j].call
        OBVIOUS
      <4>1. i \in 1 .. Len(toServer) /\ toServer'[i] = toServer[i]
        BY <2>3, <2>4
      <4>. QED
        BY <1>0, <2>4, <4>1, PipesNumbered DEF Ordered, Calls
    <3>4. \A i \in 1 .. Len(queue'), j \in 1 .. Len(toServer') :
             Asks(toServer'[j]) => queue'[i].call < toServer'[j].call
      <4>1. \A i \in 1 .. Len(queue) : queue[i].call < calls + 1
        BY <1>0, PipesNumbered DEF Ordered, Calls
      <4>. QED
        BY <2>4, <4>1 DEF Ordered
    <3>5. \A i, j \in 1 .. Len(queue') :
             i < j => queue'[i].call < queue'[j].call
      BY DEF Ordered
    <3>. QED
      BY <3>1, <3>2, <3>3, <3>4, <3>5 DEF Ordered, Asks
  <2>6. \A c \in Calls : Underway(c)' => Underway(c) \/ c = calls + 1
    BY <2>4 DEF Underway
  <2>7. Behind'
    <3>1. \A i \in 1 .. Len(toClient') :
             toClient'[i].call <= calls' /\ toClient'[i].call < calls + 1
      BY <1>0, PipesNumbered DEF Behind, Calls
    <3>2. \A i \in 1 .. Len(toClient'), c \in Calls :
             Underway(c)' => toClient'[i].call < c
      BY <2>6, <3>1 DEF Behind
    <3>3. disposing' => goodbye' # 0
      BY <1>0 DEF Behind
    <3>4. ASSUME goodbye' # 0, settled'[goodbye'] \in {"answered", "error"}
          PROVE  \A c \in Calls : Underway(c)' => goodbye' < c
      <4>1. settled[calls + 1] = "none"
        BY <1>0 DEF Made
      <4>2. goodbye' = goodbye
        BY <2>1, <3>4, <4>1
      <4>. QED
        BY <1>0, <2>1, <2>6, <3>4, <4>2 DEF Behind
    <3>5. \A c \in Calls : settled'[c] \in {"unsent", "stopped"} => dead'
      BY <2>1 DEF Behind
    <3>. QED
      BY <3>1, <3>2, <3>3, <3>4, <3>5 DEF Behind
  <2>. QED
    BY <2>5, <2>7
<1>. QED
  BY <1>1, <1>2

(* What the client fails is rejected for it, or was settled before.        *)
LEMMA FailStops ==
    ASSUME NEW left, NEW how \in [Calls -> How], NEW running,
           Fail(left, how, running), dead \in BOOLEAN,
           \A c \in Calls : how[c] \in {"unsent", "stopped"} => dead
    PROVE  /\ dead'
           /\ \A c \in Calls : settled'[c] \in {"stopped", how[c]}
<1>1. CASE dead
  BY <1>1 DEF Fail
<1>2. CASE ~dead
  BY <1>2 DEF Fail
<1>. QED
  BY <1>1, <1>2

(* The end of the client, from whatever it learns it.                      *)
LEMMA EndOrders ==
    ASSUME IInv, Ordered, Behind, NEW running, Fail(waiting, settled, running),
           UNCHANGED <<calls, queue, toClient, goodbye, disposing>>,
           \/ UNCHANGED toServer
           \/ \E m \in Messages : ~Asks(m) /\ toServer' = Append(toServer, m)
    PROVE  Ordered' /\ Behind'
<1>1. calls' \in Nat /\ calls <= calls' /\ goodbye \in 0 .. MaxCalls
  BY PipesNumbered
<1>2. Ordered' /\ \A c \in Calls : Underway(c)' => Underway(c)
  BY <1>1, OrderKept
<1>3. dead' /\ \A c \in Calls : settled'[c] \in {"stopped", settled[c]}
  BY FailStops DEF IInv, Types, Flags, Behind
<1>4. CASE goodbye = 0
  <2>1. /\ \A i \in 1 .. Len(toClient) : toClient[i].call <= calls
        /\ \A i \in 1 .. Len(toClient), c \in Calls :
              Underway(c)' => toClient[i].call < c
        /\ ~disposing
    BY <1>2, <1>4 DEF Behind, IInv, Flags
  <2>. QED
    BY <1>2, <1>3, <1>4, <2>1 DEF Behind
<1>5. CASE goodbye \in Calls
  BY <1>1, <1>2, <1>3, <1>5, BehindKept
<1>. QED
  BY <1>1, <1>2, <1>4, <1>5, PipesNumbered DEF Calls

LEMMA RequestAbortedOrders ==
    ASSUME IInv, Ordered, Behind, RequestAborted
    PROVE  Ordered' /\ Behind'
<1>1. /\ calls < MaxCalls /\ calls' = calls + 1
      /\ settled' = [settled EXCEPT ![calls + 1] = "cancelled"]
      /\ UNCHANGED <<dead, disposing, goodbye>>
      /\ UNCHANGED <<queue, toServer, toClient>>
  BY DEF RequestAborted, life, pipes, server
<1>2. /\ calls' \in Nat /\ calls <= calls' /\ calls + 1 \in Calls
      /\ goodbye # calls + 1 /\ settled \in [Calls -> How]
  BY <1>1, PipesNumbered DEF Calls, IInv, Types
<1>3. Ordered' /\ \A c \in Calls : Underway(c)' => Underway(c)
  BY <1>1, <1>2, OrderKept
<1>4. /\ settled'[goodbye] = settled[goodbye]
      /\ \A c \in Calls : settled'[c] \in {"unsent", "stopped"} => dead'
  BY <1>1, <1>2 DEF Behind
<1>. QED
  BY <1>1, <1>2, <1>3, <1>4, BehindKept

LEMMA GiveUpOrders ==
    ASSUME IInv, Made, Ordered, Behind, NEW id \in Calls, GiveUp(id)
    PROVE  Ordered' /\ Behind'
<1>1. /\ waiting[id] # 0
      /\ toServer' = Append(toServer, Message("cancel", id, waiting[id]))
      /\ settled' = [settled EXCEPT ![waiting[id]] = "cancelled"]
      /\ UNCHANGED <<calls, dead, disposing, goodbye, queue, toClient>>
  BY DEF GiveUp, life, server
<1>2. /\ calls' \in Nat /\ calls <= calls'
      /\ waiting[id] \in Calls /\ settled \in [Calls -> How]
  BY <1>1, PipesNumbered DEF Calls, IInv, Types
<1>3. \E m \in Messages : ~Asks(m) /\ toServer' = Append(toServer, m)
  <2>1. /\ "cancel" \in MessageKind /\ id \in 0 .. MaxCalls
        /\ waiting[id] \in 0 .. MaxCalls
    BY <1>2, PipesNumbered DEF MessageKind, Calls
  <2>. QED
    BY <1>1, <2>1, MessageTyped DEF Asks
<1>4. Ordered' /\ \A c \in Calls : Underway(c)' => Underway(c)
  BY <1>1, <1>2, <1>3, OrderKept
<1>5. /\ settled'[goodbye] \in {"answered", "error"} =>
             settled[goodbye] \in {"answered", "error"}
      /\ \A c \in Calls : settled'[c] \in {"unsent", "stopped"} => dead'
  BY <1>1, <1>2 DEF Behind
<1>. QED
  BY <1>1, <1>2, <1>4, <1>5, BehindKept

LEMMA ReceiveOrders ==
    ASSUME IInv, Made, Ordered, Behind, Receive
    PROVE  Ordered' /\ Behind'
<1>. PICK m : m = Head(toClient)
  OBVIOUS
<1>1. /\ toClient # << >> /\ toClient' = Tail(toClient)
      /\ UNCHANGED <<calls, disposing, goodbye, toServer, queue>>
  BY DEF Receive, server
<1>2. /\ m = toClient[1] /\ 1 \in 1 .. Len(toClient) /\ m.call \in Calls
      /\ m.id \in Calls /\ waiting[m.id] \in {0, m.call}
      /\ settled \in [Calls -> How] /\ dead \in BOOLEAN
      /\ waiting \in [Calls -> 0 .. MaxCalls]
  <2>1. m = toClient[1] /\ 1 \in 1 .. Len(toClient)
    BY <1>1, TailElements DEF IInv, Pipes
  <2>2. Names(m) /\ m.kind \notin {"cancel", "exit"}
    BY <2>1 DEF IInv, Matching, Carries, Requests
  <2>. QED
    BY <2>1, <2>2, ClientAssumption DEF Names, IInv, Types, Flags, Calls
<1>3. calls' \in Nat /\ calls <= calls'
  BY <1>1, PipesNumbered
<1>4. Ordered' /\ \A c \in Calls : Underway(c)' => Underway(c)
  BY <1>1, <1>3, OrderKept
<1>5. \A c \in Calls : Underway(c)' => m.call < c
  BY <1>2, <1>4 DEF Behind
<1>6. /\ \A c \in Calls : settled'[c] \in {"answered", "error"} =>
             settled[c] \in {"answered", "error"} \/ c = m.call
      /\ \A c \in Calls : settled'[c] \in {"unsent", "stopped"} => dead'
  <2>1. CASE m.kind = "garbage"
    <3>1. Fail(waiting, settled, ~exited)
      BY <2>1 DEF Receive
    <3>2. dead' /\ \A c \in Calls : settled'[c] \in {"stopped", settled[c]}
      BY <1>2, <3>1, FailStops DEF Behind
    <3>. QED
      BY <3>2
  <2>2. CASE m.kind # "garbage" /\ waiting[m.id] = 0
    BY <2>2 DEF Receive, Behind
  <2>3. CASE m.kind = "invalid" /\ waiting[m.id] # 0
    <3>. DEFINE left == [waiting EXCEPT ![m.id] = 0]
                how == [settled EXCEPT ![m.call] = "error"]
    <3>1. Fail(left, how, ~exited)
      BY <1>2, <2>3 DEF Receive, RejectInvalid
    <3>2. /\ how \in [Calls -> How]
          /\ \A c \in Calls : c # m.call => how[c] = settled[c]
          /\ how[m.call] = "error"
      BY <1>2 DEF How
    <3>3. \A c \in Calls : how[c] \in {"unsent", "stopped"} => dead
      BY <3>2 DEF Behind
    <3>. HIDE DEF left, how
    <3>4. dead' /\ \A c \in Calls : settled'[c] \in {"stopped", how[c]}
      BY <1>2, <3>1, <3>2, <3>3, FailStops
    <3>. QED
      BY <3>2, <3>4
  <2>4. CASE m.kind \in {"answered", "error"} /\ waiting[m.id] # 0
    <3>1. settled' = [settled EXCEPT ![m.call] = m.kind] /\ UNCHANGED dead
      BY <1>2, <2>4 DEF Receive
    <3>. QED
      BY <1>2, <2>4, <3>1 DEF Behind
  <2>. QED
    BY <2>1, <2>2, <2>3, <2>4 DEF Receive
<1>7. CASE goodbye = m.call
  <2>1. /\ \A i \in 1 .. Len(toClient') :
              \E j \in 1 .. Len(toClient) : toClient'[i] = toClient[j]
    BY <1>1, TailElements DEF IInv, Pipes
  <2>2. goodbye # 0
    BY <1>2, <1>7 DEF Calls
  <2>. QED
    BY <1>1, <1>4, <1>5, <1>6, <1>7, <2>1, <2>2 DEF Behind
<1>8. CASE goodbye # m.call /\ goodbye # 0
  <2>1. goodbye \in Calls
    BY <1>8, PipesNumbered DEF Calls
  <2>. QED
    BY <1>1, <1>3, <1>4, <1>6, <1>8, <2>1, BehindKept
<1>9. CASE goodbye = 0
  <2>1. /\ \A i \in 1 .. Len(toClient') :
              \E j \in 1 .. Len(toClient) : toClient'[i] = toClient[j]
    BY <1>1, TailElements DEF IInv, Pipes
  <2>2. ~disposing
    BY <1>9 DEF Behind, IInv, Flags
  <2>. QED
    BY <1>1, <1>4, <1>6, <1>9, <2>1, <2>2 DEF Behind
<1>. QED
  BY <1>4, <1>7, <1>8, <1>9

(* A request moves from the pipe into the queue, behind all that is there. *)
LEMMA ServerReadsOrders ==
    ASSUME IInv, Ordered, Behind, ServerReads
    PROVE  Ordered' /\ Behind'
<1>. PICK m : m = Head(toServer)
  OBVIOUS
<1>1. /\ toServer # << >> /\ toServer' = Tail(toServer)
      /\ UNCHANGED <<calls, settled, dead, disposing, goodbye, toClient>>
      /\ \/ Asks(m) /\ queue' = Append(queue, m)
         \/ UNCHANGED queue
  BY DEF ServerReads, requests, server, Server!Accept, Server!End, Asks
<1>2. /\ Len(toServer) \in Nat /\ Len(toServer') = Len(toServer) - 1
      /\ m = toServer[1] /\ 1 \in 1 .. Len(toServer) /\ m \in Messages
      /\ \A i \in 1 .. Len(toServer') :
            i + 1 \in 1 .. Len(toServer) /\ toServer'[i] = toServer[i + 1]
  BY <1>1, TailIndices, TailElements DEF IInv, Pipes
<1>3. /\ calls \in Nat /\ calls' \in Nat /\ calls <= calls'
      /\ Calls \subseteq Nat /\ Len(queue) \in Nat
  BY <1>1, PipesNumbered DEF Calls, IInv, Pipes
<1>4. /\ \A j \in 1 .. Len(toServer') :
            Asks(toServer'[j]) => toServer'[j].call <= calls'
      /\ \A i, j \in 1 .. Len(toServer') :
            i < j /\ Asks(toServer'[i]) /\ Asks(toServer'[j])
                => toServer'[i].call < toServer'[j].call
  BY <1>1, <1>2 DEF Ordered
<1>5. CASE UNCHANGED queue
  <2>1. Ordered'
    <3>1. /\ \A i \in 1 .. Len(queue') : Asks(queue'[i]) /\ queue'[i].call <= calls'
          /\ \A i, j \in 1 .. Len(queue') :
                i < j => queue'[i].call < queue'[j].call
      BY <1>1, <1>5 DEF Ordered
    <3>2. \A i \in 1 .. Len(queue'), j \in 1 .. Len(toServer') :
             Asks(toServer'[j]) => queue'[i].call < toServer'[j].call
      BY <1>2, <1>5 DEF Ordered
    <3>. QED
      BY <1>4, <3>1, <3>2 DEF Ordered, Asks
  <2>2. \A c \in Calls : Underway(c)' => Underway(c)
    BY <1>2, <1>5 DEF Underway
  <2>. QED
    BY <1>1, <1>3, <2>1, <2>2, BehindKept DEF Behind
<1>6. CASE Asks(m) /\ queue' = Append(queue, m)
  <2>1. /\ Len(queue') = Len(queue) + 1 /\ queue'[Len(queue) + 1] = m
        /\ \A i \in 1 .. Len(queue) : queue'[i] = queue[i]
    BY <1>2, <1>6, AppendIndices DEF IInv, Pipes
  <2>2. \A i \in 1 .. Len(queue') :
           \/ i \in 1 .. Len(queue) /\ queue'[i] = queue[i]
           \/ i = Len(queue) + 1 /\ queue'[i] = m
    BY <1>3, <2>1
  <2>3. /\ Asks(m) /\ m.call <= calls
        /\ \A i \in 1 .. Len(queue) : queue[i].call < m.call
    BY <1>2, <1>6 DEF Ordered
  <2>4. Ordered'
    <3>1. \A i \in 1 .. Len(queue') : Asks(queue'[i]) /\ queue'[i].call <= calls'
      BY <1>1, <2>2, <2>3 DEF Ordered
    <3>2. \A i, j \in 1 .. Len(queue') : i < j => queue'[i].call < queue'[j].call
      <4>. SUFFICES ASSUME NEW i \in 1 .. Len(queue'), NEW j \in 1 .. Len(queue'),
                           i < j
                    PROVE  queue'[i].call < queue'[j].call
        OBVIOUS
      <4>1. i \in 1 .. Len(queue) /\ queue'[i] = queue[i]
        BY <1>3, <2>1
      <4>2. CASE j \in 1 .. Len(queue) /\ queue'[j] = queue[j]
        BY <4>1, <4>2 DEF Ordered
      <4>3. CASE queue'[j] = m
        BY <2>3, <4>1, <4>3
      <4>. QED
        BY <2>2, <4>2, <4>3
    <3>3. \A i \in 1 .. Len(queue'), j \in 1 .. Len(toServer') :
             Asks(toServer'[j]) => queue'[i].call < toServer'[j].call
      <4>. SUFFICES ASSUME NEW i \in 1 .. Len(queue'),
                           NEW j \in 1 .. Len(toServer'), Asks(toServer'[j])
                    PROVE  queue'[i].call < toServer'[j].call
        OBVIOUS
      <4>1. j + 1 \in 1 .. Len(toServer) /\ toServer'[j] = toServer[j + 1] /\ 1 < j + 1
        BY <1>2
      <4>2. CASE i \in 1 .. Len(queue) /\ queue'[i] = queue[i]
        BY <4>1, <4>2 DEF Ordered
      <4>3. CASE queue'[i] = m
        BY <1>2, <1>6, <4>1, <4>3 DEF Ordered
      <4>. QED
        BY <2>2, <4>2, <4>3
    <3>. QED
      BY <1>4, <3>1, <3>2, <3>3 DEF Ordered, Asks
  <2>5. \A c \in Calls : Underway(c)' => Underway(c)
    <3>. SUFFICES ASSUME NEW c \in Calls, Underway(c)'
                  PROVE  Underway(c)
      OBVIOUS
    <3>1. CASE \E i \in 1 .. Len(queue') : queue'[i].call = c
      BY <1>2, <1>6, <2>2, <3>1 DEF Underway, Asks
    <3>2. CASE \E i \in 1 .. Len(toServer') :
                  toServer'[i].kind = "request" /\ toServer'[i].call = c
      BY <1>2, <3>2 DEF Underway
    <3>. QED
      BY <3>1, <3>2 DEF Underway
  <2>. QED
    BY <1>1, <1>3, <2>4, <2>5, BehindKept DEF Behind
<1>. QED
  BY <1>1, <1>5, <1>6

(* The request answered is the one asked before all the others.            *)
LEMMA ServerAnswersOrders ==
    ASSUME IInv, Ordered, Behind, ServerAnswers
    PROVE  Ordered' /\ Behind'
<1>. PICK m : m = Head(queue)
  OBVIOUS
<1>1. /\ queue # << >> /\ queue' = Tail(queue)
      /\ UNCHANGED <<calls, settled, dead, disposing, goodbye, toServer>>
  BY DEF ServerAnswers, requests, Server!Answer
<1>2. PICK kind \in {"answered", "error", "invalid", "garbage"} :
         toClient' = Append(toClient, Message(kind, m.id, m.call))
  BY DEF ServerAnswers, Server!Answer, Server!Answers, Message
<1>. PICK answer : answer = Message(kind, m.id, m.call)
  OBVIOUS
<1>3. /\ Len(queue) \in Nat /\ Len(queue') = Len(queue) - 1
      /\ m = queue[1] /\ 1 \in 1 .. Len(queue) /\ m \in Messages
      /\ \A i \in 1 .. Len(queue') :
            i + 1 \in 1 .. Len(queue) /\ queue'[i] = queue[i + 1]
  BY <1>1, TailIndices, TailElements DEF IInv, Pipes
<1>4. /\ calls \in Nat /\ calls' \in Nat /\ calls <= calls'
      /\ m.call \in Calls /\ m.call <= calls
  BY <1>1, <1>3, PipesNumbered DEF Calls, Ordered
<1>5. answer \in Messages /\ answer.call = m.call
  <2>1. kind \in MessageKind /\ m.id \in 0 .. MaxCalls /\ m.call \in 0 .. MaxCalls
    BY <1>3 DEF MessageKind, Messages
  <2>. QED
    BY <2>1, MessageTyped
<1>6. Ordered'
  <2>1. \A i \in 1 .. Len(queue') : Asks(queue'[i]) /\ queue'[i].call <= calls'
    BY <1>1, <1>3 DEF Ordered
  <2>2. \A i, j \in 1 .. Len(queue') : i < j => queue'[i].call < queue'[j].call
    BY <1>3 DEF Ordered
  <2>3. \A i \in 1 .. Len(queue'), j \in 1 .. Len(toServer') :
           Asks(toServer'[j]) => queue'[i].call < toServer'[j].call
    BY <1>1, <1>3 DEF Ordered
  <2>. QED
    BY <1>1, <2>1, <2>2, <2>3 DEF Ordered, Asks
<1>7. \A c \in Calls : Underway(c)' => Underway(c) /\ m.call < c
  <2>. SUFFICES ASSUME NEW c \in Calls, Underway(c)'
                PROVE  Underway(c) /\ m.call < c
    OBVIOUS
  <2>1. CASE \E i \in 1 .. Len(queue') : queue'[i].call = c
    <3>1. PICK i \in 1 .. Len(queue') : queue'[i].call = c
      BY <2>1
    <3>2. i + 1 \in 1 .. Len(queue) /\ queue[i + 1].call = c /\ 1 < i + 1
      BY <1>3, <3>1
    <3>. QED
      BY <1>3, <3>2 DEF Underway, Ordered
  <2>2. CASE \E i \in 1 .. Len(toServer') :
                toServer'[i].kind = "request" /\ toServer'[i].call = c
    BY <1>1, <1>3, <2>2 DEF Underway, Ordered, Asks
  <2>. QED
    BY <2>1, <2>2 DEF Underway
<1>8. \A i \in 1 .. Len(toClient') :
         \/ \E j \in 1 .. Len(toClient) : toClient'[i] = toClient[j]
         \/ toClient'[i].call = m.call
  BY <1>2, <1>5, AppendElements DEF IInv, Pipes
<1>9. Behind'
  <2>1. \A i \in 1 .. Len(toClient') : toClient'[i].call <= calls'
    <3>1. calls' = calls /\ m.call <= calls'
      BY <1>1, <1>4
    <3>2. \A j \in 1 .. Len(toClient) : toClient[j].call <= calls'
      BY <3>1 DEF Behind
    <3>. QED
      BY <1>8, <3>1, <3>2
  <2>2. \A i \in 1 .. Len(toClient'), c \in Calls :
           Underway(c)' => toClient'[i].call < c
    BY <1>7, <1>8 DEF Behind
  <2>. QED
    BY <1>1, <1>7, <2>1, <2>2 DEF Behind
<1>. QED
  BY <1>6, <1>9

LEMMA UnmovedOrders ==
    ASSUME Ordered, Behind,
           UNCHANGED <<calls, settled, dead, disposing, goodbye>>,
           UNCHANGED <<queue, toServer, toClient>>
    PROVE  Ordered' /\ Behind'
  BY DEF Ordered, Behind, Underway, Asks

LEMMA NextOrders ==
    ASSUME IInv, Made, Ordered, Behind, [Next]_vars
    PROVE  Ordered' /\ Behind'
<1>1. CASE Request
  BY <1>1, DispatchOrders DEF Request, life, server
<1>2. CASE RequestAborted
  BY <1>2, RequestAbortedOrders
<1>3. CASE \E id \in Calls : GiveUp(id)
  BY <1>3, GiveUpOrders
<1>4. CASE SeesExit \/ PipeBreaks
  BY <1>4, EndOrders DEF SeesExit, PipeBreaks, pipes, server
<1>5. CASE Dispose
  BY <1>5, DispatchOrders DEF Dispose, server
<1>6. CASE DisposeGoesOn
  <2>1. /\ Fail(waiting, settled, ~exited)
        /\ toServer' = Append(toServer, Message("exit", 0, 0))
        /\ UNCHANGED <<calls, queue, toClient, goodbye, disposing>>
    BY <1>6 DEF DisposeGoesOn, server
  <2>2. \E m \in Messages : ~Asks(m) /\ toServer' = Append(toServer, m)
    BY <2>1, MessageTyped, ClientAssumption DEF MessageKind, Asks
  <2>. QED
    BY <2>1, <2>2, EndOrders
<1>7. CASE Receive
  BY <1>7, ReceiveOrders
<1>8. CASE ServerReads
  BY <1>8, ServerReadsOrders
<1>9. CASE ServerAnswers
  BY <1>9, ServerAnswersOrders
<1>10. CASE ServerStops \/ UNCHANGED vars
  BY <1>10, UnmovedOrders DEF ServerStops, Server!Stop, vars, requests, life,
     pipes, server
<1>. QED
  BY <1>1, <1>2, <1>3, <1>4, <1>5, <1>6, <1>7, <1>8, <1>9, <1>10 DEF Next

(* When the answer to `shutdown` arrived, whatever the server was asked    *)
(* before has been answered too: the signal that follows interrupts        *)
(* nothing.  Only a `shutdown` given up at its timeout lets dispose kill a *)
(* server at work, however many requests were made, given up and answered  *)
(* late (rpc.ts, dispose).                                                 *)
THEOREM StopsInOrder == Spec => OrderlyStop
<1>1. Init => Made /\ Ordered /\ Behind
  <2>. SUFFICES ASSUME Init PROVE Made /\ Ordered /\ Behind
    OBVIOUS
  <2>1. Made
    BY ClientAssumption DEF Init, Made, Idle, Calls
  <2>. QED
    BY <2>1 DEF Init, Ordered, Behind
<1>2. IInv /\ Made /\ Ordered /\ Behind /\ [Next]_vars
          => Made' /\ Ordered' /\ Behind'
  BY NextOrders, NextContract
<1>3. IInv /\ Behind /\ [Next]_vars =>
         [disposed' /\ ~disposed /\ ~dead /\ settled[goodbye] # "cancelled"
             => \A c \in 1 .. goodbye - 1 : ~Underway(c)]_vars
  <2>. SUFFICES ASSUME IInv, Behind, [Next]_vars, disposed', ~disposed, ~dead,
                       settled[goodbye] # "cancelled",
                       NEW c \in 1 .. goodbye - 1, Underway(c)
                PROVE  FALSE
    OBVIOUS
  <2>1. DisposeGoesOn
    BY DEF Next, Request, RequestAborted, GiveUp, SeesExit, PipeBreaks, Dispose,
       Receive, ServerReads, ServerAnswers, ServerStops, vars, life
  <2>2. /\ disposing /\ settled[goodbye] # "none"
        /\ goodbye # 0 /\ goodbye \in Calls /\ c \in Calls /\ c < goodbye
    BY <2>1, PipesNumbered DEF DisposeGoesOn, Behind, Calls
  <2>3. settled[goodbye] \in {"answered", "error"}
    BY <2>2 DEF IInv, Types, How, Behind
  <2>4. goodbye < c
    BY <2>2, <2>3 DEF Behind
  <2>. QED
    BY <2>2, <2>4, PipesNumbered DEF Calls
<1>. QED
  BY <1>1, <1>2, <1>3, Invariant, PTL DEF Spec, OrderlyStop

-----------------------------------------------------------------------------
(* The server.                                                             *)

(* What the client does to a server is to read its answers and to send it  *)
(* a signal.                                                               *)
LEMMA ClientMoves ==
    ASSUME killed' \in {killed, TRUE}, UNCHANGED server,
           \/ UNCHANGED toClient
           \/ toClient # << >> /\ toClient' = Tail(toClient)
    PROVE  Server!Client
  BY DEF server, Server!Client

LEMMA FailKills ==
    ASSUME IInv, NEW left, NEW how, NEW running \in BOOLEAN,
           Fail(left, how, running)
    PROVE  killed' \in {killed, TRUE}
<1>1. killed' \in {killed, killed \/ running} /\ killed \in BOOLEAN
  BY DEF Fail, IInv, Flags
<1>. QED
  BY <1>1

LEMMA NextServer == IInv /\ [Next]_vars => [Server!Next]_(Server!vars)
<1>. SUFFICES ASSUME IInv, [Next]_vars PROVE [Server!Next]_(Server!vars)
  OBVIOUS
<1>1. CASE \/ Request \/ RequestAborted \/ \E id \in Calls : GiveUp(id)
           \/ Dispose \/ UNCHANGED vars
  BY <1>1, ClientMoves DEF Request, RequestAborted, GiveUp, Dispose, vars, life,
     pipes, Server!Next
<1>2. CASE SeesExit \/ PipeBreaks \/ DisposeGoesOn
  <2>1. /\ \E running \in BOOLEAN : Fail(waiting, settled, running)
        /\ UNCHANGED <<toClient, server>>
    BY <1>2 DEF SeesExit, PipeBreaks, DisposeGoesOn, pipes, IInv, Flags
  <2>. QED
    BY <2>1, FailKills, ClientMoves DEF Server!Next
<1>3. CASE Receive
  <2>1. /\ toClient # << >> /\ toClient' = Tail(toClient) /\ UNCHANGED server
        /\ \/ \E left, how : Fail(left, how, ~exited)
           \/ UNCHANGED killed
    BY <1>3 DEF Receive, RejectInvalid
  <2>2. killed' \in {killed, TRUE}
    <3>1. (~exited) \in BOOLEAN
      BY DEF IInv, Flags
    <3>. QED
      BY <2>1, <3>1, FailKills
  <2>. QED
    BY <2>1, <2>2, ClientMoves DEF Server!Next
<1>4. CASE ServerReads
  <2>1. Head(toServer) \in Messages
    BY <1>4, TailElements DEF ServerReads, IInv, Pipes
  <2>. QED
    BY <1>4, <2>1 DEF ServerReads, Server!Next, Server!vars, server
<1>5. CASE ServerAnswers \/ ServerStops
  BY <1>5 DEF ServerAnswers, ServerStops, Server!Next
<1>. QED
  BY <1>1, <1>2, <1>3, <1>4, <1>5 DEF Next

(* The server the client talks to is RequestServer and nothing else: no    *)
(* step of the client puts an answer in its mouth or a request past the    *)
(* pipe (rpc.ts, send, receive and fail).                                  *)
THEOREM TalksToServer == Spec => Server!Spec
<1>1. Init => Server!Init
  BY DEF Init, Server!Init
<1>. QED
  BY <1>1, NextServer, Invariant, PTL DEF Spec, Server!Spec
=============================================================================
