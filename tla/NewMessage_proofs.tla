------------------------- MODULE NewMessage_proofs -------------------------
(***************************************************************************)
(* Proofs about NewMessage, for any number of requests, runs, users and    *)
(* faults: the message that was shown or confirmed is kept, one whose      *)
(* sender was told that it failed was not shown, and every steady member   *)
(* is served.                                                              *)
(***************************************************************************)
EXTENDS NewMessage, MessageQueue_proofs

RequestTypes ==
  /\ stage \in [Request -> Stage]
  /\ awaited \in [Request -> Message \cup {NoRun}]
  /\ step \in [Message -> Step]
  /\ members \subseteq User
  /\ online \subseteq User
  /\ targets \in [Message -> SUBSET User]
  /\ todo \in [Request -> SUBSET User]
  /\ pushed \in [Request -> SUBSET User]
  /\ reply \in [Request -> {"none", "ok", "failed", "lost"}]
  /\ away \in [Request -> SUBSET User]
  /\ hung \in BOOLEAN
  /\ faults \in 0..MaxFaults

(* A run that responds with success has published.                         *)
PublishedFirst == \A m \in Message : step[m] = "answered" => m \in published

InService(r) == stage[r] \in {"call", "push"}
HasTargets(r) == stage[r] = "push" \/ reply[r] = "ok"
SteadyFor(r) == User \ away[r]

(* The gateway waits for a run that was begun; one that has answered keeps *)
(* its target list, and its message is published before anybody sees it.   *)
AwaitedRun(r) ==
  /\ InService(r) \/ HasTargets(r) => awaited[r] \in Message
  /\ HasTargets(r) => step[awaited[r]] \in {"answered", "dead"}
  /\ HasTargets(r) \/ pushed[r] # {} => awaited[r] \in published
  /\ reply[r] # "none" <=> stage[r] = "done"
  /\ pushed[r] # {} => stage[r] = "push" \/ reply[r] \in {"ok", "lost"}

(* Whoever has been steady is in the target list once it has been read,    *)
(* and is pushed to or still to be visited.                                *)
Listed(r) == targets[awaited[r]] = {} \/ SteadyFor(r) \subseteq targets[awaited[r]]

SteadyVisited(r) ==
  /\ InService(r) => SteadyFor(r) \subseteq members \cap online
  /\ stage[r] = "call" /\ step[awaited[r]] \in {"publish", "answered"} => Listed(r)
  /\ HasTargets(r) =>
       /\ Listed(r)
       /\ targets[awaited[r]] \cap (SteadyFor(r) \ {Sender[r]}) \subseteq pushed[r] \cup todo[r]
  /\ reply[r] = "ok" => todo[r] = {}

RequestInv ==
  /\ RequestTypes
  /\ PublishedFirst
  /\ \A r \in Request : AwaitedRun(r) /\ SteadyVisited(r)

-----------------------------------------------------------------------------
(* At the queue, the handlers are a publisher of MessageQueue.             *)
LEMMA StepRefines == [Next]_vars => [NextQueue]_queueVars
<1> SUFFICES ASSUME [Next]_vars
             PROVE  [NextQueue]_queueVars
  OBVIOUS
<1>1. ASSUME NEW m \in Message, GetTransmitTarget(m)
      PROVE  [NextQueue]_queueVars
  BY <1>1 DEF GetTransmitTarget, GetUserInfo, ReadMembers, PublishMessage, NextQueue
<1>2. ASSUME NEW r \in Request, Accept(r) \/ CallEnds(r) \/ PushAndReply(r)
      PROVE  UNCHANGED queueVars
  BY <1>2 DEF Accept, CallEnds, Respond, Retry, CallFails, PushAndReply, Push, Reply
<1>3. CASE TransmitDies
  BY <1>3 DEF TransmitDies, NextQueue
<1>4. CASE GatewayDies \/ Hang \/ Resume \/ (\E u \in User : Come(u) \/ Go(u))
  BY <1>4 DEF GatewayDies, Hang, Resume, Come, Go
<1>5. CASE Storage
  BY <1>5 DEF Storage, NextQueue
<1>6. CASE StorageDies
  BY <1>6 DEF StorageDies, NextQueue
<1>7. CASE UNCHANGED vars
  BY <1>7 DEF vars
<1> QED
  BY <1>1, <1>2, <1>3, <1>4, <1>5, <1>6, <1>7 DEF Next

LEMMA PublishedStays == [NextQueue]_queueVars => published \subseteq published'
BY DEF NextQueue, queueVars, Publish, Flush, PublisherDies, Consume, Deliver, Received,
   BrokerAck, ConsumerDies

LEMMA StepPublishes == [Next]_vars => published \subseteq published'
BY StepRefines, PublishedStays

LEMMA FaultType ==
  ASSUME RequestInv, Fault \/ UNCHANGED faults
  PROVE  faults' \in 0..MaxFaults
BY NewMessageAssumption DEF RequestInv, RequestTypes, Fault

LEMMA RequestInit == Init => RequestInv
<1> SUFFICES ASSUME Init
             PROVE  RequestInv
  OBVIOUS
<1> USE NewMessageAssumption
<1>0. hung \in BOOLEAN
  BY DEF Init
<1>1. RequestTypes
  BY <1>0 DEF Init, RequestTypes, Stage, Step
<1>2. PublishedFirst
  BY DEF Init, PublishedFirst
<1>3. ASSUME NEW r \in Request
      PROVE  AwaitedRun(r) /\ SteadyVisited(r)
  BY DEF Init, AwaitedRun, SteadyVisited, InService, HasTargets, SteadyFor
<1> QED
  BY <1>1, <1>2, <1>3 DEF RequestInv

-----------------------------------------------------------------------------
(* Steps that leave requests, runs, members and connections alone.         *)
LEMMA WorldKeeps ==
  ASSUME RequestInv, published \subseteq published', hung' \in BOOLEAN,
         Fault \/ UNCHANGED faults,
         UNCHANGED <<runVars, requestVars, members, online, away>>
  PROVE  RequestInv'
<1>1. UNCHANGED <<step, targets, stage, awaited, todo, pushed, reply, members, online, away>>
  BY DEF runVars, requestVars
<1>2. RequestTypes'
  BY <1>1, FaultType DEF RequestInv, RequestTypes
<1>3. PublishedFirst'
  BY <1>1 DEF RequestInv, PublishedFirst
<1>4. ASSUME NEW r \in Request
      PROVE  AwaitedRun(r)' /\ SteadyVisited(r)'
  BY <1>1 DEF RequestInv, AwaitedRun, SteadyVisited, InService, HasTargets, SteadyFor, Listed
<1> QED
  BY <1>2, <1>3, <1>4 DEF RequestInv

(* Steps of a run of GetTransmitTarget: the requests it answers, and those *)
(* that do not wait for it (any more).                                     *)
LEMMA RunStep ==
  ASSUME RequestInv, NEW m \in Message, GetTransmitTarget(m)
  PROVE  RequestInv'
<1>1. UNCHANGED <<requestVars, stage, awaited, todo, pushed, reply, members, online, away, hung>>
  BY DEF GetTransmitTarget, GetUserInfo, ReadMembers, PublishMessage, requestVars
<1>2. /\ step[m] \in Running
      /\ step' = [step EXCEPT ![m] = step'[m]]
      /\ step'[m] \in {"members", "publish", "answered", "refused"}
      /\ Fault \/ UNCHANGED faults
      /\ published \subseteq published'
  <2>1. [Next]_vars
    BY DEF Next
  <2> QED
    BY <2>1, StepPublishes DEF RequestInv, RequestTypes, GetTransmitTarget, GetUserInfo,
       ReadMembers, PublishMessage, Goto, Running
<1>3. step'[m] = "answered" => m \in published'
  BY DEF RequestInv, RequestTypes, GetTransmitTarget, GetUserInfo, ReadMembers, PublishMessage,
     Publish, Goto
<1>4. \/ targets' = targets /\ (step'[m] \in {"publish", "answered"} => step[m] = "publish")
      \/ \E S \in {{}, members} : targets' = [targets EXCEPT ![m] = S]
  BY DEF RequestInv, RequestTypes, GetTransmitTarget, GetUserInfo, ReadMembers, PublishMessage,
     Goto
<1>5. /\ targets' \in [Message -> SUBSET User]
      /\ \A k \in Message \ {m} : targets'[k] = targets[k] /\ step'[k] = step[k]
      /\ step' \in [Message -> Step]
  BY <1>2, <1>4 DEF RequestInv, RequestTypes, Step
<1>6. RequestTypes'
  BY <1>1, <1>2, <1>5, FaultType DEF RequestInv, RequestTypes
<1>7. PublishedFirst'
  BY <1>2, <1>3, <1>5 DEF RequestInv, PublishedFirst
<1>8. ASSUME NEW r \in Request
      PROVE  AwaitedRun(r)' /\ SteadyVisited(r)'
  <2>0. AwaitedRun(r) /\ SteadyVisited(r) /\ awaited[r] \in Message \cup {NoRun}
    BY DEF RequestInv, RequestTypes
  <2>1. HasTargets(r) => awaited[r] \in Message /\ awaited[r] # m
    BY <1>2, <2>0 DEF AwaitedRun, HasTargets, Running
  <2>2. AwaitedRun(r)'
    BY <1>1, <1>2, <1>5, <2>0, <2>1 DEF AwaitedRun, InService, HasTargets
  <2>3. ASSUME awaited[r] # m
        PROVE  SteadyVisited(r)'
    BY <1>1, <1>5, <2>0, <2>3
       DEF SteadyVisited, AwaitedRun, InService, HasTargets, Listed, SteadyFor
  <2>4. ASSUME awaited[r] = m, stage[r] = "call"
        PROVE  SteadyVisited(r)'
    <3>1. stage'[r] = "call" /\ ~HasTargets(r)' /\ SteadyFor(r) \subseteq members
      BY <1>1, <2>0, <2>1, <2>4 DEF HasTargets, SteadyVisited, InService
    <3>2. step'[m] \in {"publish", "answered"} => Listed(r)'
      BY <1>1, <1>4, <2>0, <2>4, <3>1
         DEF SteadyVisited, Listed, SteadyFor, RequestInv, RequestTypes
    <3> QED
      BY <1>1, <2>0, <2>4, <3>1, <3>2 DEF SteadyVisited, InService, HasTargets, SteadyFor
  <2>5. ASSUME awaited[r] = m, stage[r] # "call"
        PROVE  SteadyVisited(r)'
    BY <1>1, <2>0, <2>1, <2>5 DEF SteadyVisited, InService, HasTargets
  <2> QED
    BY <2>2, <2>3, <2>4, <2>5
<1> QED
  BY <1>6, <1>7, <1>8 DEF RequestInv

(* Steps of the gateway on the request r, which may begin one run.         *)
LEMMA GatewayKeeps ==
  ASSUME RequestInv, NEW r \in Request, published \subseteq published',
         UNCHANGED <<targets, members, online>>, RequestTypes', PublishedFirst',
         \A k \in Message : step'[k] = step[k] \/ (step[k] = "none" /\ step'[k] = "user"),
         \A k \in Request \ {r} : /\ UNCHANGED <<stage[k], awaited[k], todo[k]>>
                                  /\ UNCHANGED <<pushed[k], reply[k], away[k]>>,
         AwaitedRun(r)', SteadyVisited(r)'
  PROVE  RequestInv'
<1>1. ASSUME NEW k \in Request \ {r}
      PROVE  AwaitedRun(k)' /\ SteadyVisited(k)'
  <2>1. AwaitedRun(k) /\ SteadyVisited(k)
    BY DEF RequestInv
  <2>2. AwaitedRun(k)'
    BY <2>1 DEF AwaitedRun, InService, HasTargets
  <2>3. SteadyVisited(k)'
    BY <2>1 DEF AwaitedRun, SteadyVisited, InService, HasTargets, Listed, SteadyFor
  <2> QED
    BY <2>2, <2>3
<1> QED
  BY <1>1 DEF RequestInv

LEMMA AcceptKeeps ==
  ASSUME RequestInv, NEW r \in Request, Accept(r)
  PROVE  RequestInv'
<1>1. /\ RequestTypes /\ PublishedFirst /\ AwaitedRun(r) /\ SteadyVisited(r)
      /\ stage[r] = "new" /\ pushed[r] = {} /\ reply[r] = "none"
  BY DEF RequestInv, Accept, AwaitedRun
<1>2. /\ UNCHANGED <<published, targets, todo, pushed, members, online, hung, faults>>
  BY DEF Accept, queueVars
<1>3. CASE Answer(r, "failed") /\ UNCHANGED <<step, awaited, away>>
  <2>1. RequestTypes' /\ PublishedFirst'
    BY <1>1, <1>2, <1>3 DEF RequestTypes, PublishedFirst, Answer, Stage
  <2>2. AwaitedRun(r)' /\ SteadyVisited(r)'
    BY <1>1, <1>2, <1>3
       DEF RequestTypes, Answer, AwaitedRun, SteadyVisited, InService, HasTargets
  <2> QED
    BY <1>2, <1>3, <2>1, <2>2, GatewayKeeps DEF Answer, RequestInv, RequestTypes
<1>4. ASSUME NEW m \in Message, Call(r, m), stage' = [stage EXCEPT ![r] = "call"],
             away' = [away EXCEPT ![r] = User \ (members \cap online)], UNCHANGED reply
      PROVE  RequestInv'
  <2>1. /\ step[m] = "none" /\ step' = [step EXCEPT ![m] = "user"]
        /\ awaited' = [awaited EXCEPT ![r] = m]
    BY <1>4 DEF Call, Goto
  <2>2. RequestTypes' /\ PublishedFirst'
    BY <1>1, <1>2, <1>4, <2>1 DEF RequestTypes, PublishedFirst, Stage, Step
  <2>3. AwaitedRun(r)' /\ SteadyVisited(r)'
    BY <1>1, <1>2, <1>4, <2>1
       DEF RequestTypes, AwaitedRun, SteadyVisited, InService, HasTargets, SteadyFor
  <2>4. /\ \A k \in Message : step'[k] = step[k] \/ (step[k] = "none" /\ step'[k] = "user")
        /\ \A k \in Request \ {r} : /\ UNCHANGED <<stage[k], awaited[k], todo[k]>>
                                    /\ UNCHANGED <<pushed[k], reply[k], away[k]>>
    BY <1>1, <1>2, <1>4, <2>1 DEF RequestTypes
  <2> QED
    BY <1>2, <2>2, <2>3, <2>4, GatewayKeeps
<1> QED
  BY <1>3, <1>4 DEF Accept

(* The call ends or is made again.                                         *)
LEMMA CallEndsKeeps ==
  ASSUME RequestInv, NEW r \in Request, CallEnds(r)
  PROVE  RequestInv'
<1>1. /\ RequestTypes /\ PublishedFirst /\ AwaitedRun(r) /\ SteadyVisited(r)
      /\ stage[r] = "call" /\ pushed[r] = {} /\ reply[r] = "none" /\ awaited[r] \in Message
  BY DEF RequestInv, CallEnds, Respond, Retry, CallFails, AwaitedRun, InService
<1>2. UNCHANGED <<published, targets, pushed, members, online, away, hung>>
  BY DEF CallEnds, Respond, Retry, CallFails, queueVars, runVars, worldVars
<1>3. faults' \in 0..MaxFaults
  BY FaultType DEF CallEnds, Respond, Retry, CallFails, Breaks, worldVars
<1>4. CASE Answer(r, "failed") /\ UNCHANGED <<step, awaited, todo>>
  <2>1. RequestTypes' /\ PublishedFirst'
    BY <1>1, <1>2, <1>3, <1>4 DEF RequestTypes, PublishedFirst, Answer, Stage
  <2>2. AwaitedRun(r)' /\ SteadyVisited(r)'
    BY <1>1, <1>2, <1>4
       DEF RequestTypes, Answer, AwaitedRun, SteadyVisited, InService, HasTargets
  <2> QED
    BY <1>2, <1>4, <2>1, <2>2, GatewayKeeps DEF Answer, RequestInv, RequestTypes
<1>5. CASE /\ step[awaited[r]] = "answered" /\ stage' = [stage EXCEPT ![r] = "push"]
           /\ todo' = [todo EXCEPT ![r] = targets[awaited[r]] \ {Sender[r]}]
           /\ UNCHANGED <<step, awaited, reply>>
  <2>1. RequestTypes' /\ PublishedFirst'
    BY <1>1, <1>2, <1>3, <1>5 DEF RequestTypes, PublishedFirst, Stage
  <2>2. AwaitedRun(r)'
    BY <1>1, <1>2, <1>5 DEF RequestTypes, PublishedFirst, AwaitedRun, InService, HasTargets
  <2>3. SteadyVisited(r)'
    BY <1>1, <1>2, <1>5
       DEF RequestTypes, SteadyVisited, InService, HasTargets, Listed, SteadyFor
  <2> QED
    BY <1>2, <1>5, <2>1, <2>2, <2>3, GatewayKeeps DEF RequestInv, RequestTypes
<1>6. ASSUME NEW m \in Message, Call(r, m), UNCHANGED <<stage, todo, reply>>
      PROVE  RequestInv'
  <2>1. /\ step[m] = "none" /\ step' = [step EXCEPT ![m] = "user"]
        /\ awaited' = [awaited EXCEPT ![r] = m]
    BY <1>6 DEF Call, Goto
  <2>2. RequestTypes' /\ PublishedFirst'
    BY <1>1, <1>2, <1>3, <1>6, <2>1 DEF RequestTypes, PublishedFirst, Step
  <2>3. AwaitedRun(r)' /\ SteadyVisited(r)'
    BY <1>1, <1>2, <1>6, <2>1
       DEF RequestTypes, AwaitedRun, SteadyVisited, InService, HasTargets, SteadyFor
  <2>4. /\ \A k \in Message : step'[k] = step[k] \/ (step[k] = "none" /\ step'[k] = "user")
        /\ \A k \in Request \ {r} : /\ UNCHANGED <<stage[k], awaited[k], todo[k]>>
                                    /\ UNCHANGED <<pushed[k], reply[k], away[k]>>
    BY <1>1, <1>2, <1>6, <2>1 DEF RequestTypes
  <2> QED
    BY <1>2, <2>2, <2>3, <2>4, GatewayKeeps
<1> QED
  BY <1>4, <1>5, <1>6 DEF CallEnds, Respond, Retry, CallFails, runVars

LEMMA PushKeeps ==
  ASSUME RequestInv, NEW r \in Request, PushAndReply(r)
  PROVE  RequestInv'
<1>1. /\ RequestTypes /\ PublishedFirst /\ AwaitedRun(r) /\ SteadyVisited(r)
      /\ stage[r] = "push" /\ reply[r] = "none"
  BY DEF RequestInv, PushAndReply, Push, Reply, AwaitedRun
<1>2. UNCHANGED <<published, step, targets, awaited, members, online, away, hung, faults>>
  BY DEF PushAndReply, Push, Reply, queueVars, runVars, worldVars
<1>3. ASSUME NEW u \in User, Push(r, u)
      PROVE  RequestInv'
  <2>1. /\ todo' = [todo EXCEPT ![r] = @ \ {u}] /\ UNCHANGED <<stage, reply>>
        /\ pushed' = [pushed EXCEPT ![r] = IF u \in online THEN @ \cup {u} ELSE @]
    BY <1>1, <1>3 DEF Push, RequestTypes
  <2>2. RequestTypes' /\ PublishedFirst'
    BY <1>1, <1>2, <2>1 DEF RequestTypes, PublishedFirst
  <2>3. AwaitedRun(r)' /\ SteadyVisited(r)'
    BY <1>1, <1>2, <2>1
       DEF RequestTypes, AwaitedRun, SteadyVisited, InService, HasTargets, Listed, SteadyFor
  <2>4. \A k \in Request \ {r} : UNCHANGED <<todo[k], pushed[k]>>
    BY <1>1, <2>1 DEF RequestTypes
  <2> QED
    BY <1>2, <2>1, <2>2, <2>3, <2>4, GatewayKeeps
<1>4. CASE Reply(r)
  <2>1. /\ todo[r] = {} /\ UNCHANGED <<todo, pushed>>
        /\ stage' = [stage EXCEPT ![r] = "done"] /\ reply' = [reply EXCEPT ![r] = "ok"]
    BY <1>4 DEF Reply, Answer
  <2>2. RequestTypes' /\ PublishedFirst'
    BY <1>1, <1>2, <2>1 DEF RequestTypes, PublishedFirst, Stage
  <2>3. AwaitedRun(r)' /\ SteadyVisited(r)'
    BY <1>1, <1>2, <2>1
       DEF RequestTypes, AwaitedRun, SteadyVisited, InService, HasTargets, Listed, SteadyFor
  <2>4. \A k \in Request \ {r} : UNCHANGED <<stage[k], reply[k]>>
    BY <1>1, <2>1 DEF RequestTypes
  <2> QED
    BY <1>2, <2>1, <2>2, <2>3, <2>4, GatewayKeeps
<1> QED
  BY <1>3, <1>4 DEF PushAndReply

-----------------------------------------------------------------------------
LEMMA TransmitDiesKeeps ==
  ASSUME RequestInv, TransmitDies
  PROVE  RequestInv'
<1>1. published \subseteq published'
  <2>1. [Next]_vars
    BY DEF Next
  <2> QED
    BY <2>1, StepPublishes
<1>2. /\ hung' = FALSE /\ Fault
      /\ UNCHANGED <<targets, members, online, away, stage, awaited, todo, pushed, reply>>
      /\ step' \in [Message -> Step]
      /\ \A m \in Message : step'[m] \in {step[m], "dead"}
  BY DEF TransmitDies, requestVars, RequestInv, RequestTypes, Step
<1>3. RequestTypes'
  <2>1. hung' \in BOOLEAN
    BY <1>2
  <2> QED
    BY <1>2, <2>1, FaultType DEF RequestInv, RequestTypes
<1>4. PublishedFirst'
  BY <1>1, <1>2 DEF RequestInv, PublishedFirst
<1>5. ASSUME NEW r \in Request
      PROVE  AwaitedRun(r)' /\ SteadyVisited(r)'
  <2>1. AwaitedRun(r) /\ SteadyVisited(r)
    BY DEF RequestInv
  <2>2. AwaitedRun(r)'
    BY <1>1, <1>2, <2>1 DEF AwaitedRun, InService, HasTargets
  <2>3. SteadyVisited(r)'
    BY <1>2, <2>1 DEF AwaitedRun, SteadyVisited, InService, HasTargets, Listed, SteadyFor
  <2> QED
    BY <2>2, <2>3
<1> QED
  BY <1>3, <1>4, <1>5 DEF RequestInv

LEMMA GatewayDiesKeeps ==
  ASSUME RequestInv, GatewayDies
  PROVE  RequestInv'
<1> DEFINE served == {r \in Request : stage[r] \in {"call", "push"}}
<1>1. /\ UNCHANGED <<published, step, targets, awaited, todo, pushed, members, away, hung>>
      /\ stage' = [r \in Request |-> IF r \in served THEN "done" ELSE stage[r]]
      /\ reply' = [r \in Request |-> IF r \in served THEN "lost" ELSE reply[r]]
      /\ online' = {} /\ Fault
  BY DEF GatewayDies, queueVars, runVars
<1>2. RequestTypes'
  <2>1. stage' \in [Request -> Stage] /\ reply' \in [Request -> {"none", "ok", "failed", "lost"}]
    BY <1>1 DEF RequestInv, RequestTypes, Stage
  <2> QED
    BY <1>1, <2>1, FaultType DEF RequestInv, RequestTypes
<1>3. PublishedFirst'
  BY <1>1 DEF RequestInv, PublishedFirst
<1>4. ASSUME NEW r \in Request
      PROVE  AwaitedRun(r)' /\ SteadyVisited(r)'
  BY <1>1 DEF RequestInv, AwaitedRun, SteadyVisited, InService, HasTargets, Listed, SteadyFor
<1> QED
  BY <1>2, <1>3, <1>4 DEF RequestInv

LEMMA ComeOrGoKeeps ==
  ASSUME RequestInv, NEW u \in User, Come(u) \/ Go(u)
  PROVE  RequestInv'
<1>1. UNCHANGED <<published, step, targets, stage, awaited, todo, pushed, reply, hung, faults>>
  BY DEF Come, Go, queueVars, runVars, requestVars
<1>2. /\ members' \subseteq User /\ online' \subseteq User
      /\ away' \in [Request -> SUBSET User]
      /\ \A r \in Request : away[r] \subseteq away'[r]
      /\ \A r \in Request : InService(r) =>
           (members \cap online) \ away'[r] \subseteq members' \cap online'
  BY DEF Come, Go, InService, RequestInv, RequestTypes
<1>3. RequestTypes'
  BY <1>1, <1>2 DEF RequestInv, RequestTypes
<1>4. PublishedFirst'
  BY <1>1 DEF RequestInv, PublishedFirst
<1>5. ASSUME NEW r \in Request
      PROVE  AwaitedRun(r)' /\ SteadyVisited(r)'
  <2>1. AwaitedRun(r) /\ SteadyVisited(r) /\ SteadyFor(r)' \subseteq SteadyFor(r)
    BY <1>2 DEF RequestInv, SteadyFor
  <2>2. AwaitedRun(r)'
    BY <1>1, <2>1 DEF AwaitedRun, InService, HasTargets
  <2>3. InService(r)' => (SteadyFor(r) \subseteq members \cap online)'
    BY <1>1, <1>2, <2>1 DEF SteadyVisited, InService, SteadyFor
  <2>4. Listed(r) => Listed(r)'
    BY <1>1, <2>1 DEF Listed
  <2> QED
    BY <1>1, <2>1, <2>2, <2>3, <2>4 DEF SteadyVisited, InService, HasTargets
<1> QED
  BY <1>3, <1>4, <1>5 DEF RequestInv

LEMMA NewMessageStep == RequestInv /\ [Next]_vars => RequestInv'
<1> SUFFICES ASSUME RequestInv, [Next]_vars
             PROVE  RequestInv'
  OBVIOUS
<1>1. published \subseteq published'
  BY StepPublishes
<1>2. hung \in BOOLEAN
  BY DEF RequestInv, RequestTypes
<1>3. CASE Hang \/ Resume
  BY <1>1, <1>3, WorldKeeps DEF Hang, Resume
<1>4. CASE Storage
  BY <1>1, <1>2, <1>4, WorldKeeps DEF Storage, worldVars
<1>5. CASE StorageDies
  BY <1>1, <1>2, <1>5, WorldKeeps DEF StorageDies
<1>6. CASE UNCHANGED vars
  BY <1>1, <1>2, <1>6, WorldKeeps DEF vars, worldVars
<1> QED
  BY <1>3, <1>4, <1>5, <1>6, RunStep, AcceptKeeps, CallEndsKeeps, PushKeeps, TransmitDiesKeeps,
     GatewayDiesKeeps, ComeOrGoKeeps DEF Next

LEMMA NewMessageInvariant == Spec => [](RequestInv /\ QueueInv)
<1>1. Init => QueueInv
  BY QueueInit DEF Init
<1>2. QueueInv /\ [Next]_vars => QueueInv'
  BY StepRefines, QueueStep
<1> QED
  BY <1>1, <1>2, RequestInit, NewMessageStep, PTL DEF Spec

(* Every behaviour of the handlers of a message keeps the types of their   *)
(* state.                                                                  *)
THEOREM NewMessageTypeCorrect == Spec => []TypeOK
<1>1. RequestInv /\ QueueInv => TypeOK
  BY DEF RequestInv, RequestTypes, QueueInv, TypeOK
<1> QED
  BY <1>1, NewMessageInvariant, PTL

(* The message that was shown or confirmed is kept or handled, unless it   *)
(* died in the publisher's buffer, whichever runs the retries add.         *)
(* (NewMessage, GetTransmitTarget, MQClient)                               *)
THEOREM SentKept == Spec => []SentIsKept
<1>1. RequestInv /\ QueueInv => SentIsKept
  BY DEF RequestInv, AwaitedRun, HasTargets, QueueInv, NothingForgotten, SentIsKept
<1> QED
  BY <1>1, NewMessageInvariant, PTL

(* A message whose sender is told that it failed was shown to nobody.      *)
(* (NewMessage)                                                            *)
THEOREM FailedNotPushed == Spec => []FailedIsNotPushed
<1>1. RequestInv /\ QueueInv => FailedIsNotPushed
  BY DEF RequestInv, AwaitedRun, FailedIsNotPushed
<1> QED
  BY <1>1, NewMessageInvariant, PTL

(* When its sender is told it is sent, everybody who was a member and      *)
(* connected from request to answer has been shown the message, if the     *)
(* member list could be read.  (NewMessage, GetTransmitTarget)             *)
THEOREM SteadyServed == Spec => []SteadyMembersServed
<1>1. RequestInv /\ QueueInv => SteadyMembersServed
  BY DEF RequestInv, SteadyVisited, HasTargets, Listed, SteadyFor, SteadyMembersServed
<1> QED
  BY <1>1, NewMessageInvariant, PTL
=============================================================================
