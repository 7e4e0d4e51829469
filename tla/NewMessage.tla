----------------------------- MODULE NewMessage -----------------------------
(***************************************************************************)
(* A chat message from the sender's HTTP request to its answer: the        *)
(* gateway's handler NewMessage (gateway_server.hpp), the transmit         *)
(* service's GetTransmitTarget (transmit_server.hpp) it calls, the queue   *)
(* the message is published to (MessageQueue), and the pushes to the other *)
(* members over their websockets.                                          *)
(*                                                                         *)
(* Each run of GetTransmitTarget makes a message of its own (message_id is *)
(* a fresh uuid), so a Message stands for the run that makes it.  The      *)
(* gateway waits for one run of a request; a run goes on when the gateway  *)
(* has given it up.  The call has no timeout (timeout_ms = -1), so one to  *)
(* a service that hangs does not return; when its connection breaks, brpc  *)
(* repeats it (max_retry = 3), which starts another run.                   *)
(***************************************************************************)
EXTENDS MessageQueue

CONSTANTS
  Request,    \* HTTP requests NewMessage
  RequestOf,  \* run -> the request it serves: one, and one for each retry
  Sender,     \* request -> the user who makes it
  User,
  Restless,   \* bound: users who leave the session or disconnect themselves
  MaxFaults,  \* bound: calls that fail and processes that die or hang
  Hangs,      \* may a service stop answering without dying?
  NoRun

ASSUME NewMessageAssumption ==
  /\ RequestOf \in [Message -> Request]
  /\ Sender \in [Request -> User]
  /\ Restless \subseteq User
  /\ MaxFaults \in Nat
  /\ Hangs \in BOOLEAN
  /\ NoRun \notin Message

VARIABLES
  stage,     \* where the gateway is with a request; see Stage
  awaited,   \* request -> the run whose response it waits for, or has had
  step,      \* where the transmit service is with a run; see Step
  members,   \* the members of the chat session, in MySQL
  online,    \* users with an entry in the gateway's table of connections
  targets,   \* run -> target_list of GetTransmitTarget
  todo,      \* request -> of them, those the push loop has still to visit
  pushed,    \* request -> users the message was pushed to
  reply,     \* what the sender was told; "lost" with the gateway's process
  away,      \* ghost: request -> users who were not always member and online
  hung,      \* do the transmit or user service not answer at the moment?
  faults

runVars == <<step, targets>>
requestVars == <<stage, awaited, todo, pushed, reply>>
worldVars == <<members, online, away, hung, faults>>
vars == <<queueVars, runVars, requestVars, worldVars>>

Stage == {"new", "call", "push", "done"}

Step ==
  {"none",     \* not begun
   "user",     \* GetTransmitTarget is to call GetUserInfo
   "members",  \* ... to read the members of the chat session
   "publish",  \* ... to publish the message
   "answered", \* ... has published and responds
   "refused",  \* ... responds with success = false
   "dead"}     \* died with the process

Running == {"user", "members", "publish"}

Init ==
  /\ InitQueue
  /\ stage = [r \in Request |-> "new"]
  /\ awaited = [r \in Request |-> NoRun]
  /\ step = [m \in Message |-> "none"]
  /\ members = User
  /\ online = User
  /\ targets = [m \in Message |-> {}]
  /\ todo = [r \in Request |-> {}]
  /\ pushed = [r \in Request |-> {}]
  /\ reply = [r \in Request |-> "none"]
  /\ away = [r \in Request |-> {}]
  /\ hung = FALSE
  /\ faults = 0

Fault ==
  /\ faults < MaxFaults
  /\ faults' = faults + 1

Goto(m, s) == step' = [step EXCEPT ![m] = s]

Answer(r, a) ==
  /\ stage' = [stage EXCEPT ![r] = "done"]
  /\ reply' = [reply EXCEPT ![r] = a]

-----------------------------------------------------------------------------
(* The gateway calls GetTransmitTarget, for the first time or again. *)
Call(r, m) ==
  /\ step[m] = "none"
  /\ RequestOf[m] = r
  /\ Goto(m, "user")
  /\ awaited' = [awaited EXCEPT ![r] = m]

(* NewMessage up to the RPC.  A body that does not parse, an unknown       *)
(* session and a missing transmit service are answered with an error.      *)
Accept(r) ==
  /\ stage[r] = "new"
  /\ \/ /\ \E m \in Message : Call(r, m)
        /\ stage' = [stage EXCEPT ![r] = "call"]
        /\ away' = [away EXCEPT ![r] = User \ (members \cap online)]
        /\ UNCHANGED reply
     \/ Answer(r, "failed") /\ UNCHANGED <<step, awaited, away>>
  /\ UNCHANGED <<queueVars, targets, todo, pushed, members, online, hung, faults>>

(* GetTransmitTarget: the sender's data from the user service. *)
GetUserInfo(m) ==
  /\ step[m] = "user"
  /\ ~hung
  /\ \/ Goto(m, "members") /\ UNCHANGED faults
     \/ Goto(m, "refused") /\ Fault
  /\ UNCHANGED <<queueVars, requestVars, members, online, away, hung, targets>>

(* ... the member list, which is empty when it cannot be read. *)
ReadMembers(m) ==
  /\ step[m] = "members"
  /\ ~hung
  /\ Goto(m, "publish")
  /\ \/ targets' = [targets EXCEPT ![m] = members] /\ UNCHANGED faults
     \/ targets' = [targets EXCEPT ![m] = {}] /\ Fault
  /\ UNCHANGED <<queueVars, requestVars, members, online, away, hung>>

(* Mutant of PublishMessage: what publish returns is not looked at. *)
PublishUnchecked(m) ==
  /\ step[m] = "publish"
  /\ ~hung
  /\ \/ Publish(m) /\ UNCHANGED faults
     \/ Fault /\ UNCHANGED queueVars
  /\ Goto(m, "answered")
  /\ UNCHANGED <<requestVars, members, online, away, hung, targets>>

(* ... publish, and the response. *)
PublishMessage(m) ==
  /\ step[m] = "publish"
  /\ ~hung
  /\ \/ Publish(m) /\ Goto(m, "answered") /\ UNCHANGED faults
     \/ Fault /\ Goto(m, "refused") /\ UNCHANGED queueVars
  /\ UNCHANGED <<requestVars, members, online, away, hung, targets>>

(* The RPC of NewMessage returns: with the targets, or with success =      *)
(* false, which the gateway passes on.                                     *)
Respond(r) ==
  /\ stage[r] = "call"
  /\ ~hung
  /\ LET m == awaited[r]
     IN \/ /\ step[m] = "answered"
           /\ stage' = [stage EXCEPT ![r] = "push"]
           /\ todo' = [todo EXCEPT ![r] = targets[m] \ {Sender[r]}]
           /\ UNCHANGED reply
        \/ /\ step[m] = "refused"
           /\ Answer(r, "failed")
           /\ UNCHANGED todo
  /\ UNCHANGED <<queueVars, runVars, worldVars, awaited, pushed>>

RunIsDead(r) == stage[r] = "call" /\ step[awaited[r]] = "dead"

(* A call breaks off because the process died, or its connection alone.    *)
Breaks(r) == IF RunIsDead(r) THEN UNCHANGED faults ELSE Fault

(* brpc calls again; what the run before has done or will do stays. *)
Retry(r) ==
  /\ stage[r] = "call"
  /\ Breaks(r)
  /\ \E m \in Message : Call(r, m)
  /\ UNCHANGED <<queueVars, targets, stage, todo, pushed, reply, members, online, away, hung>>

(* Mutant of CallFails: an error while pushing is answered like one. *)
CallOrPushFails(r) ==
  /\ stage[r] \in {"call", "push"}
  /\ Breaks(r)
  /\ Answer(r, "failed")
  /\ UNCHANGED <<queueVars, runVars, awaited, todo, pushed, members, online, away, hung>>

(* cntl.Failed(): the call broke off and is not repeated (again).  Its run *)
(* is not stopped by that.                                                 *)
CallFails(r) ==
  /\ stage[r] = "call"
  /\ Breaks(r)
  /\ Answer(r, "failed")
  /\ UNCHANGED <<queueVars, runVars, awaited, todo, pushed, members, online, away, hung>>

(* Mutants of Push: a target without a connection ends the loop, or keeps  *)
(* it waiting.                                                             *)
PushUntilMissing(r, u) ==
  /\ stage[r] = "push"
  /\ u \in todo[r]
  /\ todo' = [todo EXCEPT ![r] = IF u \in online THEN @ \ {u} ELSE {}]
  /\ pushed' = IF u \in online THEN [pushed EXCEPT ![r] = @ \cup {u}] ELSE pushed
  /\ UNCHANGED <<queueVars, runVars, worldVars, stage, awaited, reply>>

PushWaiting(r, u) ==
  /\ stage[r] = "push"
  /\ u \in todo[r] \cap online
  /\ todo' = [todo EXCEPT ![r] = @ \ {u}]
  /\ pushed' = [pushed EXCEPT ![r] = @ \cup {u}]
  /\ UNCHANGED <<queueVars, runVars, worldVars, stage, awaited, reply>>

(* One round of the push loop: a target without a connection is skipped. *)
Push(r, u) ==
  /\ stage[r] = "push"
  /\ u \in todo[r]
  /\ todo' = [todo EXCEPT ![r] = @ \ {u}]
  /\ pushed' = IF u \in online THEN [pushed EXCEPT ![r] = @ \cup {u}] ELSE pushed
  /\ UNCHANGED <<queueVars, runVars, worldVars, stage, awaited, reply>>

(* The loop has ended, the sender is told. *)
Reply(r) ==
  /\ stage[r] = "push"
  /\ todo[r] = {}
  /\ Answer(r, "ok")
  /\ UNCHANGED <<queueVars, runVars, worldVars, awaited, todo, pushed>>

-----------------------------------------------------------------------------
(* The transmit service dies, and its buffer and its runs with it. *)
TransmitDies ==
  /\ Fault
  /\ step' = [m \in Message |->
                IF step[m] \in Running \/ \E r \in Request : /\ stage[r] = "call"
                                                             /\ awaited[r] = m
                THEN "dead" ELSE step[m]]
  /\ hung' = FALSE
  /\ PublisherDies \/ (outbuf = <<>> /\ UNCHANGED queueVars)
  /\ UNCHANGED <<requestVars, targets, members, online, away>>

(* The gateway dies: nobody is connected, and no request it was serving is *)
(* answered; the runs it waited for go on.                                 *)
GatewayDies ==
  /\ Fault
  /\ LET served == {r \in Request : stage[r] \in {"call", "push"}}
     IN /\ stage' = [r \in Request |-> IF r \in served THEN "done" ELSE stage[r]]
        /\ reply' = [r \in Request |-> IF r \in served THEN "lost" ELSE reply[r]]
  /\ online' = {}
  /\ UNCHANGED <<queueVars, runVars, awaited, todo, pushed, members, away, hung>>

(* A service hangs: it takes calls and does not answer them. *)
Hang ==
  /\ Hangs
  /\ ~hung
  /\ Fault
  /\ hung' = TRUE
  /\ UNCHANGED <<queueVars, runVars, requestVars, members, online, away>>

(* It answers again: what it was doing goes on. *)
Resume ==
  /\ hung
  /\ hung' = FALSE
  /\ UNCHANGED <<queueVars, runVars, requestVars, members, online, away, faults>>

(* Users come and go: websockets, and members of the chat session.         *)
Come(u) ==
  /\ \/ online' = online \cup {u} /\ UNCHANGED members
     \/ members' = members \cup {u} /\ UNCHANGED online
  /\ UNCHANGED <<queueVars, runVars, requestVars, away, hung, faults>>

Go(u) ==
  /\ u \in Restless
  /\ \/ online' = online \ {u} /\ UNCHANGED members
     \/ members' = members \ {u} /\ UNCHANGED online
  /\ away' = [r \in Request |-> IF stage[r] \in {"call", "push"}
                                THEN away[r] \cup {u} ELSE away[r]]
  /\ UNCHANGED <<queueVars, runVars, requestVars, hung, faults>>

(* The queue and the storage service, whose handler MessageStorage details *)
Storage ==
  /\ Flush \/ Consume \/ Deliver \/ Received \/ BrokerAck
  /\ UNCHANGED <<runVars, requestVars, worldVars>>

StorageDies ==
  /\ Fault
  /\ ConsumerDies
  /\ UNCHANGED <<runVars, requestVars, members, online, away, hung>>

GetTransmitTarget(m) == GetUserInfo(m) \/ ReadMembers(m) \/ PublishMessage(m)

CallEnds(r) == Respond(r) \/ Retry(r) \/ CallFails(r)

PushAndReply(r) == (\E u \in User : Push(r, u)) \/ Reply(r)

Next ==
  \/ \E m \in Message : GetTransmitTarget(m)
  \/ \E r \in Request : Accept(r) \/ CallEnds(r) \/ PushAndReply(r)
  \/ TransmitDies
  \/ GatewayDies
  \/ Hang
  \/ Resume
  \/ \E u \in User : Come(u) \/ Go(u)
  \/ Storage
  \/ StorageDies

Spec == Init /\ [][Next]_vars

(* The threads of the gateway and of the transmit service go on with their *)
(* calls, and brpc notices when the process it waits for is gone; that a   *)
(* connection breaks while both ends live is never assumed.                *)
FairSpec ==
  /\ Spec
  /\ \A m \in Message : WF_vars(GetTransmitTarget(m))
  /\ \A r \in Request :
       /\ WF_vars(Respond(r))
       /\ WF_vars(RunIsDead(r) /\ CallEnds(r))
       /\ WF_vars(PushAndReply(r))

-----------------------------------------------------------------------------
TypeOK ==
  /\ QueueTypeOK
  /\ stage \in [Request -> Stage]
  /\ awaited \in [Request -> Message \cup {NoRun}]
  /\ step \in [Message -> Step]
  /\ members \subseteq User
  /\ online \subseteq User
  /\ targets \in [Message -> SUBSET User]
  /\ todo \in [Request -> SUBSET User]
  /\ pushed \in [Request -> SUBSET User]
  /\ reply \in [Request -> {"none", "ok", "failed", "lost"}]
  /\ away \in [Request -> SUBSET User]
  /\ hung \in BOOLEAN
  /\ faults \in 0..MaxFaults

(* The very message a member has been shown, or the sender was told is     *)
(* sent, has been published, and is on its way to storage unless it died   *)
(* in the publisher's buffer: no crash, repeated call or channel error     *)
(* takes it away later, and none puts the message of another run in its    *)
(* place.  (NewMessage, GetTransmitTarget, MQClient)                       *)
SentIsKept ==
  \A r \in Request : pushed[r] # {} \/ reply[r] = "ok" =>
    LET m == awaited[r]
    IN InBuffer(m) \/ InQueue(m) \/ IsUnacked(m) \/ m \in handled \/ m \in lost

(* A sender who is told that the message failed can send it again without  *)
(* anybody having been shown the first one.  It may have been published    *)
(* all the same, by a run the gateway has given up, and then be found in   *)
(* the history.  (NewMessage)                                              *)
FailedIsNotPushed ==
  \A r \in Request : reply[r] = "failed" => pushed[r] = {}

(* Whoever is a member and connected from the request to the answer has    *)
(* been pushed the message when its sender is told it is sent, whatever    *)
(* others do meanwhile and whichever run answers - if that run could read  *)
(* the member list.  (NewMessage, GetTransmitTarget)                       *)
SteadyMembersServed ==
  \A r \in Request : reply[r] = "ok" /\ targets[awaited[r]] # {} =>
    User \ (away[r] \cup {Sender[r]}) \subseteq pushed[r]

(* Every request is answered although services die, hang for a while, and  *)
(* calls break off and are repeated, unless the gateway itself dies: the   *)
(* handlers never wait for one another or for a target that has left, and  *)
(* for a service that hangs only as long as it does.  The code has nothing *)
(* for one that hangs for ever: src/README.md:6 counts a service as down   *)
(* that takes longer than 500 ms and 3 retries, but channel.hpp:21-22 sets *)
(* both timeouts to -1, which is none.  (NewMessage, GetTransmitTarget,    *)
(* ServiceChannel::append)                                                 *)
AnsweredUnlessHung ==
  []<>~hung => \A r \in Request : stage[r] # "new" ~> reply[r] # "none"
=============================================================================
