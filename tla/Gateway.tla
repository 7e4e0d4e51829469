------------------------------ MODULE Gateway ------------------------------
(***************************************************************************)
(* The HTTP side of the gateway (gateway_server.hpp): one handler for each *)
(* path, which tells the caller's user from the session key, forwards the  *)
(* request to a service, and - for friendships and chat sessions - pushes  *)
(* what happened to the users concerned over the websockets that           *)
(* LoginSession keeps.  The HTTP handlers run concurrently with each other *)
(* and with the websocket handlers of the asio thread.                     *)
(*                                                                         *)
(* What a service does with a request is left to the modules of the        *)
(* services: here it either does all of it or refuses, and the call may    *)
(* break off before or after that.  The requests of UserLogin and          *)
(* PhoneLogin are the login attempts of LoginSession, NewMessage is the    *)
(* module NewMessage.                                                      *)
(***************************************************************************)
EXTENDS LoginSession, Sequences

CONSTANTS
  Request,    \* HTTP requests
  Served,     \* the handlers whose requests arrive
  Members,    \* member lists of new chat sessions
  MaxFaults   \* bound: calls of the gateway that break off

ASSUME GatewayAssumption ==
  /\ None \notin User
  /\ Members \subseteq Seq(User)
  /\ MaxFaults \in Nat

VARIABLES
  ask,      \* what a request asks, once its handler has taken it up
  at,       \* how far its handler is; see Stage
  uid,      \* the user_id the handler puts into the request
  script,   \* what the handler has still to do once the service has answered
  held,     \* for each user, the connection the handler has looked up
  infoRsp,  \* users about whom _GetUserInfo has given a response: the data,
            \* or that of a refusal, which is empty
  done,     \* ghost: has the service done what was asked?
  due,      \* ghost: connections of users who were connected then
  told,     \* notifications that were sent: the connection and the type
  reply,    \* what the client was told: "none", "ok", "failed", or "lost"
            \* when the gateway died
  faults

requestVars == <<ask, at, uid, script, held, infoRsp, done, due, told, reply>>
gatewayVars == <<vars, requestVars, faults>>

Stage == {"none", "call", "notify", "end"}

-----------------------------------------------------------------------------
(* The handlers.  One that only forwards is told by the service it calls   *)
(* and by whether it asks for a login session; handlers of the same kind   *)
(* are the same value.                                                     *)
OpenForward(service) == [service |-> service, session |-> FALSE, event |-> "none"]
Forward(service) == [service |-> service, session |-> TRUE, event |-> "none"]
Notifying(event) == [service |-> "friend", session |-> TRUE, event |-> event]

GetPhoneVerifyCode == OpenForward("user")
UserRegister == OpenForward("user")
UserLogin == OpenForward("user")
PhoneRegister == OpenForward("user")
PhoneLogin == OpenForward("user")
GetUserInfo == Forward("user")
SetUserAvatar == Forward("user")
SetUserNickname == Forward("user")
SetUserDescription == Forward("user")
SetUserPhoneNumber == Forward("user")
GetFriendList == Forward("friend")
FriendAdd == Notifying("apply")
FriendAddProcess == Notifying("process")
FriendRemove == Notifying("remove")
FriendSearch == Forward("friend")
GetPendingFriendEventList == Forward("friend")
GetChatSessionList == Forward("friend")
GetChatSessionMember == Forward("friend")
ChatSessionCreate == Notifying("create")
GetHistoryMsg == Forward("message")
GetRecentMsg == Forward("message")
MsgSearch == Forward("message")
GetSingleFile == Forward("file")
GetMultiFile == Forward("file")
PutSingleFile == Forward("file")
PutMultiFile == Forward("file")
SpeechRecognition == Forward("speech")

(* The table of paths. *)
Handlers ==
  {GetPhoneVerifyCode, UserRegister, UserLogin, PhoneRegister, PhoneLogin,
   GetUserInfo, SetUserAvatar, SetUserNickname, SetUserDescription,
   SetUserPhoneNumber, GetFriendList, FriendAdd, FriendAddProcess,
   FriendRemove, FriendSearch, GetPendingFriendEventList, GetChatSessionList,
   ChatSessionCreate, GetChatSessionMember, GetHistoryMsg, GetRecentMsg,
   MsgSearch, GetSingleFile, GetMultiFile, PutSingleFile, PutMultiFile,
   SpeechRecognition}

ASSUME ServedAssumption == Served \subseteq Handlers

(* A request names the caller's login session; the peer is the user applied *)
(* to, whose application is processed or who is removed, and members is    *)
(* the member_id_list of a new chat session.                               *)
Asks ==
  [handler : {h \in Served : h.event = "none"}, ssid : Login]
    \cup [handler : {h \in Served : h.event \in {"apply", "remove"}},
          ssid : Login, peer : User]
    \cup [handler : {h \in Served : h.event = "process"},
          ssid : Login, peer : User, agree : BOOLEAN]
    \cup [handler : {h \in Served : h.event = "create"},
          ssid : Login, members : Members]

-----------------------------------------------------------------------------
(* What the handlers do after the service has done its work, step by step. *)
(* Find looks a connection up.  Ask is _GetUserInfo about somebody: for a  *)
(* user, if that user's connection was found, and else in any case;        *)
(* checked, if the handler looks at the result.  Tell pushes a             *)
(* notification that may be about a user asked about.                      *)
Find(u) == [do |-> "find", user |-> u]
Ask(u, for, checked) == [do |-> "ask", user |-> u, for |-> for, checked |-> checked]
Tell(u, type, about) == [do |-> "tell", user |-> u, type |-> type, about |-> about]

FriendAddScript(u, p) ==
  <<Find(p), Ask(u, p, TRUE), Tell(p, "FRIEND_ADD_APPLY", u)>>

(* Mutant of FriendAddProcessScript: the peer's data is asked for, and the  *)
(* result looked at, when it is needed.                                    *)
FriendAddProcessScriptLate(u, p, agree) ==
  <<Ask(u, None, TRUE), Find(u), Find(p), Tell(p, "FRIEND_ADD_PROCESS", u)>>
  \o IF agree
     THEN <<Ask(p, None, TRUE), Tell(p, "CHAT_SESSION_CREATE", u),
            Tell(u, "CHAT_SESSION_CREATE", p)>>
     ELSE <<>>

(* The result of the second Ask is not looked at: the handler checks that  *)
(* of the first one again.                                                 *)
FriendAddProcessScript(u, p, agree) ==
  <<Ask(u, None, TRUE), Ask(p, None, FALSE), Find(u), Find(p),
    Tell(p, "FRIEND_ADD_PROCESS", u)>>
  \o IF agree
     THEN <<Tell(p, "CHAT_SESSION_CREATE", u), Tell(u, "CHAT_SESSION_CREATE", p)>>
     ELSE <<>>

FriendRemoveScript(p) == <<Find(p), Tell(p, "FRIEND_REMOVE", None)>>

ChatSessionCreateScript(ms) ==
  [k \in 1..(2 * Len(ms)) |->
     LET m == ms[(k + 1) \div 2] IN
     IF k % 2 = 1 THEN Find(m) ELSE Tell(m, "CHAT_SESSION_CREATE", None)]

Script(u, a) ==
  CASE a.handler = FriendAdd -> FriendAddScript(u, a.peer)
    [] a.handler = FriendAddProcess -> FriendAddProcessScript(u, a.peer, a.agree)
    [] a.handler = FriendRemove -> FriendRemoveScript(a.peer)
    [] a.handler = ChatSessionCreate -> ChatSessionCreateScript(a.members)
    [] OTHER -> <<>>

-----------------------------------------------------------------------------
GatewayInit ==
  /\ Init
  /\ ask = [r \in Request |-> None]
  /\ at = [r \in Request |-> "none"]
  /\ uid = [r \in Request |-> None]
  /\ script = [r \in Request |-> <<>>]
  /\ held = [r \in Request |-> [u \in User |-> None]]
  /\ infoRsp = [r \in Request |-> {}]
  /\ done = [r \in Request |-> FALSE]
  /\ due = [r \in Request |-> {}]
  /\ told = [r \in Request |-> {}]
  /\ reply = [r \in Request |-> "none"]
  /\ faults = 0

Goto(r, stage) == at' = [at EXCEPT ![r] = stage]

(* The handler returns; what it held goes with it. *)
Answer(r, what) ==
  /\ Goto(r, "end")
  /\ reply' = [reply EXCEPT ![r] = what]
  /\ script' = [script EXCEPT ![r] = <<>>]
  /\ held' = [held EXCEPT ![r] = [u \in User |-> None]]
  /\ infoRsp' = [infoRsp EXCEPT ![r] = {}]

Fault ==
  /\ faults < MaxFaults
  /\ faults' = faults + 1

InHand(r) == at[r] \in {"call", "notify"}

(* _redis_session->uid(ssid) *)
CallerUid(a) == IF a.handler.session THEN LoginUser[a.ssid] ELSE None

(* A request comes in.  It is answered with an error when its body does    *)
(* not parse or the handler wants a session and there is none.             *)
Accept(r, a) ==
  /\ at[r] = "none"
  /\ login[a.ssid] = "ok"
  /\ \/ /\ a.handler.session => a.ssid \in session
        /\ ask' = [ask EXCEPT ![r] = a]
        /\ uid' = [uid EXCEPT ![r] = CallerUid(a)]
        /\ Goto(r, "call")
        /\ UNCHANGED <<script, held, infoRsp, reply>>
     \/ Answer(r, "failed") /\ UNCHANGED <<ask, uid>>
  /\ UNCHANGED <<vars, done, due, told, faults>>

ConnectedConns == {c \in Conn : conn[c] = "open" /\ connClient[c] # None}

(* Mutant of Call: the handler does not look at success() of the response. *)
CallUnchecked(r) ==
  /\ at[r] = "call"
  /\ done' = [done EXCEPT ![r] = TRUE] \/ UNCHANGED done
  /\ due' = [due EXCEPT ![r] = ConnectedConns]
  /\ script' = [script EXCEPT ![r] = Script(uid[r], ask[r])]
  /\ Goto(r, "notify")
  /\ UNCHANGED <<vars, ask, uid, held, infoRsp, told, reply, faults>>

(* The call of the service: it does what it is asked, or refuses.  The call *)
(* fails when no instance is known or it breaks off, whatever was done by  *)
(* then.                                                                   *)
Call(r) ==
  /\ at[r] = "call"
  /\ \/ /\ done' = [done EXCEPT ![r] = TRUE]
        /\ due' = [due EXCEPT ![r] = ConnectedConns]
        /\ script' = [script EXCEPT ![r] = Script(uid[r], ask[r])]
        /\ Goto(r, "notify")
        /\ UNCHANGED <<held, infoRsp, reply, faults>>
     \/ Answer(r, "failed") /\ UNCHANGED <<done, due, faults>>
     \/ /\ \E b \in BOOLEAN : done' = [done EXCEPT ![r] = b]
        /\ Fault
        /\ Answer(r, "failed")
        /\ UNCHANGED due
  /\ UNCHANGED <<vars, ask, uid, told>>

NextIs(r, what) == at[r] = "notify" /\ script[r] # <<>> /\ Head(script[r]).do = what
Current(r) == Head(script[r])
StepDone(r) == script' = [script EXCEPT ![r] = Tail(@)]

(* Mutant of FindConnection: at a user who is not connected the handler is  *)
(* through.                                                                *)
FindConnectionOrStop(r) ==
  /\ NextIs(r, "find")
  /\ held' = [held EXCEPT ![r][Current(r).user] = uidConn[Current(r).user]]
  /\ script' = [script EXCEPT ![r] =
                  IF uidConn[Current(r).user] = None THEN <<>> ELSE Tail(@)]
  /\ UNCHANGED <<vars, ask, at, uid, infoRsp, done, due, told, reply, faults>>

(* _connections->connection(user) *)
FindConnection(r) ==
  /\ NextIs(r, "find")
  /\ held' = [held EXCEPT ![r][Current(r).user] = uidConn[Current(r).user]]
  /\ StepDone(r)
  /\ UNCHANGED <<vars, ask, at, uid, infoRsp, done, due, told, reply, faults>>

(* _GetUserInfo: null when no user service is known or the call fails.  A  *)
(* refusal is logged at most and its response used like an answer.         *)
AskUserInfo(r) ==
  /\ NextIs(r, "ask")
  /\ LET s == Current(r) IN
       \/ /\ s.for # None /\ held[r][s.for] = None
          /\ StepDone(r)
          /\ UNCHANGED <<at, held, infoRsp, reply, faults>>
       \/ /\ s.for # None => held[r][s.for] # None
          /\ infoRsp' = [infoRsp EXCEPT ![r] = @ \cup {s.user}]
          /\ StepDone(r)
          /\ UNCHANGED <<at, held, reply, faults>>
       \/ /\ s.for # None => held[r][s.for] # None
          /\ Fault
          /\ \/ s.checked /\ Answer(r, "failed")
             \/ ~s.checked /\ StepDone(r) /\ UNCHANGED <<at, held, infoRsp, reply>>
  /\ UNCHANGED <<vars, ask, uid, done, due, told>>

(* conn->send, if there is a connection; on one that has ended it does     *)
(* nothing.                                                                *)
TellUser(r) ==
  /\ NextIs(r, "tell")
  /\ LET s == Current(r)
         c == held[r][s.user] IN
       /\ c # None => s.about \in infoRsp[r] \cup {None}
       /\ told' = IF c # None /\ conn[c] = "open"
                  THEN [told EXCEPT ![r] = @ \cup {[conn |-> c, type |-> s.type]}]
                  ELSE told
  /\ StepDone(r)
  /\ UNCHANGED <<vars, ask, at, uid, held, infoRsp, done, due, reply, faults>>

Respond(r) ==
  /\ at[r] = "notify"
  /\ script[r] = <<>>
  /\ Answer(r, "ok")
  /\ UNCHANGED <<vars, ask, uid, done, due, told, faults>>

(* The gateway dies, with the requests in hand: of the null pointer that a *)
(* handler gets for the data of a user it has not looked at, or of         *)
(* something else.                                                         *)
RequestsAreLost ==
  /\ at' = [r \in Request |-> IF InHand(r) THEN "end" ELSE at[r]]
  /\ reply' = [r \in Request |-> IF InHand(r) THEN "lost" ELSE reply[r]]
  /\ script' = [r \in Request |-> <<>>]
  /\ held' = [r \in Request |-> [u \in User |-> None]]
  /\ infoRsp' = [r \in Request |-> {}]
  /\ UNCHANGED <<ask, uid, done, due, told, faults>>

TellOfNobody(r) ==
  /\ NextIs(r, "tell")
  /\ held[r][Current(r).user] # None
  /\ Current(r).about \notin infoRsp[r] \cup {None}
  /\ GatewayDies
  /\ RequestsAreLost

Crash ==
  /\ ~crashed
  /\ GatewayDies
  /\ RequestsAreLost

(* What LoginSession does goes on meanwhile. *)
SessionStep ==
  /\ \/ \E l \in Login : LoginStep(l) \/ UserServiceDies(l)
     \/ \E c \in Conn, l \in Login : OnMessage(c, l)
     \/ \E c \in Conn : Open(c) \/ Break(c) \/ CloseStep(c)
  /\ UNCHANGED <<requestVars, faults>>

Handle(r) ==
  \/ Call(r) \/ FindConnection(r) \/ AskUserInfo(r) \/ TellUser(r)
  \/ Respond(r) \/ TellOfNobody(r)

GatewayNext ==
  \/ \E r \in Request, a \in Asks : Accept(r, a)
  \/ \E r \in Request : Handle(r)
  \/ Crash
  \/ SessionStep

GatewaySpec == GatewayInit /\ [][GatewayNext]_gatewayVars

-----------------------------------------------------------------------------
Types ==
  {"FRIEND_ADD_APPLY", "FRIEND_ADD_PROCESS", "FRIEND_REMOVE", "CHAT_SESSION_CREATE"}

GatewayTypeOK ==
  /\ ask \in [Request -> Asks \cup {None}]
  /\ at \in [Request -> Stage]
  /\ uid \in [Request -> User \cup {None}]
  /\ \A r \in Request : \A k \in DOMAIN script[r] : script[r][k].do \in {"find", "ask", "tell"}
  /\ held \in [Request -> [User -> Conn \cup {None}]]
  /\ infoRsp \in [Request -> SUBSET User]
  /\ done \in [Request -> BOOLEAN]
  /\ due \in [Request -> SUBSET Conn]
  /\ told \in [Request -> SUBSET [conn : Conn, type : Types]]
  /\ reply \in [Request -> {"none", "ok", "failed", "lost"}]
  /\ faults \in 0..MaxFaults

(* Whom a request concerns, and what there is to tell them: an application *)
(* the one applied to; its result the applicant and, if it is agreed to,   *)
(* the new chat both; a removal the one removed; a new chat its members.   *)
Concerns(r) ==
  LET a == ask[r]
      notice(users, type) == [user : users, type : {type}] IN
  CASE a.handler = FriendAdd -> notice({a.peer}, "FRIEND_ADD_APPLY")
    [] a.handler = FriendAddProcess ->
         notice({a.peer}, "FRIEND_ADD_PROCESS")
           \cup IF a.agree THEN notice({a.peer, uid[r]}, "CHAT_SESSION_CREATE") ELSE {}
    [] a.handler = FriendRemove -> notice({a.peer}, "FRIEND_REMOVE")
    [] a.handler = ChatSessionCreate ->
         notice({a.members[k] : k \in DOMAIN a.members}, "CHAT_SESSION_CREATE")
    [] OTHER -> {}

(* A notification goes to no connection but one on which a user it         *)
(* concerns has authenticated, and only of something the service has done; *)
(* although the connection was looked up several steps before, and may     *)
(* have ended, or been authenticated by others too, since.  (FriendAdd,    *)
(* FriendAddProcess, FriendRemove, ChatSessionCreate)                      *)
NotificationsAreTrue ==
  \A r \in Request : \A n \in told[r] :
    /\ done[r]
    /\ \E u \in UsersOn(n.conn) : [user |-> u, type |-> n.type] \in Concerns(r)

(* When a client is told that its request succeeded, whoever it concerns   *)
(* has been notified of everything, if connected ever since the service    *)
(* did it: connections that come, go or reconnect meanwhile, and failed    *)
(* calls, do not lose a notification unless the client gets an error.      *)
(* Disciplined and mixed users are those of LoginSession.                  *)
(* (FriendAdd, FriendAddProcess, FriendRemove, ChatSessionCreate)          *)
ConnectedAreTold ==
  \A r \in Request : reply[r] = "ok" =>
    \A c \in due[r] : conn[c] = "open" =>
      LET u == LoginUser[connClient[c]] IN
      u \in Disciplined \ mixed =>
        \A n \in Concerns(r) :
          n.user = u => [conn |-> c, type |-> n.type] \in told[r]

(* A client that gets an error may repeat its request: nobody has been     *)
(* told of it.  (FriendAdd, FriendAddProcess)                              *)
FailedToldNobody ==
  \A r \in Request : reply[r] = "failed" => told[r] = {}

(* When a handler writes a notification about a user, _GetUserInfo has     *)
(* given it a response about that user.  (gateway_server.hpp:766-771: the handler     *)
(* answers an error when it could not get them)                            *)
NotificationsHaveTheirUser ==
  \A r \in Request :
    NextIs(r, "tell") /\ held[r][Current(r).user] # None =>
      Current(r).about \in infoRsp[r] \cup {None}
=============================================================================
