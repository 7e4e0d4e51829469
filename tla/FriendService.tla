--------------------------- MODULE FriendService ---------------------------
(***************************************************************************)
(* The friend service (src/code/server/friend/source/friend_server.hpp)    *)
(* and the four MySQL tables it works on: applications, relations, chat    *)
(* sessions and their members.                                             *)
(*                                                                         *)
(* Handlers run concurrently, and every method of a table is a transaction *)
(* of its own: one action here, but for the removal of a chat, which first *)
(* reads which chat it is.  No index of the tables but that of the chat    *)
(* session ids is unique.  A call stands for the ids it generates: the     *)
(* event id of an application, the session id of a chat.  Users do not     *)
(* befriend themselves; a group is created with one other user.            *)
(***************************************************************************)
EXTENDS Integers, FiniteSets

CONSTANTS
  User,
  MaxCalls,   \* bound: the number of calls
  MaxFaults,  \* bound: transactions that fail, deaths of the service
  NoRequest

Call == 1..MaxCalls

(* FriendAdd; FriendAddProcess, agreeing or not; FriendRemove; and         *)
(* ChatSessionCreate.                                                      *)
Requests ==
  [op : {"add", "accept", "reject", "remove", "create"}, uid : User, pid : User]

ASSUME FriendAssumption ==
  /\ MaxCalls \in Nat
  /\ MaxFaults \in Nat
  /\ NoRequest \notin Requests

VARIABLES
  req,        \* call -> its request
  at,         \* call -> the transaction its handler makes next, or the answer
  cssid,      \* call -> the chat session it is about to remove, or 0
  applies,    \* rows of friend_apply
  relations,  \* rows of relation, with the call that inserted them
  sessions,   \* rows of chat_session
  members,    \* rows of chat_session_member
  faults,
  tangled     \* ghost: pairs of users two of whose calls overlapped or one
              \* failed, of whom one applied while the other's application was
              \* pending, or who were to part without being friends

tables == <<applies, relations, sessions, members>>
vars == <<req, at, cssid, tables, faults, tangled>>

Apply == [eid : Call, uid : User, pid : User]
Relation == [by : Call, uid : User, pid : User]
ChatSession == [ssid : Call, type : {"SINGLE", "GROUP"}]
ChatSessionMember == [ssid : Call, uid : User]

Step ==
  {"none",                                    \* not called yet
   "isFriend", "isApplied", "apply",          \* FriendAdd
   "isPending", "unapply", "relate",          \* FriendAddProcess ...
   "session", "members",                      \* ... and ChatSessionCreate
   "unrelate", "find", "unsession",           \* FriendRemove
   "ok", "failed"}                            \* answered

First(op) ==
  CASE op = "add" -> "isFriend"
    [] op \in {"accept", "reject"} -> "isPending"
    [] op = "remove" -> "unrelate"
    [] op = "create" -> "session"

Called(c) == at[c] # "none"
InProgress(c) == at[c] \notin {"none", "ok", "failed"}
Pair(c) == {req[c].uid, req[c].pid}

Init ==
  /\ req = [c \in Call |-> NoRequest]
  /\ at = [c \in Call |-> "none"]
  /\ cssid = [c \in Call |-> 0]
  /\ applies = {} /\ relations = {} /\ sessions = {} /\ members = {}
  /\ faults = 0
  /\ tangled = {}

-----------------------------------------------------------------------------
(* What the tables answer. *)
Friends(u) == {r.pid : r \in {r \in relations : r.uid = u}}
ApplyUsers(u) == {a.uid : a \in {a \in applies : a.pid = u}}
IsApplied(u, p) == u \in ApplyUsers(p)
Members(s) == {m.uid : m \in {m \in members : m.ssid = s}}

(* The view SingleChatSession: a chat session and two of its members *)
SingleChats(u) ==
  {e \in [ssid : Call, friend : User \ {u}] :
     /\ {u, e.friend} \subseteq Members(e.ssid)
     /\ [ssid |-> e.ssid, type |-> "SINGLE"] \in sessions}

ChatsWith(u, p) == {e \in SingleChats(u) : e.friend = p}

-----------------------------------------------------------------------------
Goto(c, s) == at' = [at EXCEPT ![c] = s]

(* A transaction of c throws, which the table's method logs. *)
Fault(c) ==
  /\ faults < MaxFaults
  /\ faults' = faults + 1
  /\ tangled' = tangled \cup {Pair(c)}

NoFault == UNCHANGED <<faults, tangled>>

(* ... and the handler answers with an error. *)
Fails(c) == Fault(c) /\ Goto(c, "failed")

(* A request arrives, numbered in the order of arrival. *)
Start(c, r) ==
  /\ ~Called(c)
  /\ \A d \in Call : d < c => Called(d)
  /\ r.uid # r.pid
  /\ req' = [req EXCEPT ![c] = r]
  /\ Goto(c, First(r.op))
  /\ LET overlaps == \E d \in Call : InProgress(d) /\ Pair(d) = {r.uid, r.pid}
         crosses == r.op = "add" /\ IsApplied(r.pid, r.uid)
         unfounded == r.op = "remove" /\ r.pid \notin Friends(r.uid)
     IN tangled' = IF overlaps \/ crosses \/ unfounded
                   THEN tangled \cup {{r.uid, r.pid}} ELSE tangled
  /\ UNCHANGED <<cssid, tables, faults>>

(* FriendAdd, step 2.  A query that fails counts as no. *)
IsFriend(c) ==
  /\ at[c] = "isFriend"
  /\ \/ /\ req[c].pid \in Friends(req[c].uid)
        /\ Goto(c, "failed") /\ NoFault
     \/ /\ req[c].pid \notin Friends(req[c].uid)
        /\ Goto(c, "isApplied") /\ NoFault
     \/ Goto(c, "isApplied") /\ Fault(c)
  /\ UNCHANGED <<req, cssid, tables>>

(* ... step 3 ... *)
HasApplied(c) ==
  /\ at[c] = "isApplied"
  /\ \/ /\ IsApplied(req[c].uid, req[c].pid)
        /\ Goto(c, "failed") /\ NoFault
     \/ /\ ~IsApplied(req[c].uid, req[c].pid)
        /\ Goto(c, "apply") /\ NoFault
     \/ Goto(c, "apply") /\ Fault(c)
  /\ UNCHANGED <<req, cssid, tables>>

(* ... and step 4. *)
InsertApply(c) ==
  /\ at[c] = "apply"
  /\ LET row == [eid |-> c, uid |-> req[c].uid, pid |-> req[c].pid] IN
       \/ applies' = applies \cup {row} /\ Goto(c, "ok") /\ NoFault
       \/ applies' \in {applies, applies \cup {row}} /\ Fails(c)
  /\ UNCHANGED <<req, cssid, relations, sessions, members>>

(* Mutant of IsPending: an application of either to the other will do. *)
IsPendingEitherWay(c) ==
  /\ at[c] = "isPending"
  /\ \/ /\ IsApplied(req[c].pid, req[c].uid) \/ IsApplied(req[c].uid, req[c].pid)
        /\ Goto(c, "unapply")
     \/ /\ ~IsApplied(req[c].pid, req[c].uid) /\ ~IsApplied(req[c].uid, req[c].pid)
        /\ Goto(c, "failed")
  /\ UNCHANGED <<req, cssid, tables, faults, tangled>>

(* FriendAddProcess, step 2: uid is the one who was asked, pid the one who *)
(* applied.                                                                *)
IsPending(c) ==
  /\ at[c] = "isPending"
  /\ \/ /\ IsApplied(req[c].pid, req[c].uid)
        /\ Goto(c, "unapply") /\ NoFault
     \/ /\ ~IsApplied(req[c].pid, req[c].uid)
        /\ Goto(c, "failed") /\ NoFault
     \/ Fails(c)
  /\ UNCHANGED <<req, cssid, tables>>

(* Mutant of RemoveApply: uid and pid swapped. *)
RemoveApplySwapped(c) ==
  /\ at[c] = "unapply"
  /\ applies' = {a \in applies : ~(a.uid = req[c].uid /\ a.pid = req[c].pid)}
  /\ Goto(c, IF req[c].op = "accept" THEN "relate" ELSE "ok")
  /\ UNCHANGED <<req, cssid, relations, sessions, members, faults, tangled>>

(* ... step 3 ... *)
RemoveApply(c) ==
  /\ at[c] = "unapply"
  /\ LET rest == {a \in applies : ~(a.uid = req[c].pid /\ a.pid = req[c].uid)} IN
       \/ /\ applies' = rest
          /\ Goto(c, IF req[c].op = "accept" THEN "relate" ELSE "ok")
          /\ NoFault
       \/ applies' \in {applies, rest} /\ Fails(c)
  /\ UNCHANGED <<req, cssid, relations, sessions, members>>

(* ... step 4, in three transactions: the relation, both ways, ... *)
InsertRelation(c) ==
  /\ at[c] = "relate"
  /\ LET rows == {[by |-> c, uid |-> req[c].uid, pid |-> req[c].pid],
                  [by |-> c, uid |-> req[c].pid, pid |-> req[c].uid]} IN
       \/ relations' = relations \cup rows /\ Goto(c, "session") /\ NoFault
       \/ relations' \in {relations, relations \cup rows} /\ Fails(c)
  /\ UNCHANGED <<req, cssid, applies, sessions, members>>

(* ... the chat session, a group of ChatSessionCreate likewise, ...        *)
InsertSession(c) ==
  /\ at[c] = "session"
  /\ LET row == [ssid |-> c,
                 type |-> IF req[c].op = "accept" THEN "SINGLE" ELSE "GROUP"] IN
       \/ sessions' = sessions \cup {row} /\ Goto(c, "members") /\ NoFault
       \/ sessions' \in {sessions, sessions \cup {row}} /\ Fails(c)
  /\ UNCHANGED <<req, cssid, applies, relations, members>>

(* Mutant of AppendMembers: one transaction for each member. *)
AppendOneByOne(c) ==
  /\ at[c] = "members"
  /\ \E u \in Pair(c) \ Members(c) :
       /\ members' = members \cup {[ssid |-> c, uid |-> u]}
       /\ Goto(c, IF Pair(c) \subseteq Members(c) \cup {u} THEN "ok" ELSE "members")
  /\ UNCHANGED <<req, cssid, applies, relations, sessions, faults, tangled>>

(* ... and its members. *)
AppendMembers(c) ==
  /\ at[c] = "members"
  /\ LET rows == [ssid : {c}, uid : Pair(c)] IN
       \/ members' = members \cup rows /\ Goto(c, "ok") /\ NoFault
       \/ members' \in {members, members \cup rows} /\ Fails(c)
  /\ UNCHANGED <<req, cssid, applies, relations, sessions>>

(* Mutant of RemoveRelation: one direction only. *)
RemoveOneRelation(c) ==
  /\ at[c] = "unrelate"
  /\ relations' = {r \in relations : <<r.uid, r.pid>> # <<req[c].uid, req[c].pid>>}
  /\ Goto(c, "find")
  /\ UNCHANGED <<req, cssid, applies, sessions, members, faults, tangled>>

(* FriendRemove, step 2. *)
RemoveRelation(c) ==
  /\ at[c] = "unrelate"
  /\ LET rest == {r \in relations : {r.uid, r.pid} # Pair(c)} IN
       \/ relations' = rest /\ Goto(c, "find") /\ NoFault
       \/ relations' \in {relations, rest} /\ Fails(c)
  /\ UNCHANGED <<req, cssid, applies, sessions, members>>

(* The process ends: calls it was serving fail. *)
Dies ==
  /\ at' = [d \in Call |-> IF InProgress(d) THEN "failed" ELSE at[d]]
  /\ cssid' = [d \in Call |-> 0]
  /\ tangled' = tangled \cup {Pair(d) : d \in {d \in Call : InProgress(d)}}
  /\ UNCHANGED <<req, tables>>

(* Mutant of FindSession: the type of the session is not looked at, so     *)
(* that a group of the two may go in its place.                            *)
FindAnySession(c) ==
  /\ at[c] = "find"
  /\ \E s \in sessions :
       /\ Pair(c) \subseteq Members(s.ssid)
       /\ cssid' = [cssid EXCEPT ![c] = s.ssid]
  /\ Goto(c, "unsession")
  /\ UNCHANGED <<req, tables, faults, tangled>>

(* ... step 3, one transaction: it reads which chat the two share ...      *)
(* query_one returns a null pointer when they have no single chat, which   *)
(* is dereferenced, and asserts that they do not have several: either ends *)
(* the process, with the transaction rolled back.                          *)
FindSession(c) ==
  /\ at[c] = "find"
  /\ LET chats == ChatsWith(req[c].uid, req[c].pid) IN
       \/ /\ \E e \in chats :
               chats = {e} /\ cssid' = [cssid EXCEPT ![c] = e.ssid]
          /\ Goto(c, "unsession") /\ NoFault
          /\ UNCHANGED <<req, tables>>
       \/ Fails(c) /\ UNCHANGED <<req, cssid, tables>>
       \/ /\ \A e \in chats : chats # {e}
          /\ Dies /\ UNCHANGED faults

(* ... and deletes it and its members; an error rolls back or comes after  *)
(* the commit.                                                             *)
RemoveSession(c) ==
  /\ at[c] = "unsession"
  /\ LET chats == {s \in sessions : s.ssid # cssid[c]}
         rest == {m \in members : m.ssid # cssid[c]} IN
       \/ sessions' = chats /\ members' = rest /\ Goto(c, "ok") /\ NoFault
       \/ /\ \/ sessions' = chats /\ members' = rest
             \/ UNCHANGED <<sessions, members>>
          /\ Fails(c)
  /\ cssid' = [cssid EXCEPT ![c] = 0]
  /\ UNCHANGED <<req, applies, relations>>

(* The service dies of something else. *)
ServiceDies ==
  /\ \E c \in Call : InProgress(c)
  /\ faults < MaxFaults
  /\ faults' = faults + 1
  /\ Dies

FriendAdd(c) == IsFriend(c) \/ HasApplied(c) \/ InsertApply(c)
FriendAddProcess(c) == IsPending(c) \/ RemoveApply(c) \/ InsertRelation(c)
NewChat(c) == InsertSession(c) \/ AppendMembers(c)
FriendRemove(c) == RemoveRelation(c) \/ FindSession(c) \/ RemoveSession(c)

Next ==
  \/ \E c \in Call, r \in Requests : Start(c, r)
  \/ \E c \in Call : FriendAdd(c)
  \/ \E c \in Call : FriendAddProcess(c)
  \/ \E c \in Call : NewChat(c)
  \/ \E c \in Call : FriendRemove(c)
  \/ ServiceDies

Spec == Init /\ [][Next]_vars

-----------------------------------------------------------------------------
TypeOK ==
  /\ req \in [Call -> Requests \cup {NoRequest}]
  /\ at \in [Call -> Step]
  /\ cssid \in [Call -> Call \cup {0}]
  /\ \A c \in Call : Called(c) => req[c] # NoRequest
  /\ applies \subseteq Apply
  /\ relations \subseteq Relation
  /\ sessions \subseteq ChatSession
  /\ members \subseteq ChatSessionMember
  /\ faults \in 0..MaxFaults
  /\ tangled \subseteq SUBSET User

(* A chat session has both of its users as members or none at all, and no  *)
(* member row outlives its session: neither side ever sees half a chat,    *)
(* whatever calls overlap, fail or die.  (FriendAddProcess, FriendRemove)  *)
ChatsAreWhole ==
  /\ \A s \in sessions : Members(s.ssid) \in {{}, Pair(s.ssid)}
  /\ \A m \in members : \E s \in sessions : s.ssid = m.ssid

(* A call that was answered with success has done its work, and nothing    *)
(* but a call that undoes it takes it away: an application stays until     *)
(* somebody processes it, an accepted friendship and its chat until a      *)
(* removal, a group for ever.  (FriendAdd, FriendAddProcess,               *)
(* ChatSessionCreate)                                                      *)
Undone(c, ops) == \E d \in Call : Called(d) /\ req[d].op \in ops /\ Pair(d) = Pair(c)

AnsweredIsDone ==
  \A c \in Call : at[c] = "ok" =>
    /\ req[c].op = "add" =>
         IsApplied(req[c].uid, req[c].pid) \/ Undone(c, {"accept", "reject"})
    /\ req[c].op = "accept" =>
         \/ Undone(c, {"remove"})
         \/ req[c].pid \in Friends(req[c].uid) /\ Members(c) = Pair(c)
    /\ req[c].op = "create" => Members(c) = Pair(c)

(* Two users none of whose calls overlap or fail, of whom neither applies  *)
(* while the other's application is pending, and who do not part unless    *)
(* they are friends, share exactly one chat while they are friends and     *)
(* none otherwise, and while an application is pending they are not        *)
(* friends: calls, deaths and faults of others do not touch them.  Each of *)
(* the conditions is needed, also of calls that come one after another:    *)
(* crossing applications that are both accepted make two chats, and a      *)
(* FriendRemove of somebody who is no friend finds none and ends the       *)
(* service.  (FriendAdd, FriendAddProcess, FriendRemove)                   *)
Quiet(u, p) ==
  /\ {u, p} \notin tangled
  /\ \A c \in Call : InProgress(c) => Pair(c) # {u, p}

FriendsShareOneChat ==
  \A u, p \in User : u # p /\ Quiet(u, p) =>
    /\ Cardinality(ChatsWith(u, p)) = IF p \in Friends(u) THEN 1 ELSE 0
    /\ IsApplied(u, p) => p \notin Friends(u)

(* For two such users, friends then, FriendRemove finds the one chat it    *)
(* takes query_one to find, and the service lives on.                      *)
(* (mysql_chat_session.hpp:45, :50)                                        *)
RemoveFindsItsChat ==
  \A c \in Call : at[c] = "find" /\ Pair(c) \notin tangled =>
    Cardinality(ChatsWith(req[c].uid, req[c].pid)) = 1

(* Two users share one single chat at most.  (mysql_chat_session.hpp:40:   *)
(* a single chat is deleted by its two members; query_one asserts it.)     *)
(* Acceptances that overlap make two, and so do, one call after another,   *)
(* the acceptances of applications that crossed.                           *)
OneChatPerPair ==
  \A u, p \in User : Cardinality(ChatsWith(u, p)) <= 1

(* Two users become friends only when one asked and the other agreed, and  *)
(* friendship is mutual in every state, although it is agreed on in several*)
(* transactions: seen at the table of relations, the service is that of    *)
(* module Friendship.  (FriendAdd, FriendAddProcess, FriendRemove)         *)
Wishes(op) == {<<req[c].uid, req[c].pid>> : c \in {c \in Call : Called(c) /\ req[c].op = op}}

Contract == INSTANCE Friendship
  WITH asked <- Wishes("add"), agreed <- Wishes("accept"),
       friends <- {<<r.uid, r.pid>> : r \in relations}

ImplementsFriendship == Contract!Spec
=============================================================================
