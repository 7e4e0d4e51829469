------------------------------ MODULE Queries ------------------------------
(***************************************************************************)
(* What is read back, across the services: the history, recent messages    *)
(* and keyword search of the message storage service, the lists of the     *)
(* friend service, and the user data both join to them, while messages are *)
(* stored and users change their avatars.                                  *)
(*                                                                         *)
(*   GetHistoryMsg, GetRecentMsg   rows -> files -> senders                *)
(*   MsgSearch                     index -> senders                        *)
(*   GetFriendList, FriendSearch, GetPendingFriendEventList,               *)
(*   GetChatSessionMember          user ids -> users                       *)
(*   GetChatSessionList            chats -> friends -> GetRecentMsg of each*)
(*   GetUserInfo                   one user                                *)
(*                                                                         *)
(* Files are uploaded as in FileService: the file of a message is a put of *)
(* its own, an avatar another.  Which users a list names, and which        *)
(* messages a keyword finds, does not matter here: a list asks for a       *)
(* given set.  A search finds any of the documents of its chat: what       *)
(* matches, what Elasticsearch has refreshed, and the ten hits it returns  *)
(* when no size is asked for.                                              *)
(***************************************************************************)
EXTENDS FileService, SequencesExt

CONSTANTS
  Message, ChatOf, Sender,
  Time,      \* create_time of a message
  User,
  AvatarOf,  \* calls that upload an avatar -> the user whose it is
  Chat,
  FriendOf,  \* single chats of the user who asks -> the friend; the other
             \* chats are groups
  Query,     \* calls of queries
  Asked,     \* what is asked for
  None

FileMessage == Message \cap Call

(* The call of GetRecentMsg that a GetChatSessionList makes for a chat.    *)
Inner(q) == <<q, "recent">>
Handler == Query \cup {Inner(q) : q \in Query}

Wanted ==
  [kind : {"history"}, chat : Chat, from : Nat, to : Nat]
    \cup [kind : {"recent"}, chat : Chat, count : Nat]
    \cup [kind : {"search"}, chat : Chat]
    \cup [kind : {"chats"}]
    \cup [kind : {"people"}, who : SUBSET User]
    \cup [kind : {"user"}, who : {{u} : u \in User}]

ASSUME QueryAssumption ==
  /\ IsFiniteSet(Message) /\ IsFiniteSet(User) /\ IsFiniteSet(Chat)
  /\ Message \cap User = {}
  /\ ChatOf \in [Message -> Chat]
  /\ Sender \in [Message -> User]
  /\ Time \in [Message -> Nat]
  /\ \A c \in DOMAIN AvatarOf : c \in Call \ Message /\ AvatarOf[c] \in User
  /\ \A c \in DOMAIN AvatarOf \cup FileMessage : Size[c] = 1
  /\ \A c \in DOMAIN FriendOf : c \in Chat /\ FriendOf[c] \in User
  /\ None \notin Message \cup User \cup Chat \cup Call \cup Nat
  /\ \A p, q \in Query : Inner(p) # q
  /\ Asked \subseteq Wanted

VARIABLES
  index,     \* texts with a document in Elasticsearch
  rows,      \* message -> file_id of its row (0: empty), or None
  avatar,    \* user -> avatar_id of the row (0: empty)
  updated,   \* avatar calls that have written it there
  step, want,
  msgLists,  \* what the query found: chats, messages and users by id
  fileData,  \* file id -> content, as GetMultiFile brought it
  avatarIds, \* user -> avatar_id, as select_multi_users brought it
  userLists, \* user -> content of the avatar, as GetMultiUserInfo brought it
  answer,    \* entries of the response
  outcome,   \* "none", "ok" or "failed"
  unread,    \* ghost: a database read failed and was taken to be empty
  before     \* ghost: messages stored, and users with an avatar, when the
             \* query began

storeVars == <<index, rows, avatar, updated>>
handlerVars == <<step, want, msgLists, fileData, avatarIds, userLists, answer, outcome>>
queryVars == <<handlerVars, unread, before>>
vars == <<fileVars, faults, storeVars, queryVars>>

NoContent == [call |-> None, nth |-> 0, whole |-> TRUE]
Stored == {m \in Message : rows[m] # None}
Now == Stored \cup {u \in User : avatar[u] # 0}

-----------------------------------------------------------------------------
(* What is found, as sequences of entries without their files and users.   *)
Row(m) == [chat |-> ChatOf[m], msg |-> m, file |-> rows[m], user |-> Sender[m]]
Document(m) == [chat |-> ChatOf[m], msg |-> m, file |-> 0, user |-> Sender[m]]
Person(u) == [chat |-> None, msg |-> None, file |-> 0, user |-> u]
Single(c) == [chat |-> c, msg |-> None, file |-> 0, user |-> FriendOf[c]]
Group(c) == [chat |-> c, msg |-> None, file |-> 0, user |-> None]

Each(Entry(_), S) == LET s == SetToSeq(S) IN [k \in DOMAIN s |-> Entry(s[k])]

InChat(c) == {m \in Stored : ChatOf[m] = c}

(* Mutant of InRange: the ends do not belong to it. *)
RangeInside(w) == {m \in InChat(w.chat) : w.from < Time[m] /\ Time[m] < w.to}

(* MessageTable::range *)
InRange(w) == {m \in InChat(w.chat) : w.from <= Time[m] /\ Time[m] <= w.to}

(* Mutant of Recent: the order is not descending.                          *)
RecentAscending(w) ==
  LET n == IF Cardinality(InChat(w.chat)) < w.count
           THEN Cardinality(InChat(w.chat)) ELSE w.count IN
  {s \in [1..n -> InChat(w.chat)] :
     /\ \A j, k \in 1..n : j < k => s[j] # s[k] /\ Time[s[j]] <= Time[s[k]]
     /\ \A m \in InChat(w.chat), k \in 1..n :
          m \notin {s[j] : j \in 1..n} => Time[m] >= Time[s[k]]}

(* MessageTable::recent: the newest, limited to count, oldest first.       *)
(* Messages of the same second come in any order.                          *)
Recent(w) ==
  LET n == IF Cardinality(InChat(w.chat)) < w.count
           THEN Cardinality(InChat(w.chat)) ELSE w.count IN
  {s \in [1..n -> InChat(w.chat)] :
     /\ \A j, k \in 1..n : j < k => s[j] # s[k] /\ Time[s[j]] <= Time[s[k]]
     /\ \A m \in InChat(w.chat), k \in 1..n :
          m \notin {s[j] : j \in 1..n} => Time[m] <= Time[s[k]]}

Found(w) ==
  CASE w.kind = "history" -> {Each(Row, InRange(w))}
    [] w.kind = "recent" -> {[k \in DOMAIN s |-> Row(s[k])] : s \in Recent(w)}
    [] w.kind = "search" -> {Each(Document, S) : S \in SUBSET {m \in index : ChatOf[m] = w.chat}}
    [] w.kind = "chats" -> {Each(Single, DOMAIN FriendOf)}
    [] OTHER -> {Each(Person, w.who)}

OfMessages(w) == w.kind \in {"history", "recent", "search"}

-----------------------------------------------------------------------------
(* The writers, with files as in FileService. *)

(* onMessage: a text is indexed and then inserted, a file message inserted *)
(* when its file has been put.                                             *)
AppendData(m) ==
  /\ m \notin FileMessage \cup index
  /\ index' = index \cup {m}
  /\ UNCHANGED <<fileVars, faults, rows, avatar, updated, queryVars>>

Insert(m) ==
  /\ rows[m] = None
  /\ \/ m \in index /\ rows' = [rows EXCEPT ![m] = 0]
     \/ m \in FileMessage /\ put[m] = "ok" /\ rows' = [rows EXCEPT ![m] = fileInfo[m][1]]
  /\ UNCHANGED <<fileVars, faults, index, avatar, updated, queryVars>>

(* SetUserAvatar: the row is updated when the file has been put. *)
SetUserAvatar(c) ==
  /\ put[c] = "ok"
  /\ c \notin updated
  /\ updated' = updated \cup {c}
  /\ avatar' = [avatar EXCEPT ![AvatarOf[c]] = fileInfo[c][1]]
  /\ UNCHANGED <<fileVars, faults, index, rows, queryVars>>

-----------------------------------------------------------------------------
Goto(q, s) == step' = [step EXCEPT ![q] = s]

Respond(q, what) ==
  /\ Goto(q, "end")
  /\ outcome' = [outcome EXCEPT ![q] = what]

(* What a handler holds goes when it returns. *)
Forget(q) ==
  /\ msgLists' = [msgLists EXCEPT ![q] = <<>>]
  /\ fileData' = [fileData EXCEPT ![q] = <<>>]
  /\ avatarIds' = [avatarIds EXCEPT ![q] = <<>>]
  /\ userLists' = [userLists EXCEPT ![q] = <<>>]

(* A call of a service that is not known, or that breaks off. *)
CallFails(q) ==
  /\ Fault
  /\ Respond(q, "failed")
  /\ Forget(q)
  /\ UNCHANGED answer

Begin(q, w) ==
  /\ step[q] = "none"
  /\ Goto(q, "find")
  /\ want' = [want EXCEPT ![q] = w]
  /\ before' = [before EXCEPT ![q] = Now]

Ask(q, w) ==
  /\ Begin(q, w)
  /\ UNCHANGED <<fileVars, faults, storeVars, msgLists, fileData, avatarIds,
                 userLists, answer, outcome, unread>>

(* The first read of a query.  When it fails, nothing has been found -     *)
(* GetUserInfo makes none -; a query for messages that finds none is       *)
(* through.                                                                *)
Find(q) ==
  /\ step[q] = "find"
  /\ \E s \in Found(want[q]) \cup {<<>>} :
       /\ \/ s \in Found(want[q]) /\ UNCHANGED <<faults, unread>>
          \/ /\ s = <<>> /\ want[q].kind # "user"
             /\ Fault
             /\ unread' = [unread EXCEPT ![q] = TRUE]
       /\ msgLists' = [msgLists EXCEPT ![q] = s]
       /\ IF OfMessages(want[q]) /\ s = <<>>
          THEN Respond(q, "ok")
          ELSE /\ Goto(q, IF want[q].kind \in {"history", "recent"} THEN "files" ELSE "users")
               /\ UNCHANGED outcome
  /\ UNCHANGED <<fileVars, storeVars, want, fileData, avatarIds, userLists, answer, before>>

FilesOf(q) == {msgLists[q][k].file : k \in DOMAIN msgLists[q]} \ {0}
UsersOf(q) == {msgLists[q][k].user : k \in DOMAIN msgLists[q]} \ {None}

(* _GetFile: GetMultiFile for the files of the messages, if any. *)
GetFile(q) ==
  /\ step[q] = "files"
  /\ \/ /\ CanRead(FilesOf(q))
        /\ fileData' = [fileData EXCEPT ![q] = [f \in FilesOf(q) |-> files[f]]]
        /\ Goto(q, "users")
        /\ UNCHANGED <<faults, msgLists, avatarIds, userLists, answer, outcome>>
     \/ CallFails(q)
  /\ UNCHANGED <<fileVars, storeVars, want, unread, before>>

(* Mutant of SelectUsers: the number of users found is not looked at. *)
SelectUsersUnchecked(q) ==
  /\ step[q] = "users"
  /\ \/ avatarIds' = [avatarIds EXCEPT ![q] = [u \in UsersOf(q) |-> avatar[u]]] /\ UNCHANGED faults
     \/ Fault /\ UNCHANGED avatarIds
  /\ Goto(q, "avatars")
  /\ UNCHANGED <<fileVars, storeVars, want, msgLists, fileData, userLists, answer,
                 outcome, unread, before>>

(* GetMultiUserInfo: the rows of the users.  A read that fails finds none, *)
(* so the numbers differ unless none was asked for.                        *)
SelectUsers(q) ==
  /\ step[q] = "users"
  /\ \/ /\ avatarIds' = [avatarIds EXCEPT ![q] = [u \in UsersOf(q) |-> avatar[u]]]
        /\ Goto(q, "avatars")
        /\ UNCHANGED <<faults, msgLists, fileData, userLists, answer, outcome>>
     \/ CallFails(q)
  /\ UNCHANGED <<fileVars, storeVars, want, unread, before>>

AvatarFiles(q) == {avatarIds[q][u] : u \in DOMAIN avatarIds[q]} \ {0}

(* GetMultiUserInfo goes on with GetMultiFile for the avatars.  GetUserInfo *)
(* asks for that of its user only if there is one.                         *)
GetAvatars(q) ==
  /\ step[q] = "avatars"
  /\ \/ /\ CanRead(AvatarFiles(q))
        /\ userLists' = [userLists EXCEPT ![q] =
             [u \in DOMAIN avatarIds[q] |->
                IF avatarIds[q][u] = 0 THEN NoContent ELSE files[avatarIds[q][u]]]]
        /\ Goto(q, IF want[q].kind = "chats" THEN "groups" ELSE "respond")
        /\ UNCHANGED <<faults, msgLists, fileData, avatarIds, answer, outcome>>
     \/ /\ want[q].kind = "user" => AvatarFiles(q) # {}
        /\ CallFails(q)
  /\ UNCHANGED <<fileVars, storeVars, want, unread, before>>

(* operator[] of a map: an element that is not there is made empty. *)
At(map, x) == IF x \in DOMAIN map THEN map[x] ELSE NoContent

(* An entry of the response; for a chat, prev is the message shown with it, *)
(* and missed - a ghost - says that it could not be read.                  *)
Entry(q, e, prev, missed) ==
  [chat |-> e.chat, msg |-> e.msg, user |-> e.user,
   body |-> IF e.file = 0 THEN NoContent ELSE At(fileData[q], e.file),
   avatar |-> IF e.user = None THEN NoContent ELSE At(userLists[q], e.user),
   prev |-> prev, missed |-> missed]

Assemble(q) ==
  /\ step[q] = "respond"
  /\ answer' = [answer EXCEPT ![q] =
       [k \in DOMAIN msgLists[q] |-> Entry(q, msgLists[q][k], <<>>, FALSE)]]
  /\ Respond(q, "ok")
  /\ Forget(q)
  /\ UNCHANGED <<fileVars, faults, storeVars, want, unread, before>>

-----------------------------------------------------------------------------
(* GetChatSessionList: the groups are read, and for each chat in turn      *)
(* GetRecentMsg is asked for one message.                                  *)
ReadGroups(q) ==
  /\ step[q] = "groups"
  /\ \/ msgLists' = [msgLists EXCEPT ![q] = @ \o Each(Group, Chat \ DOMAIN FriendOf)]
        /\ UNCHANGED <<faults, unread>>
     \/ Fault /\ unread' = [unread EXCEPT ![q] = TRUE] /\ UNCHANGED msgLists
  /\ Goto(q, "chat")
  /\ UNCHANGED <<fileVars, storeVars, want, fileData, avatarIds, userLists, answer,
                 outcome, before>>

NextChat(q) == msgLists[q][Len(answer[q]) + 1]

AskRecent(q) ==
  /\ step[q] = "chat"
  /\ Len(answer[q]) < Len(msgLists[q])
  /\ step' = [step EXCEPT ![q] = "recent", ![Inner(q)] = "find"]
  /\ want' = [want EXCEPT ![Inner(q)] =
                [kind |-> "recent", chat |-> NextChat(q).chat, count |-> 1]]
  /\ before' = [before EXCEPT ![Inner(q)] = Now]
  /\ UNCHANGED <<fileVars, faults, storeVars, msgLists, fileData, avatarIds, userLists,
                 answer, outcome, unread>>

Missed(q) == outcome[Inner(q)] = "failed" \/ unread[Inner(q)]

(* When the call fails, or finds nothing, the chat comes without a message. *)
TakeRecent(q) ==
  /\ step[q] = "recent"
  /\ step[Inner(q)] = "end"
  /\ step' = [step EXCEPT ![q] = "chat", ![Inner(q)] = "none"]
  /\ answer' = [answer EXCEPT
                  ![q] = Append(@, Entry(q, NextChat(q), answer[Inner(q)], Missed(q))),
                  ![Inner(q)] = <<>>]
  /\ outcome' = [outcome EXCEPT ![Inner(q)] = "none"]
  /\ unread' = [unread EXCEPT ![Inner(q)] = FALSE]
  /\ UNCHANGED <<fileVars, faults, storeVars, want, msgLists, fileData, avatarIds,
                 userLists, before>>

(* Mutant of AllChats: it returns without a result in the response. *)
AllChatsUnanswered(q) ==
  /\ step[q] = "chat"
  /\ Len(answer[q]) = Len(msgLists[q])
  /\ Goto(q, "end")
  /\ Forget(q)
  /\ UNCHANGED <<fileVars, faults, storeVars, want, answer, outcome, unread, before>>

AllChats(q) ==
  /\ step[q] = "chat"
  /\ Len(answer[q]) = Len(msgLists[q])
  /\ Respond(q, "ok")
  /\ Forget(q)
  /\ UNCHANGED <<fileVars, faults, storeVars, want, answer, unread, before>>

-----------------------------------------------------------------------------
Init ==
  /\ FileInit
  /\ index = {}
  /\ rows = [m \in Message |-> None]
  /\ avatar = [u \in User |-> 0]
  /\ updated = {}
  /\ step = [q \in Handler |-> "none"]
  /\ want = [q \in Handler |-> None]
  /\ msgLists = [q \in Handler |-> <<>>]
  /\ fileData = [q \in Handler |-> <<>>]
  /\ avatarIds = [q \in Handler |-> <<>>]
  /\ userLists = [q \in Handler |-> <<>>]
  /\ answer = [q \in Handler |-> <<>>]
  /\ outcome = [q \in Handler |-> "none"]
  /\ unread = [q \in Handler |-> FALSE]
  /\ before = [q \in Handler |-> {}]

Handle(q) ==
  Find(q) \/ GetFile(q) \/ SelectUsers(q) \/ GetAvatars(q) \/ Assemble(q)

(* The rest of GetChatSessionList. *)
ListChats(q) ==
  ReadGroups(q) \/ AskRecent(q) \/ TakeRecent(q) \/ AllChats(q)

Next ==
  \/ FileNext /\ UNCHANGED <<storeVars, queryVars>>
  \/ \E m \in Message : AppendData(m) \/ Insert(m)
  \/ \E c \in DOMAIN AvatarOf : SetUserAvatar(c)
  \/ \E q \in Query, w \in Asked : Ask(q, w)
  \/ \E q \in Handler : Handle(q)
  \/ \E q \in Query : ListChats(q)

Spec == Init /\ [][Next]_vars

-----------------------------------------------------------------------------
(* The types, and that a handler that is through has answered. *)
TypeOK ==
  /\ FileTypeOK
  /\ index \subseteq Message
  /\ rows \in [Message -> (0..Len(files)) \cup {None}]
  /\ avatar \in [User -> 0..Len(files)]
  /\ updated \subseteq DOMAIN AvatarOf
  /\ step \in [Handler -> {"none", "find", "files", "users", "avatars", "respond",
                        "groups", "chat", "recent", "end"}]
  /\ outcome \in [Handler -> {"none", "ok", "failed"}]
  /\ \A q \in Handler : step[q] = "end" <=> outcome[q] # "none"
  /\ unread \in [Handler -> BOOLEAN]
  /\ before \in [Handler -> SUBSET (Message \cup User)]

Entries(q) == {answer[q][k] : k \in DOMAIN answer[q]}
Avatars(u) == {c \in DOMAIN AvatarOf : AvatarOf[c] = u}

(* An entry shows its message with the file put for it, and its user with  *)
(* an avatar put for them - or with none, if there was none before.  A     *)
(* file whose end close() lost is shown as it is.                          *)
IsItself(e, had) ==
  /\ e.body.call = IF e.msg \in FileMessage THEN e.msg ELSE None
  /\ \/ e.user # None /\ e.avatar.call \in Avatars(e.user)
     \/ e.avatar.call = None /\ e.user \notin had

(* What is answered goes together: each message has its own file, each     *)
(* user an avatar of theirs, each chat a last message of its own if it     *)
(* shows one.  A failure of the file or the user service on the way never  *)
(* shows as an empty file or user, or as someone else's, whatever is       *)
(* stored meanwhile; that of GetRecentMsg does show, as a chat without a   *)
(* last message (friend_server.hpp:334, 342).  (GetHistoryMsg,             *)
(* GetRecentMsg, MsgSearch, GetMultiUserInfo, GetUserInfo, the lists of    *)
(* the friend service)                                                     *)
AnswersAreWhole ==
  \A q \in Handler : \A e \in Entries(q) :
    /\ IsItself(e, before[q])
    /\ \A k \in DOMAIN e.prev : IsItself(e.prev[k], before[q]) /\ e.prev[k].chat = e.chat

Answered(q) == outcome[q] = "ok" /\ ~unread[q]
Shown(q) == {e.msg : e \in Entries(q)}

(* An answer leaves nothing out that was there when the query began,       *)
(* unless a database read failed: messages of the time asked for, users,   *)
(* chats, and with each chat a last message - unless the GetRecentMsg made *)
(* for that chat failed, which spares the others.  (GetHistoryMsg,         *)
(* GetUserInfo, the lists of the friend service)                           *)
NothingLeftOut ==
  \A q \in Handler : Answered(q) =>
    LET w == want[q]
        had == {m \in before[q] \cap Message : ChatOf[m] = w.chat} IN
    CASE w.kind = "history" -> {m \in had : w.from <= Time[m] /\ Time[m] <= w.to} \subseteq Shown(q)
      [] w.kind = "chats" ->
           /\ {e.chat : e \in Entries(q)} = Chat
           /\ \A e \in Entries(q), m \in before[q] \cap Message :
                ChatOf[m] = e.chat => e.prev # <<>> \/ e.missed
      [] w.kind \in {"people", "user"} -> {e.user : e \in Entries(q)} = w.who
      [] OTHER -> TRUE

(* The recent messages come oldest first, and none is missing that is      *)
(* newer than one of them - although messages are stored in another order  *)
(* than they were sent in, and while the query runs.  (GetRecentMsg, also  *)
(* as GetChatSessionList calls it)                                         *)
RecentIsNewest ==
  \A q \in Handler : Answered(q) /\ want[q].kind = "recent" =>
    LET s == answer[q] IN
    /\ \A j, k \in DOMAIN s : j < k => Time[s[j].msg] <= Time[s[k].msg]
    /\ \A m \in before[q] \cap Message :
         ChatOf[m] = want[q].chat /\ m \notin Shown(q) =>
           /\ Len(s) = want[q].count
           /\ \A k \in DOMAIN s : Time[m] <= Time[s[k].msg]
=============================================================================
