# Verification of the instant-messaging microservices

TLA+ models, TLC checks and TLAPS proofs for the servers under
`src/code/server`. Paths below are relative to that directory.

## 1. The system

Six services in C++ behind one gateway, each its own process, found through
etcd, called over brpc; MySQL, Redis, Elasticsearch and RabbitMQ keep the state.
A client sends requests over HTTP and receives pushes over one websocket.

| Component | State it keeps | Operations | Talks to | Module |
|---|---|---|---|---|
| Service channels (`common/channel.hpp`) | per service a list `_nodes`, a map `_hosts`, the round-robin pointer `_idx` | append, remove, choose, online and offline callbacks | fed by Discovery, asked by every caller of an RPC | `ServiceManager` |
| Registration and discovery (`common/etcd.hpp`) | keys under leases in etcd; the watcher | register, ls, watch, callback | etcd, ServiceManager | `ServiceDiscovery` |
| Message queue client (`common/rabbitmq.hpp`) | connection, channel, tags in RabbitMQ | publish, consume, acknowledge | transmit service, storage service | `MessageQueue` |
| Message storage (`message/source/message_server.hpp`) | message table, ES index, files (through the file service) | onMessage; three queries | queue, MySQL, ES, file and user service | `MessageStorage` (onMessage), `Queries` |
| Message transmit (`transmit/source/transmit_server.hpp`) | none | GetTransmitTarget | user service, MySQL, queue | `NewMessage` |
| Gateway: websockets (`gateway/source/*.hpp`) | `_uid_connections`, `_conn_clients` | onOpen, onMessage, onClose, connection, insert, remove | Redis | `LoginSession` |
| Gateway: HTTP | none | NewMessage; 27 more that forward to one service, most after checking the session; four of them notify users | every service, Redis | `NewMessage` (that handler), `Gateway` (the others) |
| User service (`user/source/user_server.hpp`) | user table, ES user index, session, status and code keys in Redis | two logins, two registrations, codes, profile reads, four setters | MySQL, ES, Redis, file service, SMS | `LoginSession` (UserLogin), `UserService`, `Queries` (profile reads) |
| Friend service (`friend/source/friend_server.hpp`) | applications, relations, chat sessions, members | apply, process, remove, search, lists, create session | MySQL, ES, user and message service | `FriendService`, `Queries` (the lists) |
| File service (`file/source/file_server.hpp`) | files on disk | get/put one or many | disk | `FileService` |
| Speech service, SMS and speech clients | none | recognition, sending a code | cloud services | not modelled |

Concurrency: brpc runs the handlers of a service concurrently, the gateway's
HTTP handlers run on a pool of threads, its websocket handlers on one asio
thread. The queue's event loop has one thread, on which the delivery callback
runs. Every method of a `mysql_*.hpp` table is a transaction of its own, every
Redis command is atomic; nothing spans two of them. Processes are restarted by
docker (`docker-compose.yml`: `restart: always`).

### What is hard, and what correctness means

* **Channels and discovery.** Callers choose while callbacks edit the list;
  instances restart under a new lease before the old one ends; the listing and
  the watch are separate steps; puts and notices fail and nobody looks. Correct: the host
  table is never wrong beyond the events not yet handled or lost; the list and the table
  agree; nodes are chosen in turn.
* **Queue and storage.** Delivery is at least once, the handler writes up to three
  stores with no transaction around them, any may fail, the service may die between
  any two, the file service may hang; and the consumer acknowledges with the wrong
  argument. Correct: no published message is forgotten unless a run of the handler gave it
  up; a stored text is searchable; a row's file exists and is its own.
* **Login state.** Two Redis keys and two maps, written one after another by
  handlers in two processes; a connection may authenticate several times, also for several
  users. Correct: a push never reaches a connection its user has not authenticated; a usable
  session keeps other logins out; a closed connection cleans up.
* **New message.** A request crosses four processes and a queue while members and
  connections change; its call has no timeout, breaks off while its run goes on, and is
  repeated by brpc. Correct: what was shown or acknowledged is on its way to
  storage; a failure answer means nobody was shown the message; steady members get
  it; every request is answered.
* **Gateway handlers.** A handler looks connections up, calls services, and pushes,
  while users connect, break, log in again, and the gateway or a call dies. Correct: a
  notification reaches only a user it concerns, and only of what was done; whoever stayed
  connected has it when the client hears of success; nobody hears of a failure.
* **Files and queries.** An answer joins rows, files, users and avatars that four
  services keep and others change meanwhile; a disk fills up. Correct: what a put answers
  is in the files; parts of an answer belong together; nothing is left out that was there
  when the query began; the last messages are the newest.
* **Friend service.** Accepting a friend takes five transactions; two calls on the
  same pair interleave, fail halfway or die with the service; there are no unique
  indexes on applications, relations or members. Correct: friendship is asked for,
  agreed on and mutual; no chat is half there; what was answered stays done; friends
  share exactly one chat.
* **User service.** Setters read a row, change a column, and write the whole row in
  another transaction, then put the whole document into ES; registrations look for a
  name first and insert later; codes live 300 s and only one of three handlers removes
  them. Correct: who is registered can be found;
  setters that follow one another keep each other's columns and MySQL and ES agree; a
  new phone came with a code that was sent; a code that logged somebody in is used up.

## 2. The modules

Actions are named after the methods they model. One action is one stretch that no
other actor can observe the middle of: a method under a mutex, a transaction, a
Redis command, or a callback up to its next call of another process.

### ServiceManager, ServiceDiscovery

`hosts`, `nodes`, `idx` are the fields of `ServiceChannel`, one set per service;
`services` is the key set of `_services`. A channel is a record of host and number,
because two channels to one host are different objects and `remove` looks for the
object. The registration key of an instance is the sequence of its path parts, from which
`GetServiceName` takes the last off, as the cut at the last slash does; its address is the
instance itself; `BadHost` are the instances whose address `Channel::Init` refuses. `Pick` reads the list at `_idx` as the code does; past its
end it yields the null pointer or a wild one, which is what the bytes may be. `passed`,
`skewed` and `strayed` are ghosts: which node has had a turn since which other, and the
services that lost a node before their pointer, or whose pointer was left past the end.

`ServiceDiscovery` adds etcd (`registry`, leases, expiry), the constructor of
`Discovery` in three steps (`Ls`, `PutListed` per key, `Watch`) and the callback on an
event or on a notice with an error (`FailedNotice`), which is logged and its event lost.
`Register` may fail to put the key, which leaves a running program nobody finds.
Events are sent only once the watch runs. `unseen` and `doubled` are ghosts: the
instances whose last change fell between listing and watching or in a failed notice, and
those whose PUT reaches a table that already has them. `InSync` and `NodesMirrorHosts` hold outside
those ghosts. An unseen change stays unseen until the next one of that instance
(`etcd.hpp:57`: the watch does not start at the revision of the listing); for the doubled, a
channel is left behind when their host goes (`channel.hpp:30`), and `TableIsConsistent` is
what still holds of them.

### MessageQueue

`outbuf` is the send buffer of the publisher (AMQP-CPP's `publish` returns before
anything is sent), `queue` and `unacked` are the broker's, `inbox` holds deliveries
that wait for the loop thread of the consumer, and `acks` the tags on their way
back. `AckTag` is the code's argument: the `redelivered` flag, so tag 0 for a first
delivery and tag 1 for a repeated one. An unknown tag closes the channel; its
outstanding deliveries go back to the front of the queue. The process does not
notice and keeps working through its inbox.

### MessageStorage

Extends `MessageQueue` with the handler: `pc` is the next call of `onMessage`, and
`index`, `files`, `rows` are what Elasticsearch, the file service and the message
table hold. Each write may fail before or after taking effect; the `GiveUp` path is
the early return, after which the acknowledgement still follows. The row keeps the
message's file id; the other columns are copies of the message. A file may be stored
without its end, since `writeFile` does not look at `close()`: the ghost `truncated`. The
file service may hang (`Hang`), and the one loop thread then waits for ever.

### LoginSession

`CheckStatus`, `AppendSession`, `AppendStatus` are the three Redis commands of
`UserLogin`; the websocket handlers run under `closing = Idle`, as the one asio
thread does, with `onClose` split at its Redis commands, where logins interleave. A
connection may authenticate again, with any session: `insert` keeps the entries there are,
so `connClient` stays the first client's, while every user gets an entry in `uidConn`.
`authed` and `mixed` are ghosts: the sessions a connection has authenticated, and the users
who did so on a connection somebody else had authenticated first.
`overlapped`, `shared` and `crashed` are ghosts that name the users whose two login
attempts overlapped, or who used one session on a second connection before the first
was cleaned up. `Disciplined` users are the others: the login check and the setting of its
key are two commands (`user_server.hpp:153`), so overlapping logins can both succeed, and
the entry of a reconnected user goes with that of the old connection
(`connection.hpp:55`).

### Gateway

Extends `LoginSession` with the HTTP handlers, which run concurrently with its websocket
handlers. All 27 paths are in `Handlers`; those that forward are told by the service they
call and by whether they want a session, so handlers of one kind are one value. A request
is taken up (`Accept`: the session key gives the user id, or an error answer), called
(`Call`: the service does all of it or refuses, and the call may break off before or after),
and, for FriendAdd, FriendAddProcess, FriendRemove and ChatSessionCreate, works off a
`script`: what the rest of that handler does, in its order, as `Find` (look a connection up),
`Ask` (`_GetUserInfo`) and `Tell` (push). `held` are the connection pointers of the handler,
which it may use long after looking them up. `due` (ghost) are the connections of users who
were in the table when the service had done its work. `NotificationsHaveTheirUser` is what
`FriendAddProcess` tests the wrong response for (`gateway_server.hpp:767`).
What the services do inside is in their own modules: composing them would multiply their
states without adding a step the gateway can see.

### FileService, Queries

`FileService` is `PutMultiFile` over `writeFile`: open, write, close per file, with a disk
that may fill up at each; ids are numbered in the order they are made. A put of one file is
`PutSingleFile`. `truncated` (ghost) are the files whose last bytes were lost in `close()`,
whose result `writeFile` does not look at.

`Queries` reads back what the other services stored, over the files of `FileService`: one
handler shape serves the history, recent messages and search, the lists of users, the list
of chats, and `GetUserInfo`. `GetChatSessionList` asks `GetRecentMsg` for one chat after
another: `Inner(q)` is that call of `q`, a handler of its own which other steps interleave
with, and `q` waits for it (`AskRecent`, `TakeRecent`). `Wanted` is what a request can ask for,
`Asked` what it does ask for in a run.
What is found is a sequence of entries without their files and users; `GetFile`,
`SelectUsers` and `GetAvatars` bring those; `Assemble` joins by id with the `operator[]` of
the code's maps, which makes up an empty element for an id it has not got. Writers run
meanwhile: messages are indexed and inserted in any order, avatars change. `before` (ghost)
is what was there when the query began; `unread` the queries whose database read failed and
was taken to be empty (`message_server.hpp:59`); an entry of a list of chats is `missed`
(ghost) when the call for its last message failed, which shows as a chat without one
(`friend_server.hpp:334`, `:344`).

### NewMessage

`Request` is an HTTP request, a `Message` the message that one run of `GetTransmitTarget`
makes: `RequestOf` gives a request as many runs as brpc may start for it. `stage` is where
the gateway is with a request and `awaited` the run it waits for; `step` is where the
transmit service is with a run, which goes on when the gateway has given it up (`CallFails`),
called again (`Retry`) or died (`GatewayDies`). `Hang` is a transmit or user service that
takes calls and does not answer them, `Resume` its coming back. All on top of the queue of `MessageQueue`, with members
and connections changing: `away` (ghost) are the users who were not member and connected all
the time. The member list is fetched whole by the ORM, so a read that fails gives an empty
list, never a part of one.

### Friendship, FriendService

`applies`, `relations`, `sessions`, `members` are the four tables as sets of rows;
ids that `uuid()` makes are the number of the call that makes them. `at` is the next
transaction of a call's handler: each method of a `mysql_*.hpp` table is one action,
with the outcomes that it commits, throws before the commit, or throws after it
(which the handler takes for a failure). `ChatSessionTable::remove(uid, pid)` reads
and then deletes, so it is two actions, `FindSession` and `RemoveSession`.
`FindSession` ends the process when the two users do not share exactly one single
chat: `query_one` gives a null pointer that is dereferenced, or its assertion fails
(the build files do not define `NDEBUG`). `tangled` is a ghost: the pairs whose calls
overlapped or failed, who applied to each other, or who were to part without being
friends; `FriendsShareOneChat` and `RemoveFindsItsChat` are about the others. The last two of
these need no overlap: calls made one after another bring them about.

`Friendship` is the abstract service: who asked, who agreed, who is friends.
`ImplementsFriendship` shows `FriendService` to be it, with `asked` and `agreed` read
off the requests and `friends` off the table.

### UserService

`rows` is the table, `docs` the index, `codes` the codes in Redis; a call stands for
the ids and texts that come with it, so accounts registered later are named by their
call. `at` is the next request to a store of a call's handler, `user[c]` the row object
it holds between reading and writing. A write may commit, throw before, or throw after
(the handler answers with a failure all the same); a query of a registration that fails
finds nothing, so the handler goes on to the insert, where `Unique` - the unique indexes
of `user.hxx` - decides who of two that race gets a name. `ServiceDies` may come at any time, and an exception of Redis,
which no handler catches, is one of its causes. `ChangesAreKept` is about accounts
outside `tangled`: those none of whose setters overlapped, failed or died; for the
others the code does lose one of two changes, which nothing in the repository denies.
After `RemoveCode`, `PhoneLogin` does what `UserLogin` does in `LoginSession`; the two
modules share no state.

## 3. The runs

| Run | Bounds | What it checks |
|---|---|---|
| `discovery` | 5 instances of 2 services, one of them followed, one malformed address, 3 leases, 3 channels | `TableIsConsistent`, `InSync`, `NodesMirrorHosts`, `TurnsInOrder` |
| `discovery_choose` | 2 instances of 1 service, 2 leases, 2 channels | **violated**: `ChooseReturnsNode` |
| `storage` | a text, a file, an unknown message; 2 faults | `NothingForgotten`, `Accounted`, `StoredTextIsSearchable`, `RowHasItsFile`, `DeliveredIsHandled` |
| `storage_persist` | 2 texts, no fault | **violated**: `PublishedIsPersisted` |
| `session` | 2 users, 3 logins, 2 connections | `PushReachesItsUser`, `OneLoginEach`, `StatusGuardsSession`, `DisciplinedIsReached`, `CloseCleansUp`, `CanLogInAgain` |
| `gateway` | 2 users, 2 logins, 2 connections, 1 request of any kind, 1 fault | `NotificationsAreTrue`, `ConnectedAreTold`, `FailedToldNobody` |
| `gateway_null` | the same | **violated**: `NotificationsHaveTheirUser` |
| `newmessage` | 1 request with 2 runs, 3 users, one restless, 2 faults | `SentIsKept`, `FailedIsNotPushed`, `SteadyMembersServed`, `AnsweredUnlessHung` |
| `friend` | 2 users, 4 calls, 1 fault | `ChatsAreWhole`, `AnsweredIsDone`, `FriendsShareOneChat`, `RemoveFindsItsChat`, `ImplementsFriendship` |
| `friend_cross` | 2 users, 4 calls, no fault | **violated**: `OneChatPerPair` |
| `user` | 1 account, 2 nicknames, 2 phones, 3 calls, 1 fault | `IndexFollowsTable`, `ChangesAreKept`, `PhoneCameWithCode`, `UsedCodesOpenNothing` |
| `queries` | 2 messages, 2 users, 2 chats, an avatar, a put of two files, a query with its inner call, 1 fault | `TypeOK`, `AnsweredFilesAreWhole`, `AnswersAreWhole`, `NothingLeftOut`, `RecentIsNewest` |

The type invariants of the modules are theorems (section 4) and most are not repeated in the
runs; that of `Queries` also says that a handler is through exactly when it has answered.

Why the bounds are enough: the properties relate at most two instances, messages,
logins or connections, and each run has one more actor than the property relates or
one of a different kind. Three leases let one instance restart twice, or restart
while another comes and goes. Two faults let a message fail once and a crash
redeliver it. Two faults in `newmessage` may be any call that breaks off or fails, a death
of any of the three services or a hang, one after the other and at every step of the two
runs, so that a repeated call meets a second fault; the messages of the two runs
share one queue, channel and connection, so that the fault of one meets the other. Three
channels let a node be passed over between two turns of another. Four calls in `friend` are
what two crossing applications and their acceptances take, or a friendship with its
removal and one more call; a property of the friend service relates one pair of users,
and their symmetry is used. Three calls in `user` are a code with a login and a second
use of it, or two that race for a name and a third; the account that is there has a
phone number from the start, so that a login needs no registration first. Nicknames are
symmetric, phones are not. One request in `gateway` is enough because requests share
nothing but the tables of `LoginSession`, which change in every way around it; its two
users can be the caller and the user concerned, or the same, and each can reconnect or log
in again. Connections are interchangeable, and so are the users with their logins. In
`queries` each kind of query meets two messages of one chat (one with a file, stored in
either order), an empty chat, an avatar that appears meanwhile, and one failure anywhere.

`CHECK_DEADLOCK FALSE` stands in the `storage`, `session`, `gateway`, `friend`, `user` and
`queries` configurations because these models run out of messages, of login attempts and
connections, of requests, or of calls.

**Fairness.** `FairSpec` asks only for what is scheduled without anybody's
cooperation: threads of a live process go on (handlers, watcher, asio loop, event
loop), leases that nobody renews end, the broker moves messages, docker restarts a
dead service. Clients, faults, crashes, registrations and changing membership have
no fairness. A call to a service that hangs is no scheduled step: the handler that waits
for it is disabled, so no fairness makes it go on, and a call that breaks off is only assumed
to be noticed when the process at its end is gone. So `AnsweredUnlessHung` promises an answer
only if the services answer again and again (`[]<>~hung`), and `DeliveredIsHandled`
makes an exception of a file service that hangs.

### Disagreements found

Four are violation runs, whose property is a sentence of the code's own comments or
documents; `PROJECT.json` quotes it.

1. `channel.hpp:56` - `choose` indexes with a pointer left over from a longer list
   (`discovery_choose`).
2. `rabbitmq.hpp:66` - `ack(redelivered)` in place of `ack(deliveryTag)`: the broker
   closes the channel after the first message (`storage_persist`).
3. `friend_server.hpp:172` - acceptances that overlap each make a single chat, and
   removing the friend then ends the service (`friend_cross`).
4. `gateway_server.hpp:767` - `FriendAddProcess` tests the response of the friend service a
   second time, not that of `_GetUserInfo`, and notifies without the applicant's data
   (`gateway_null`).

The others have no run of their own. A ghost or a condition keeps each of them out of the
properties that hold, and the models contain the behaviour:

| Where | What the code does | Kept out by |
|---|---|---|
| `channel.hpp:43` | `remove` leaves the pointer where it is when a node before it goes: the next in turn is passed over, though line 48 promises the least recently used | `skewed` of `TurnsInOrder` |
| `channel.hpp:22` | no timeout: a service that hangs for ever holds its callers for ever, while `src/README.md:6` speaks of 500 ms and three retries | `[]<>~hung` of `AnsweredUnlessHung` |
| `connection.hpp:22` | the second user who authenticates on a connection keeps an entry, a session and a login mark when it is closed | `CloseCleansUp` and `CanLogInAgain` speak of the first; `mixed` |
| `user_server.hpp:153` | two logins that overlap both find no login mark, though line 156 means to refuse one | `overlapped` of `OneLoginEach` |
| `friend_server.hpp:134` | two users who apply to each other and are both accepted get two chats, although no call overlaps another | `tangled` of `FriendsShareOneChat` |
| `mysql_chat_session.hpp:50` | removing somebody who is no friend dereferences a null result and ends the service | `tangled` of `RemoveFindsItsChat` |
| `friend_server.hpp:334`, `:344` | a chat whose last message could not be got is shown without one, and the list answers success | `missed` of `NothingLeftOut` |

Behaviour that nothing in the repository denies, or that only names a narrow condition, is
kept in ghosts that the properties exclude: `unseen`, `doubled`, `skewed`, `strayed`,
`overlapped`, `shared`, `mixed`, `tangled`, `truncated`, `unread`, `missed`, and a member list
that could not be read. Each of them is a hazard in `PROJECT.json` with a note of what is left
out.

## 4. The proofs

TLAPS proves these for every value of the constants, under the named assumptions of
the modules (`LoginAssumption`, `GatewayAssumption`, `ServedAssumption`,
`StorageAssumption`, `NewMessageAssumption`, `ServiceAssumption`, `ChannelAssumption`,
`DiscoveryAssumption`, `FriendAssumption`, `UserAssumption`, `FileAssumption`,
`QueryAssumption`); `MessageQueue` needs none. Every safety property of the passing runs is
proved.

**ServiceDiscovery_proofs.** `TableConsistent` rests on `ManagerInv`: channel
numbers in the lists are below the counter, so an appended channel is new; every node of
a service is of an instance of that service; and a host in the table belongs to a service
that is there. `RemovePositions` says what `remove` does to the list by positions, since
the channel it looks for occurs once. `StaysInSync` is inductive once `Known` says what the
first n pending events leave known of an instance: an event that is appended decides for its
instance (`KnownAppend`), and taking the first event off leaves the rest to say the same
of the table as the callback leaves it (`KnownTail`), or as a failed notice does unless it
was the last about its instance. `NodesMirror` needs more of the events
than their last: `PutsAreNews`, that every PUT on its way will find its instance unknown,
unless the instance is `doubled`; without it the callback could list a host twice.
`NodesTakeTurns` says of the ghost `passed` what the list and the pointer make of it: a node
that was chosen since another stands after it, counting from the pointer round (`TurnInv`),
as long as no node went from before the pointer. `DiscoveryTypeCorrect` includes that the pointer stays a number below
the bound.

**Gateway_proofs**, about `LoginSession`. `TypeCorrect`, `PushIsSafe`: `TableInv` joins the types with
what an entry of `uidConn` says of its connection and with the running `onClose`: `closing`
names a broken connection that still has its client. It is needed because `RemoveConn` reads
the client two Redis commands after `OnClose` looked it up. `StatusGuards`, `LoginIsSingle`,
`ConnectionIsReached`: `DisciplineInv` says of a disciplined user that at most one login is
under way, and none while a session is usable; that one session is usable at most, and the
status key is there with it; that a connection filed as the user's has a usable session, is
the only one with it, and the user has an entry; and that there is no session and no login
while `onClose` is about to remove the status key. Each step either keeps this or takes the
user out of `Disciplined`, which never grows (`GhostsGrow`). Users who authenticate on the
connection of another are not excluded: only that their entry names a connection of their own
is said of those outside `mixed`.

**Gateway_proofs**, about `Gateway`. A step of the HTTP handlers leaves the state of
`LoginSession` alone, so `TableInv` and `DisciplineInv` hold while requests are
served (`GatewayStepIsSessionStep`). `GoodScript` says of the script of each handler that it tells only what the request
is about, each after looking its user up, and checks no data once it has told somebody;
`ScriptIsGood` proves it for all four, member lists of any length included.
`NotificationsTrue` and `NobodyToldOfFailure` follow a request through `StageInv` and
`ScriptInv`. `ConnectedTold` needs `PromiseInv`: as long as a due connection is open and
serves a disciplined user who is not `mixed`, each notification for the user has reached it, or the script
still comes to it with that very connection in hand or yet to be looked up. That a lookup
finds the due connection and no other is `OneServes`, from `DisciplineInv`.

**MessageQueue_proofs.** `QueueTypeCorrect`, `NothingIsForgotten`: `QueueInv`. The broker
forgets a message only when a tag it knows is acknowledged. Tags start at 1, so the
0s are never known; and the 1s name the first delivery of the channel, whatever
delivery they were meant for. `FirstIsHandled` says that, by the time any
acknowledgement is under way, that first delivery has been handled, because the
inbox is worked off in order.

**NewMessage_proofs.** `NewMessageTypeCorrect`. `SentKept` and `FailedNotPushed`: a run that
answers with success has published (`PublishedFirst`), and `AwaitedRun` says of a request
that it waits for a run it called, that what it has answered or pushed is the message of
that run, and that a push is only made by a request that will not be answered with a failure -
whatever the runs it gave up are doing. That a published message is kept is `QueueInv`, since
each step is one of the queue or leaves it alone (`StepRefines`). `SteadyServed` rests on
`SteadyVisited`: the target list of the awaited run has everybody who was steady, unless it
could not be read, and each of them has been pushed the message or is still to be visited.

**MessageStorage_proofs.** Every step of the storage
service is a step of the queue or a stutter, so that `NothingIsForgotten` carries over
(`StorageForgetsNothing`). `MessagesAreAccounted`, `HistoryIsSearchable` and
`RowsHaveTheirFiles` rest on `HandlerInv`, which follows
`onMessage` from store to store: a running handler has a delivery, its step fits the
kind of the message, a text past the index step is in the index, a file past the upload
is in the file service and whole but for `truncated`, and a message whose deliveries were handled was stored or given
up. Each names what the code established before the insert; that a redelivery finds
stores as an earlier run left them is why they are stated of the stores and not of the
run. The proofs assume `StorageAssumption` alone.

**FriendService_proofs.** `FriendTypeCorrect` (with `StepFitsRequest`: a handler's step
fits its request). `FriendshipIsImplemented`: every step maps to a step of `Friendship`
or a stutter; `AskedInv` carries from the application's row to the acceptance that
somebody asked. `ChatsStayWhole`: `ChatInv` adds that the rows of a chat appear while its
own call makes them and that a removal is of the finished chat of the same two users, so
it never meets one in the making. `AnswersAreKept`: `DoneInv` splits the property by
table (application, relation, members) and adds the handler between its transactions; a
row goes only in a step of a call that counts as undoing. `OneChatForFriends` and
`RemovalFindsItsChat` are about the two rows of a friendship and the chat that is made and
removed three transactions away from them, so `PairsInv` follows a pair through the halves of
its calls: of a pair that is not `tangled`, at most one call is running, and its step says
which of relation and chat are there and how many chats; when none is, friends have exactly
one chat and strangers none. A call that starts beside another, fails or dies, an application that crosses another and a
removal of a stranger tangle the pair for good. All rest on `FriendAssumption`.

**UserService_proofs.** `UserTypeCorrect` and `RegisteredAreFound` rest on `StoreInv`: steps
fit requests, a handler about to write holds a row, accounts that setters name are in the
table, and so is whoever is at the index step; nothing ever goes (`NothingGoes`).
`PhonesNeedCodes` and `CodesAreUsedUp` need
`CodeInv`: codes in Redis were sent by answered calls, a call past the check came with
the code of an earlier one, and - because setters write back phones they read long
before - every row in hand has a verified phone as well. `ChangesStay` rests on `ChangeInv`:
outside `tangled`, none but the latest call on an account is running; the row it holds is the
table's but for the column it sets, or the table's once that is written; the document in the
index is the row, or will be when that call is through; and the latest setter of a column
that answered is in the row.

**Queries_proofs.** About `FileService` and `Queries`, from `FileAssumption` and
`QueryAssumption`: identities of different kinds differ, what is stored is finite, a message
or an avatar is a put of one file. `FilesInv` says of a put what it has in hand at each step,
and that its ids are of its own files, in order; files only ever gain content (`FilesGrow`), so
whatever an id once named it names from then on. `PutsAreWhole` follows. `StoreInv` carries
this to rows and avatars: the file of a row is its message's, the avatar of a user one of
theirs. `HandlerInv` then follows one handler: what it has found (`ItemInv`), the files it
holds (`HasFile`), the avatar ids and avatars (`HasAvatarId`, `HasAvatar`), and how much of
what was there at the start its list shows (`Complete`). None of it can be undone by
writers (`HandlerRests`), which is why answers are whole although each read is of another
moment. That a call which failed leaves no empty element to be joined is `CallFailsKeeps`.
`CallInv` ties a `GetChatSessionList` to its `GetRecentMsg`: the chat it asks for is the
next one of the list, and what was there for the caller was there for the call, which is why
a chat with stored messages shows one unless the call failed (`ShowsLast`). From it follow
`QueriesTypeCorrect`, `AnswersWhole`, `NothingOmitted` and `NewestShown`.

Model-checked only: the liveness properties (`DeliveredIsHandled`, `CloseCleansUp`,
`CanLogInAgain`, `AnsweredUnlessHung`), which the provers do not reach, and the violations.

## 5. Not modelled

* A restart of the broker: the queue is declared without durability, and all it
  held is lost then.
* The `keepAlive` timers of the websockets, which change no state of the server,
  and the number of their chains.
* `file_size` of messages that are not files: it is stored uninitialised
  (`message_server.hpp:296`); it is only read back for files.
* The captured reference of `MQClient::consume` that outlives the call
  (`rabbitmq.hpp:64`): its outcomes are a crash, which `StorageDies` covers, and none.
* Whether a listed node is ever chosen while others come and go without end: the leases of a
  run are bounded, so its lists stand still in the end. What is checked of the order is
  the safety property `TurnsInOrder`.
* The phone a verification code was sent to: `Codes` keeps none, so no property can tie them.
* Which client programs authenticate how often on a connection: any of them may, at any time.
* Deaths of brpc's own threads, and how many of its three retries happen: a request has as
  many runs as the configuration gives it.
* A second PUT for a host before its first DELETE (`channel.hpp:30`) leaves a channel
  behind: the ghost `doubled` keeps such hosts out of `NodesMirrorHosts`, while
  `TableIsConsistent` holds for them too.
* The input checks (`nickname_check`, `password_check`, `phone_check`,
  `user_server.hpp:43` and `:169`): operators on characters without state; handlers are modelled
  past them.
* The speech service and the clients of the cloud (`asr.hpp`, `dms.hpp`): stateless calls
  of third parties. That the gateway forwards to the speech service is in `Gateway`.
* The request builders for Elasticsearch (`elastic.hpp`, `icsearch.hpp`), the builders of
  the servers and their `main`, which run once before anything else does, and logging.
* `rpc_registry.hpp` (unused), generated code and everything under `third` and
  `example`. Third-party headers under `third` are about 20,000 of the repository's 28,500
  lines of implementation (`httplib.h` alone has 9,834, the cloud SDK the rest), while the
  servers' own code has about 6,500, of which the modules translate some 3,500.
* What elects and balances inside brpc, etcd, Redis, MySQL, Elasticsearch and RabbitMQ:
  they are modelled by what the code may rely on.

## 6. Plan

1. The phone behind a code and the codes used twice, should the code come to check them; and
   a limit to the runs of a request that brpc itself keeps.
2. Proofs: the safety half of the liveness properties - what holds from the start of a
   handler to its end (a connection that is closing stays known until it is removed, a
   delivery is in one place until it is handled).
3. A broker restart, which loses the queue, as a fault of `MessageQueue`.
4. The gateway's notifications over `FriendService` in place of an abstract friend
   service, with few enough calls for TLC.
5. The input checks as operators against the rules their error messages state.
