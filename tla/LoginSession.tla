---------------------------- MODULE LoginSession ----------------------------
(***************************************************************************)
(* Who is logged in, and over which websocket a user is reached: the login *)
(* handler of the user service (UserLogin, user_server.hpp; PhoneLogin is  *)
(* the same from its login check on), the session and status               *)
(* keys both services keep in Redis (data_redis.hpp), and the websocket    *)
(* handlers of the gateway with its table of connections                   *)
(* (gateway_server.hpp, connection.hpp).                                   *)
(*                                                                         *)
(* A login attempt stands for the session id it generates when it gets     *)
(* that far.  Login handlers run concurrently, each Redis command being    *)
(* atomic; the websocket handlers run on the one thread of the gateway's   *)
(* asio loop, one after another.  A client may authenticate again on the   *)
(* same connection, with any session it has.                               *)
(***************************************************************************)
EXTENDS Integers, FiniteSets

CONSTANTS
  User,
  Login,      \* login attempts; also the session ids they generate
  LoginUser,  \* the user whose name and password an attempt gives
  Conn,       \* websocket connections
  None

ASSUME LoginAssumption ==
  /\ LoginUser \in [Login -> User]
  /\ None \notin Login \cup Conn

VARIABLES
  login,       \* how far each attempt got
  session,     \* ssids with a session key in Redis (its value: LoginUser)
  status,      \* users with a status key in Redis
  conn,        \* connection: "none", "open", "broken" (onClose pending or
               \* running) or "gone"
  uidConn,     \* _uid_connections
  connClient,  \* _conn_clients: the ssid; its uid is LoginUser of the ssid
  authed,      \* ghost: the sessions a connection was authenticated with
  closing,     \* the running onClose: its connection and next step
  overlapped,  \* ghost: users of whom two login attempts overlapped
  shared,      \* ghost: users who used a session on a second connection
               \* before the gateway had cleaned up the first
  mixed,       \* ghost: users who authenticated on a connection that another
               \* user had authenticated first
  crashed      \* ghost: has the gateway died?

ghosts == <<authed, overlapped, shared, mixed, crashed>>
redisVars == <<session, status>>
tableVars == <<uidConn, connClient>>
vars == <<login, redisVars, conn, tableVars, closing, ghosts>>

Idle == [conn |-> None, step |-> "none"]

Init ==
  /\ login = [l \in Login |-> "new"]
  /\ session = {} /\ status = {}
  /\ conn = [c \in Conn |-> "none"]
  /\ uidConn = [u \in User |-> None]
  /\ connClient = [c \in Conn |-> None]
  /\ closing = Idle
  /\ authed = [c \in Conn |-> {}]
  /\ overlapped = {} /\ shared = {} /\ mixed = {} /\ crashed = FALSE

-----------------------------------------------------------------------------
InProgress(l) == login[l] \in {"checked", "stored"}

(* UserLogin up to the login check: wrong credentials and a   *)
(* user with a status key are refused.                                     *)
CheckStatus(l) ==
  /\ login[l] = "new"
  /\ \/ /\ LoginUser[l] \notin status
        /\ login' = [login EXCEPT ![l] = "checked"]
     \/ login' = [login EXCEPT ![l] = "refused"]
  /\ overlapped' = overlapped \cup
       {LoginUser[k] : k \in {k \in Login : LoginUser[k] = LoginUser[l]
                                           /\ InProgress(k)}}
  /\ UNCHANGED <<redisVars, conn, tableVars, closing, authed, shared, mixed, crashed>>

(* _redis_session->append(ssid, uid) *)
AppendSession(l) ==
  /\ login[l] = "checked"
  /\ session' = session \cup {l}
  /\ login' = [login EXCEPT ![l] = "stored"]
  /\ UNCHANGED <<status, conn, tableVars, closing, ghosts>>

(* Mutant of AppendStatus: the status key is not set. *)
AppendNoStatus(l) ==
  /\ login[l] = "stored"
  /\ login' = [login EXCEPT ![l] = "ok"]
  /\ UNCHANGED <<redisVars, conn, tableVars, closing, ghosts>>

(* _redis_status->append(uid) and the response, which may be lost on its   *)
(* way through the gateway: the client then never learns its session id.   *)
AppendStatus(l) ==
  /\ login[l] = "stored"
  /\ status' = status \cup {LoginUser[l]}
  /\ \E answer \in {"ok", "lost"} : login' = [login EXCEPT ![l] = answer]
  /\ UNCHANGED <<session, conn, tableVars, closing, ghosts>>

(* The user service dies in the middle of a login. *)
UserServiceDies(l) ==
  /\ InProgress(l)
  /\ login' = [login EXCEPT ![l] = "lost"]
  /\ UNCHANGED <<redisVars, conn, tableVars, closing, ghosts>>

-----------------------------------------------------------------------------
Open(c) ==
  /\ conn[c] = "none"
  /\ conn' = [conn EXCEPT ![c] = "open"]
  /\ UNCHANGED <<login, redisVars, tableVars, closing, ghosts>>

(* Mutant of Insert: one map only. *)
InsertClientOnly(c, l) ==
  /\ connClient' = [connClient EXCEPT ![c] = IF @ = None THEN l ELSE @]
  /\ UNCHANGED uidConn

(* Connection::insert: both maps keep an entry they already have, so that   *)
(* a connection stays the first client's.                                  *)
Insert(c, l) ==
  /\ uidConn' = [uidConn EXCEPT ![LoginUser[l]] = IF @ = None THEN c ELSE @]
  /\ connClient' = [connClient EXCEPT ![c] = IF @ = None THEN l ELSE @]

(* onMessage: the client authenticates with the session id a login gave    *)
(* it.  Without a session key the connection is closed.                    *)
OnMessage(c, l) ==
  /\ conn[c] = "open"
  /\ closing = Idle
  /\ login[l] = "ok"
  /\ \/ /\ l \in session
        /\ Insert(c, l)
        /\ authed' = [authed EXCEPT ![c] = @ \cup {l}]
        /\ UNCHANGED conn
     \/ /\ l \notin session
        /\ conn' = [conn EXCEPT ![c] = "broken"]
        /\ UNCHANGED <<tableVars, authed>>
  /\ shared' = shared \cup {LoginUser[connClient[d]] :
                              d \in {d \in Conn \ {c} : connClient[d] = l}}
  /\ mixed' = IF connClient[c] # None /\ LoginUser[connClient[c]] # LoginUser[l]
              THEN mixed \cup {LoginUser[l]} ELSE mixed
  /\ UNCHANGED <<login, redisVars, closing, overlapped, crashed>>

(* The client or the network ends the connection, or the gateway closes it *)
(* because a message does not parse.                                       *)
Break(c) ==
  /\ conn[c] = "open"
  /\ conn' = [conn EXCEPT ![c] = "broken"]
  /\ UNCHANGED <<login, redisVars, tableVars, closing, ghosts>>

(* Mutants of OnClose: the status key goes first; a connection whose       *)
(* session key is gone is left alone.                                      *)
OnCloseStatusFirst(c) ==
  /\ conn[c] = "broken"
  /\ closing = Idle
  /\ connClient[c] # None
  /\ status' = status \ {LoginUser[connClient[c]]}
  /\ closing' = [conn |-> c, step |-> "status"]
  /\ UNCHANGED <<login, session, conn, tableVars, ghosts>>

OnCloseValidOnly(c) ==
  /\ conn[c] = "broken"
  /\ closing = Idle
  /\ \/ /\ connClient[c] \notin session
        /\ conn' = [conn EXCEPT ![c] = "gone"]
        /\ UNCHANGED <<session, closing>>
     \/ /\ connClient[c] \in session
        /\ session' = session \ {connClient[c]}
        /\ closing' = [conn |-> c, step |-> "status"]
        /\ UNCHANGED conn
  /\ UNCHANGED <<login, status, tableVars, ghosts>>

(* onClose: look the client up and remove its session key ... *)
OnClose(c) ==
  /\ conn[c] = "broken"
  /\ closing = Idle
  /\ \/ /\ connClient[c] = None
        /\ conn' = [conn EXCEPT ![c] = "gone"]
        /\ UNCHANGED <<session, closing>>
     \/ /\ connClient[c] # None
        /\ session' = session \ {connClient[c]}
        /\ closing' = [conn |-> c, step |-> "status"]
        /\ UNCHANGED conn
  /\ UNCHANGED <<login, status, tableVars, ghosts>>

(* Mutant of RemoveStatus: the key stays. *)
RemoveNoStatus(c) ==
  /\ closing = [conn |-> c, step |-> "status"]
  /\ closing' = [conn |-> c, step |-> "remove"]
  /\ UNCHANGED <<login, redisVars, conn, tableVars, ghosts>>

(* ... then the user's status key ... *)
RemoveStatus(c) ==
  /\ closing = [conn |-> c, step |-> "status"]
  /\ status' = status \ {LoginUser[connClient[c]]}
  /\ closing' = [conn |-> c, step |-> "remove"]
  /\ UNCHANGED <<login, session, conn, tableVars, ghosts>>

(* Mutant of RemoveConn: the entry of the user stays. *)
RemoveClientOnly(c) ==
  /\ closing = [conn |-> c, step |-> "remove"]
  /\ connClient' = [connClient EXCEPT ![c] = None]
  /\ conn' = [conn EXCEPT ![c] = "gone"]
  /\ closing' = Idle
  /\ UNCHANGED <<login, redisVars, uidConn, ghosts>>

(* ... then Connection::remove: the user's entry goes whatever connection  *)
(* it names.                                                               *)
RemoveConn(c) ==
  /\ closing = [conn |-> c, step |-> "remove"]
  /\ uidConn' = [uidConn EXCEPT ![LoginUser[connClient[c]]] = None]
  /\ connClient' = [connClient EXCEPT ![c] = None]
  /\ conn' = [conn EXCEPT ![c] = "gone"]
  /\ closing' = Idle
  /\ UNCHANGED <<login, redisVars, ghosts>>

(* The gateway dies: its connections and tables are gone, Redis is not. *)
GatewayDies ==
  /\ crashed' = TRUE
  /\ conn' = [c \in Conn |-> IF conn[c] = "none" THEN "none" ELSE "gone"]
  /\ uidConn' = [u \in User |-> None]
  /\ connClient' = [c \in Conn |-> None]
  /\ closing' = Idle
  /\ UNCHANGED <<login, redisVars, authed, overlapped, shared, mixed>>

LoginStep(l) == CheckStatus(l) \/ AppendSession(l) \/ AppendStatus(l)
CloseStep(c) == OnClose(c) \/ RemoveStatus(c) \/ RemoveConn(c)

Next ==
  \/ \E l \in Login : LoginStep(l)
  \/ \E l \in Login : UserServiceDies(l)
  \/ \E c \in Conn : Open(c)
  \/ \E c \in Conn, l \in Login : OnMessage(c, l)
  \/ \E c \in Conn : Break(c)
  \/ \E c \in Conn : CloseStep(c)
  \/ GatewayDies

Spec == Init /\ [][Next]_vars

(* The asio loop goes on and reports every connection that ended. *)
FairSpec == Spec /\ \A c \in Conn : WF_vars(CloseStep(c))

-----------------------------------------------------------------------------
TypeOK ==
  /\ login \in [Login -> {"new", "checked", "stored", "ok", "lost", "refused"}]
  /\ session \subseteq Login
  /\ status \subseteq User
  /\ conn \in [Conn -> {"none", "open", "broken", "gone"}]
  /\ uidConn \in [User -> Conn \cup {None}]
  /\ connClient \in [Conn -> Login \cup {None}]
  /\ closing \in [conn : Conn \cup {None}, step : {"none", "status", "remove"}]
  /\ authed \in [Conn -> SUBSET Login]
  /\ overlapped \subseteq User
  /\ shared \subseteq User
  /\ mixed \subseteq User
  /\ crashed \in BOOLEAN

(* The users who have authenticated on a connection. *)
UsersOn(c) == {LoginUser[l] : l \in authed[c]}

(* A push for a user goes to a connection on which that user has           *)
(* authenticated; and for a user who never authenticated on a connection   *)
(* of somebody else, to one that is filed as the user's own and that       *)
(* onClose has not finished with.  (Connection::insert, connection,        *)
(* remove)                                                                 *)
PushReachesItsUser ==
  \A u \in User : uidConn[u] # None =>
    /\ u \in UsersOn(uidConn[u])
    /\ u \notin mixed =>
         /\ connClient[uidConn[u]] # None
         /\ LoginUser[connClient[uidConn[u]]] = u
         /\ conn[uidConn[u]] \in {"open", "broken"}

(* The sessions of a user that a client can use. *)
Usable(u) == {l \in session : LoginUser[l] = u /\ login[l] = "ok"}

(* Users who log in once at a time and use a session on one connection. *)
Disciplined == User \ (overlapped \cup shared)

(* A disciplined user is logged in once at most, through any closes and    *)
(* crashes.  (UserLogin, onClose)                                          *)
OneLoginEach ==
  \A u \in Disciplined : Cardinality(Usable(u)) <= 1

(* A client with a usable session keeps other logins of its user out: the  *)
(* status key is there until onClose has taken the session key away.       *)
(* (UserLogin, onClose)                                                    *)
StatusGuardsSession ==
  \A u \in Disciplined : Usable(u) # {} => u \in status

(* A disciplined user with an open connection of the user's own is reached *)
(* on that connection, even while other connections are being closed;      *)
(* unless the user authenticated on somebody else's connection.            *)
(* (onMessage, onClose, Connection)                                        *)
DisciplinedIsReached ==
  \A u \in Disciplined \ mixed, c \in Conn :
    conn[c] = "open" /\ connClient[c] # None /\ LoginUser[connClient[c]] = u
      => uidConn[u] = c

(* When a connection ends, the session that authenticated it first ends    *)
(* for good and its user's entry goes, unless the gateway dies.            *)
(* (onClose, Connection::remove)                                           *)
CloseCleansUp ==
  \A c \in Conn, l \in Login :
    (conn[c] = "broken" /\ connClient[c] = l)
      ~> ((conn[c] = "gone" /\ connClient[c] = None /\ l \notin session
           /\ uidConn[LoginUser[l]] # c) \/ crashed)

(* A user whose own connection has ended is free to log in again: the      *)
(* status key does not outlive the connection, unless the gateway dies.    *)
(* (onClose, Status::remove)                                               *)
CanLogInAgain ==
  \A u \in User :
    (\E c \in Conn : conn[c] = "broken" /\ closing.conn # c
                     /\ connClient[c] # None /\ LoginUser[connClient[c]] = u)
      ~> (u \notin status \/ crashed)
=============================================================================
