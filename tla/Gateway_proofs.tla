--------------------------- MODULE Gateway_proofs ---------------------------
(***************************************************************************)
(* Proofs about LoginSession and Gateway, for any number of users, login   *)
(* attempts, connections, requests and failures, and any crashes.          *)
(*                                                                         *)
(* Of LoginSession:                                                        *)
(* 1. A push only reaches connections its user authenticated on            *)
(*    (PushReachesItsUser).                                                *)
(* 2. For a user whose login attempts do not overlap and who uses no       *)
(*    session on two connections, the status key guards the session, and   *)
(*    at most one session is usable; and if the user authenticates on no   *)
(*    connection of another, the user's connection is the one reached      *)
(*    (StatusGuardsSession, OneLoginEach, DisciplinedIsReached).           *)
(* Of Gateway:                                                             *)
(* 3. Every step of the gateway is one of LoginSession or leaves its state *)
(*    alone, so what is proved of LoginSession holds of the gateway.       *)
(* 4. Types, and the three properties of notifications, from an invariant  *)
(*    of each request: what its script has still to tell is true and due   *)
(*    (NotificationsTrue, NobodyToldOfFailure, ConnectedTold).             *)
(***************************************************************************)
EXTENDS Gateway, FiniteSetTheorems, SequenceTheorems, TLAPS

(* The connection a running onClose works on is broken and still in        *)
(* _conn_clients: nothing else touches the tables before it has finished.  *)
ClosingIsKnown ==
  closing # Idle =>
    /\ closing.conn \in Conn
    /\ closing.step \in {"status", "remove"}
    /\ conn[closing.conn] = "broken"
    /\ connClient[closing.conn] # None

TableInv == TypeOK /\ PushReachesItsUser /\ ClosingIsKnown

LEMMA TableInit == Init => TableInv
<1> SUFFICES ASSUME Init
             PROVE  TableInv
  OBVIOUS
<1>1. crashed \in BOOLEAN
  BY DEF Init
<1>2. TypeOK
  BY <1>1, LoginAssumption DEF Init, TypeOK, Idle
<1>3. PushReachesItsUser /\ ClosingIsKnown
  BY LoginAssumption DEF Init, PushReachesItsUser, ClosingIsKnown
<1> QED
  BY <1>2, <1>3 DEF TableInv

(* Only these steps change the tables, the connections or closing.         *)
LEMMA OnMessageTable ==
  ASSUME TableInv, NEW c \in Conn, NEW l \in Login, OnMessage(c, l)
  PROVE  TableInv'
<1> USE LoginAssumption DEF TableInv, OnMessage, Insert, Idle, redisVars, tableVars, ghosts
<1>1. TypeOK'
  BY DEF TypeOK
<1>2. PushReachesItsUser'
  BY DEF TypeOK, PushReachesItsUser, UsersOn
<1>3. ClosingIsKnown'
  BY DEF TypeOK, ClosingIsKnown
<1> QED
  BY <1>1, <1>2, <1>3

LEMMA OnCloseTable ==
  ASSUME TableInv, NEW c \in Conn, OnClose(c)
  PROVE  TableInv'
<1> USE LoginAssumption DEF TableInv, OnClose, Idle, tableVars, ghosts
<1>1. TypeOK'
  BY DEF TypeOK
<1>2. PushReachesItsUser'
  BY DEF TypeOK, PushReachesItsUser, UsersOn
<1>3. ClosingIsKnown'
  BY DEF TypeOK, ClosingIsKnown
<1> QED
  BY <1>1, <1>2, <1>3

LEMMA RemoveConnTable ==
  ASSUME TableInv, NEW c \in Conn, RemoveConn(c)
  PROVE  TableInv'
<1> USE LoginAssumption DEF TableInv, RemoveConn, Idle, redisVars, ghosts
<1>1. connClient[c] \in Login
  BY DEF TypeOK, ClosingIsKnown
<1>2. TypeOK'
  BY <1>1 DEF TypeOK
<1>3. PushReachesItsUser'
  BY <1>1 DEF TypeOK, PushReachesItsUser, UsersOn
<1>4. ClosingIsKnown'
  BY DEF ClosingIsKnown
<1> QED
  BY <1>2, <1>3, <1>4

LEMMA TableStep == TableInv /\ [Next]_vars => TableInv'
<1> SUFFICES ASSUME TableInv, [Next]_vars
             PROVE  TableInv'
  OBVIOUS
<1> USE LoginAssumption DEF TableInv
<1>1. ASSUME NEW l \in Login, LoginStep(l) \/ UserServiceDies(l)
      PROVE  TableInv'
  BY <1>1 DEF LoginStep, InProgress, CheckStatus, AppendSession, AppendStatus, UserServiceDies,
     TypeOK, PushReachesItsUser, UsersOn, ClosingIsKnown, redisVars,
     tableVars, ghosts, Idle
<1>2. ASSUME NEW c \in Conn, Open(c)
      PROVE  TableInv'
  BY <1>2 DEF Open, TypeOK, PushReachesItsUser, UsersOn, ClosingIsKnown, redisVars,
     tableVars, ghosts, Idle
<1>3. ASSUME NEW c \in Conn, NEW l \in Login, OnMessage(c, l)
      PROVE  TableInv'
  BY <1>3, OnMessageTable
<1>4. ASSUME NEW c \in Conn, Break(c)
      PROVE  TableInv'
  BY <1>4 DEF Break, TypeOK, PushReachesItsUser, UsersOn, ClosingIsKnown, redisVars,
     tableVars, ghosts, Idle
<1>5. ASSUME NEW c \in Conn, OnClose(c)
      PROVE  TableInv'
  BY <1>5, OnCloseTable
<1>6. ASSUME NEW c \in Conn, RemoveStatus(c)
      PROVE  TableInv'
  BY <1>6 DEF RemoveStatus, TypeOK, PushReachesItsUser, UsersOn, ClosingIsKnown, tableVars,
     ghosts, Idle
<1>7. ASSUME NEW c \in Conn, RemoveConn(c)
      PROVE  TableInv'
  BY <1>7, RemoveConnTable
<1>8. CASE GatewayDies
  BY <1>8 DEF GatewayDies, TypeOK, PushReachesItsUser, UsersOn, ClosingIsKnown, redisVars, Idle
<1>9. CASE UNCHANGED vars
  BY <1>9 DEF vars, redisVars, tableVars, ghosts, TypeOK, PushReachesItsUser, UsersOn,
     ClosingIsKnown, Idle
<1> QED
  BY <1>1, <1>2, <1>3, <1>4, <1>5, <1>6, <1>7, <1>8, <1>9 DEF Next, CloseStep

(* Every behaviour of the login and connection handlers keeps the types of *)
(* its state.                                                              *)
THEOREM TypeCorrect == Spec => []TypeOK
<1>1. TableInv => TypeOK
  BY DEF TableInv
<1> QED
  BY <1>1, TableInit, TableStep, PTL DEF Spec

(* Whatever logins, authentications, closes and crashes overlap, the entry *)
(* a push finds for a user leads to a connection that user authenticated;  *)
(* and, unless the user authenticated on a connection of another, to one   *)
(* filed as the user's own that onClose has not finished with.             *)
THEOREM PushIsSafe == Spec => []PushReachesItsUser
<1>1. TableInv => PushReachesItsUser
  BY DEF TableInv
<1> QED
  BY <1>1, TableInit, TableStep, PTL DEF Spec

-----------------------------------------------------------------------------
(* What holds of one disciplined user u.                                   *)
CanUse(l, u) == l \in session /\ login[l] = "ok" /\ LoginUser[l] = u
Serves(c, u) == connClient[c] # None /\ LoginUser[connClient[c]] = u

OneAttempt(u) ==
  \A k, l \in Login :
    LoginUser[k] = u /\ LoginUser[l] = u /\ InProgress(k) /\ InProgress(l) => k = l

AttemptsExclude(u) ==
  \A k, l \in Login : LoginUser[k] = u /\ InProgress(k) => ~CanUse(l, u)

OneSession(u) ==
  \A k, l \in Login : CanUse(k, u) /\ CanUse(l, u) => k = l

StatusHeld(u) ==
  \A l \in Login : CanUse(l, u) => u \in status

(* A connection that is not being closed has a session that can be used,   *)
(* and it is the only one with that session.                               *)
ServedBySession(u) ==
  \A c \in Conn : Serves(c, u) /\ closing.conn # c => CanUse(connClient[c], u)

OneConnection(u) ==
  \A c, d \in Conn : Serves(c, u) /\ connClient[c] = connClient[d] => c = d

(* While onClose is about to remove the status key, no session and no      *)
(* login attempt of the user is there that the key would have to guard.    *)
ClosingIsQuiet(u) ==
  closing.step = "status" /\ Serves(closing.conn, u) =>
    /\ u \in status
    /\ \A l \in Login : ~CanUse(l, u) /\ ~(LoginUser[l] = u /\ InProgress(l))

(* ... and no other connection of the user.                                *)
ClosingIsAlone(u) ==
  closing # Idle /\ Serves(closing.conn, u) =>
    \A d \in Conn : Serves(d, u) => d = closing.conn

ServedIsReached(u) ==
  \A c \in Conn : Serves(c, u) => uidConn[u] # None

DisciplineOf(u) ==
  /\ OneAttempt(u) /\ AttemptsExclude(u) /\ OneSession(u) /\ StatusHeld(u)
  /\ ServedBySession(u) /\ OneConnection(u)
  /\ ClosingIsQuiet(u) /\ ClosingIsAlone(u) /\ ServedIsReached(u)

DisciplineInv == TableInv /\ \A u \in Disciplined : DisciplineOf(u)

LEMMA DisciplineInit == Init => DisciplineInv
<1> SUFFICES ASSUME Init, NEW u \in Disciplined
             PROVE  DisciplineOf(u)
  BY TableInit DEF DisciplineInv
<1>0. \A l \in Login : ~InProgress(l) /\ ~CanUse(l, u)
  BY DEF Init, InProgress, CanUse
<1>1. OneAttempt(u) /\ AttemptsExclude(u) /\ OneSession(u) /\ StatusHeld(u)
  BY <1>0 DEF OneAttempt, AttemptsExclude, OneSession, StatusHeld
<1> USE LoginAssumption DEF Init
<1>2. ServedBySession(u) /\ OneConnection(u) /\ ServedIsReached(u)
  BY DEF ServedBySession, OneConnection, ServedIsReached, Serves
<1>3. ClosingIsQuiet(u) /\ ClosingIsAlone(u)
  BY DEF ClosingIsQuiet, ClosingIsAlone, Idle
<1> QED
  BY <1>1, <1>2, <1>3 DEF DisciplineOf

(* Users who are disciplined and authenticate on no connection of another. *)
Steady == Disciplined \ mixed

(* The ghosts only grow: nobody becomes disciplined or steady.             *)
LEMMA GhostsGrow ==
  ASSUME TypeOK, [Next]_vars
  PROVE  /\ Disciplined' \subseteq Disciplined /\ Steady' \subseteq Steady
         /\ \A c \in Conn : UsersOn(c) \subseteq UsersOn(c)'
<1>1. ASSUME NEW l \in Login, LoginStep(l) \/ UserServiceDies(l)
      PROVE  /\ overlapped \subseteq overlapped'
             /\ shared' = shared /\ mixed' = mixed /\ authed' = authed
  BY <1>1 DEF LoginStep, CheckStatus, AppendSession, AppendStatus, UserServiceDies, ghosts
<1>2. ASSUME NEW c \in Conn, NEW l \in Login, OnMessage(c, l)
      PROVE  /\ overlapped' = overlapped /\ shared \subseteq shared' /\ mixed \subseteq mixed'
             /\ \A d \in Conn : authed[d] \subseteq authed'[d]
  BY <1>2 DEF OnMessage, TypeOK
<1>3. ASSUME NEW c \in Conn, Open(c) \/ Break(c) \/ CloseStep(c)
      PROVE  UNCHANGED <<overlapped, shared, mixed, authed>>
  BY <1>3 DEF Open, Break, CloseStep, OnClose, RemoveStatus, RemoveConn, ghosts
<1>4. ASSUME GatewayDies \/ UNCHANGED vars
      PROVE  UNCHANGED <<overlapped, shared, mixed, authed>>
  BY <1>4 DEF GatewayDies, vars, ghosts
<1>5. /\ overlapped \subseteq overlapped' /\ shared \subseteq shared' /\ mixed \subseteq mixed'
      /\ \A c \in Conn : authed[c] \subseteq authed'[c]
  BY <1>1, <1>2, <1>3, <1>4 DEF Next
<1> QED
  BY <1>5 DEF Disciplined, Steady, UsersOn

LEMMA CheckStatusDiscipline ==
  ASSUME TableInv, NEW u \in Disciplined', DisciplineOf(u), NEW l \in Login,
         CheckStatus(l)
  PROVE  DisciplineOf(u)'
<1> USE DEF DisciplineOf, CheckStatus, InProgress, redisVars, tableVars
<1>1. \A k \in Login : login'[k] = IF k = l THEN login'[l] ELSE login[k]
  BY DEF TableInv, TypeOK
<1>2. login'[l] # "ok" /\ login[l] = "new"
  BY DEF TableInv, TypeOK
<1>3. \A k \in Login : CanUse(k, u)' <=> CanUse(k, u)
  BY <1>1, <1>2 DEF CanUse
<1>4. ASSUME InProgress(l)', LoginUser[l] = u
      PROVE  u \notin status /\ \A k \in Login : ~(LoginUser[k] = u /\ InProgress(k))
  BY <1>4, <1>2 DEF TableInv, TypeOK, Disciplined
<1>5. OneAttempt(u)'
  BY <1>1, <1>4 DEF OneAttempt
<1>6. AttemptsExclude(u)'
  BY <1>1, <1>3, <1>4 DEF AttemptsExclude, StatusHeld
<1>7. OneSession(u)' /\ StatusHeld(u)'
  BY <1>3 DEF OneSession, StatusHeld
<1>8. ServedBySession(u)'
  BY <1>3 DEF ServedBySession, Serves, TableInv, TypeOK
<1>9. OneConnection(u)' /\ ClosingIsAlone(u)' /\ ServedIsReached(u)'
  BY DEF OneConnection, ClosingIsAlone, ServedIsReached, Serves
<1>10. ClosingIsQuiet(u)'
  BY <1>1, <1>3, <1>4 DEF ClosingIsQuiet, Serves
<1> QED
  BY <1>5, <1>6, <1>7, <1>8, <1>9, <1>10

LEMMA AppendSessionDiscipline ==
  ASSUME TableInv, NEW u \in User, DisciplineOf(u), NEW l \in Login,
         AppendSession(l) \/ UserServiceDies(l)
  PROVE  DisciplineOf(u)'
<1> USE DEF AppendSession, UserServiceDies, TableInv, TypeOK
<1>1. \A k \in Login : InProgress(k)' => InProgress(k)
  BY DEF InProgress
<1>2. \A k \in Login : CanUse(k, u)' <=> CanUse(k, u)
  BY DEF CanUse, InProgress, redisVars
<1>3. status' = status /\ UNCHANGED <<conn, uidConn, connClient, closing>>
  BY DEF redisVars, tableVars
<1> HIDE DEF AppendSession, UserServiceDies, TableInv, TypeOK
<1>4. OneAttempt(u)' /\ AttemptsExclude(u)' /\ OneSession(u)' /\ StatusHeld(u)'
  BY <1>1, <1>2, <1>3 DEF DisciplineOf, OneAttempt, AttemptsExclude, OneSession, StatusHeld
<1>5. ServedBySession(u)' /\ OneConnection(u)' /\ ServedIsReached(u)'
  BY <1>2, <1>3 DEF DisciplineOf, ServedBySession, OneConnection, ServedIsReached,
     Serves, TableInv, TypeOK
<1>6. ClosingIsQuiet(u)' /\ ClosingIsAlone(u)'
  BY <1>1, <1>2, <1>3 DEF DisciplineOf, ClosingIsQuiet, ClosingIsAlone, Serves
<1> QED
  BY <1>4, <1>5, <1>6 DEF DisciplineOf

LEMMA AppendStatusDiscipline ==
  ASSUME TableInv, NEW u \in User, DisciplineOf(u), NEW l \in Login,
         AppendStatus(l)
  PROVE  DisciplineOf(u)'
<1> USE LoginAssumption
<1>1. /\ InProgress(l) /\ ~InProgress(l)'
      /\ \A k \in Login \ {l} : login'[k] = login[k]
  BY DEF AppendStatus, TableInv, TypeOK, InProgress
<1>2. /\ session' = session /\ status \subseteq status' /\ LoginUser[l] \in status'
      /\ UNCHANGED <<conn, uidConn, connClient, closing>>
  BY DEF AppendStatus, tableVars
<1>3. \A k \in Login : InProgress(k)' => InProgress(k) /\ k # l
  BY <1>1 DEF InProgress
<1>4. \A k \in Login : CanUse(k, u) => CanUse(k, u)'
  BY <1>1, <1>2 DEF CanUse, InProgress
<1>5. \A k \in Login : CanUse(k, u)' => CanUse(k, u) \/ (k = l /\ LoginUser[l] = u)
  BY <1>1, <1>2 DEF CanUse
<1>6. LoginUser[l] = u => \A k \in Login : ~CanUse(k, u)
  BY <1>1 DEF DisciplineOf, AttemptsExclude
<1>7. OneAttempt(u)' /\ AttemptsExclude(u)'
  BY <1>1, <1>3, <1>5 DEF DisciplineOf, OneAttempt, AttemptsExclude
<1>8. OneSession(u)' /\ StatusHeld(u)'
  BY <1>2, <1>5, <1>6 DEF DisciplineOf, OneSession, StatusHeld
<1>9. ServedBySession(u)' /\ OneConnection(u)' /\ ServedIsReached(u)'
  BY <1>2, <1>4 DEF DisciplineOf, ServedBySession, OneConnection, ServedIsReached,
     Serves, TableInv, TypeOK
<1>10. ClosingIsQuiet(u)' /\ ClosingIsAlone(u)'
  BY <1>1, <1>2, <1>3, <1>5 DEF DisciplineOf, ClosingIsQuiet, ClosingIsAlone, Serves
<1> QED
  BY <1>7, <1>8, <1>9, <1>10 DEF DisciplineOf

(* Steps that leave the login attempts and Redis alone.                    *)
LEMMA SameLogins ==
  ASSUME NEW u \in User, DisciplineOf(u), UNCHANGED <<login, session, status>>
  PROVE  /\ \A l \in Login : CanUse(l, u)' <=> CanUse(l, u)
         /\ \A l \in Login : InProgress(l)' <=> InProgress(l)
         /\ OneAttempt(u)' /\ AttemptsExclude(u)' /\ OneSession(u)' /\ StatusHeld(u)'
<1>1. \A l \in Login : CanUse(l, u)' <=> CanUse(l, u)
  BY DEF CanUse
<1>2. \A l \in Login : InProgress(l)' <=> InProgress(l)
  BY DEF InProgress
<1> QED
  BY <1>1, <1>2 DEF DisciplineOf, OneAttempt, AttemptsExclude, OneSession, StatusHeld

LEMMA NoneIsNoConn == Idle.conn \notin Conn
  BY LoginAssumption DEF Idle

LEMMA OnMessageDiscipline ==
  ASSUME TableInv, NEW u \in Disciplined', DisciplineOf(u), NEW c \in Conn,
         NEW l \in Login, OnMessage(c, l)
  PROVE  DisciplineOf(u)'
<1> USE LoginAssumption
<1>1. /\ UNCHANGED <<login, session, status>>
      /\ closing = Idle /\ closing' = Idle
      /\ shared' = shared \cup {LoginUser[connClient[d]] :
                               d \in {d \in Conn \ {c} : connClient[d] = l}}
  BY DEF OnMessage, redisVars
<1>2. u \in User /\ u \notin shared'
  BY DEF Disciplined
<1>3. \A d \in Conn \ {c} : connClient[d] = l => LoginUser[l] # u
  BY <1>1, <1>2
<1>4. /\ OneAttempt(u)' /\ AttemptsExclude(u)' /\ OneSession(u)' /\ StatusHeld(u)'
      /\ \A k \in Login : CanUse(k, u)' <=> CanUse(k, u)
  BY <1>1, <1>2, SameLogins
<1>5. ClosingIsQuiet(u)' /\ ClosingIsAlone(u)'
  BY <1>1 DEF ClosingIsQuiet, ClosingIsAlone, Idle
<1>6. CASE UNCHANGED tableVars
  BY <1>1, <1>4, <1>5, <1>6 DEF DisciplineOf, ServedBySession, OneConnection,
     ServedIsReached, Serves, TableInv, TypeOK, tableVars
<1>7. CASE l \in session /\ Insert(c, l)
  <2>1. /\ connClient' = [connClient EXCEPT ![c] = IF @ = None THEN l ELSE @]
        /\ uidConn' = [uidConn EXCEPT ![LoginUser[l]] = IF @ = None THEN c ELSE @]
        /\ login[l] = "ok"
    BY <1>7 DEF Insert, OnMessage
  <2>2. \A d \in Conn : Serves(d, u)' =>
          \/ Serves(d, u) /\ connClient'[d] = connClient[d]
          \/ d = c /\ connClient[c] = None /\ connClient'[c] = l /\ LoginUser[l] = u
    <3>1. ASSUME NEW d \in Conn, d # c
          PROVE  connClient'[d] = connClient[d]
      BY <2>1, <3>1 DEF TableInv, TypeOK
    <3>2. connClient'[c] = IF connClient[c] = None THEN l ELSE connClient[c]
      BY <2>1 DEF TableInv, TypeOK
    <3> QED
      BY <3>1, <3>2 DEF Serves
  <2>3. LoginUser[l] = u => CanUse(l, u)
    BY <1>7, <2>1 DEF CanUse
  <2>4. ServedBySession(u)'
    BY <1>1, <1>4, <2>2, <2>3 DEF DisciplineOf, ServedBySession, Serves, Idle, TableInv, TypeOK
  <2>5. OneConnection(u)'
    BY <1>3, <2>1, <2>2 DEF DisciplineOf, OneConnection, Serves, TableInv, TypeOK
  <2>6. ServedIsReached(u)'
    BY <2>1, <2>2 DEF DisciplineOf, ServedIsReached, TableInv, TypeOK
  <2> QED
    BY <1>4, <1>5, <2>4, <2>5, <2>6 DEF DisciplineOf
<1> QED
  BY <1>6, <1>7 DEF OnMessage

LEMMA OnCloseDiscipline ==
  ASSUME TableInv, NEW u \in User, DisciplineOf(u), NEW c \in Conn, OnClose(c)
  PROVE  DisciplineOf(u)'
<1> USE LoginAssumption
<1>1. UNCHANGED <<login, status, uidConn, connClient>> /\ closing = Idle
  BY DEF OnClose, tableVars
<1>2. CASE connClient[c] = None
  <2>1. UNCHANGED <<session, closing>>
    BY <1>2 DEF OnClose
  <2> QED
    BY <1>1, <2>1, SameLogins DEF DisciplineOf, ServedBySession, OneConnection,
       ServedIsReached, ClosingIsQuiet, ClosingIsAlone, Serves, Idle, TableInv, TypeOK
<1>3. CASE connClient[c] # None
  <2>1. /\ session' = session \ {connClient[c]}
        /\ closing' = [conn |-> c, step |-> "status"]
        /\ connClient[c] \in Login
    BY <1>3 DEF OnClose, TableInv, TypeOK
  <2>2. \A l \in Login : CanUse(l, u)' <=> CanUse(l, u) /\ l # connClient[c]
    BY <1>1, <2>1 DEF CanUse
  <2>3. \A l \in Login : InProgress(l)' <=> InProgress(l)
    BY <1>1 DEF InProgress
  <2>4. OneAttempt(u)' /\ AttemptsExclude(u)' /\ OneSession(u)' /\ StatusHeld(u)'
    BY <1>1, <2>2, <2>3 DEF DisciplineOf, OneAttempt, AttemptsExclude, OneSession, StatusHeld
  <2>5. \A d \in Conn : Serves(d, u)' <=> Serves(d, u)
    BY <1>1 DEF Serves
  <2>6. \A d \in Conn : Serves(d, u) => CanUse(connClient[d], u) /\ connClient[d] \in Login
    BY <1>1, NoneIsNoConn DEF DisciplineOf, ServedBySession, Idle, Serves, TableInv, TypeOK
  <2>7. ASSUME Serves(c, u)
        PROVE  \A d \in Conn : Serves(d, u) => d = c
    BY <2>6, <2>7 DEF DisciplineOf, OneSession, OneConnection
  <2>8. ServedBySession(u)'
    <3> SUFFICES ASSUME NEW d \in Conn, Serves(d, u), d # c
                 PROVE  CanUse(connClient[d], u)'
      BY <1>1, <2>1, <2>5 DEF ServedBySession
    <3>1. connClient[d] # connClient[c]
      BY DEF DisciplineOf, OneConnection
    <3>2. connClient' = connClient
      BY <1>1
    <3> QED
      BY <2>2, <2>6, <3>1, <3>2
  <2>9. OneConnection(u)' /\ ServedIsReached(u)'
    BY <1>1, <2>5 DEF DisciplineOf, OneConnection, ServedIsReached
  <2>10. ClosingIsAlone(u)'
    BY <1>1, <2>1, <2>5, <2>7 DEF ClosingIsAlone
  <2>11. ASSUME Serves(c, u)
         PROVE  /\ u \in status
                /\ \A l \in Login : CanUse(l, u) => l = connClient[c]
                /\ \A l \in Login : ~(LoginUser[l] = u /\ InProgress(l))
    BY <2>6, <2>11 DEF DisciplineOf, StatusHeld, OneSession, AttemptsExclude
  <2>12. ClosingIsQuiet(u)'
    BY <1>1, <2>1, <2>2, <2>3, <2>5, <2>11 DEF ClosingIsQuiet
  <2> QED
    BY <2>4, <2>8, <2>9, <2>10, <2>12 DEF DisciplineOf
<1> QED
  BY <1>2, <1>3

LEMMA RemoveStatusDiscipline ==
  ASSUME TableInv, NEW u \in User, DisciplineOf(u), NEW c \in Conn,
         RemoveStatus(c)
  PROVE  DisciplineOf(u)'
<1> USE LoginAssumption
<1>1. /\ UNCHANGED <<login, session, conn, uidConn, connClient>>
      /\ closing = [conn |-> c, step |-> "status"]
      /\ closing' = [conn |-> c, step |-> "remove"]
      /\ status' = status \ {LoginUser[connClient[c]]}
  BY DEF RemoveStatus, tableVars
<1>2. \A l \in Login : (CanUse(l, u)' <=> CanUse(l, u)) /\ (InProgress(l)' <=> InProgress(l))
  BY <1>1 DEF CanUse, InProgress
<1>3. \A d \in Conn : Serves(d, u)' <=> Serves(d, u)
  BY <1>1 DEF Serves
<1>4. connClient[c] # None
  BY <1>1 DEF TableInv, ClosingIsKnown, Idle
<1>5. OneAttempt(u)' /\ AttemptsExclude(u)' /\ OneSession(u)'
  BY <1>2 DEF DisciplineOf, OneAttempt, AttemptsExclude, OneSession
<1>6. StatusHeld(u)'
  <2>1. CASE LoginUser[connClient[c]] = u
    BY <1>1, <1>2, <1>4, <2>1 DEF DisciplineOf, ClosingIsQuiet, Serves, StatusHeld
  <2>2. CASE LoginUser[connClient[c]] # u
    BY <1>1, <1>2, <2>2 DEF DisciplineOf, StatusHeld
  <2> QED
    BY <2>1, <2>2
<1>7. ServedBySession(u)'
  BY <1>1, <1>2, <1>3 DEF DisciplineOf, ServedBySession, TableInv, TypeOK, Serves
<1>8. OneConnection(u)' /\ ServedIsReached(u)'
  BY <1>1, <1>3 DEF DisciplineOf, OneConnection, ServedIsReached
<1>9. ClosingIsQuiet(u)' /\ ClosingIsAlone(u)'
  BY <1>1, <1>3 DEF DisciplineOf, ClosingIsQuiet, ClosingIsAlone, Idle
<1> QED
  BY <1>5, <1>6, <1>7, <1>8, <1>9 DEF DisciplineOf

LEMMA RemoveConnDiscipline ==
  ASSUME TableInv, NEW u \in User, DisciplineOf(u), NEW c \in Conn,
         RemoveConn(c)
  PROVE  DisciplineOf(u)'
<1> USE LoginAssumption
<1>1. /\ UNCHANGED <<login, session, status>>
      /\ closing = [conn |-> c, step |-> "remove"] /\ closing' = Idle
      /\ uidConn' = [uidConn EXCEPT ![LoginUser[connClient[c]]] = None]
      /\ connClient' = [connClient EXCEPT ![c] = None]
  BY DEF RemoveConn, redisVars
<1>2. /\ OneAttempt(u)' /\ AttemptsExclude(u)' /\ OneSession(u)' /\ StatusHeld(u)'
      /\ \A l \in Login : CanUse(l, u)' <=> CanUse(l, u)
  BY <1>1, SameLogins
<1>3. connClient[c] \in Login
  BY <1>1 DEF TableInv, TypeOK, ClosingIsKnown, Idle
<1>4. \A d \in Conn : Serves(d, u)' =>
        Serves(d, u) /\ d # c /\ connClient'[d] = connClient[d]
  BY <1>1 DEF Serves, TableInv, TypeOK
<1>5. ServedBySession(u)'
  BY <1>1, <1>2, <1>4 DEF DisciplineOf, ServedBySession, Serves, TableInv, TypeOK
<1>6. OneConnection(u)'
  BY <1>1, <1>4 DEF DisciplineOf, OneConnection, Serves, TableInv, TypeOK
<1>7. ServedIsReached(u)'
  <2>1. ASSUME NEW d \in Conn, Serves(d, u)'
        PROVE  LoginUser[connClient[c]] # u
    BY <1>1, <1>3, <1>4, <2>1 DEF DisciplineOf, ClosingIsAlone, Serves, Idle
  <2> QED
    BY <1>1, <1>4, <2>1 DEF DisciplineOf, ServedIsReached, TableInv, TypeOK
<1>8. ClosingIsQuiet(u)' /\ ClosingIsAlone(u)'
  BY <1>1 DEF ClosingIsQuiet, ClosingIsAlone, Idle
<1> QED
  BY <1>2, <1>5, <1>6, <1>7, <1>8 DEF DisciplineOf

LEMMA GatewayDiesDiscipline ==
  ASSUME NEW u \in User, DisciplineOf(u), GatewayDies
  PROVE  DisciplineOf(u)'
<1>1. /\ UNCHANGED <<login, session, status>>
      /\ closing' = Idle
      /\ connClient' = [c \in Conn |-> None]
  BY DEF GatewayDies, redisVars
<1>2. OneAttempt(u)' /\ AttemptsExclude(u)' /\ OneSession(u)' /\ StatusHeld(u)'
  BY <1>1, SameLogins
<1>3. ServedBySession(u)' /\ OneConnection(u)' /\ ServedIsReached(u)'
  BY <1>1 DEF ServedBySession, OneConnection, ServedIsReached, Serves
<1>4. ClosingIsQuiet(u)' /\ ClosingIsAlone(u)'
  BY <1>1 DEF ClosingIsQuiet, ClosingIsAlone, Idle
<1> QED
  BY <1>2, <1>3, <1>4 DEF DisciplineOf

LEMMA OtherDiscipline ==
  ASSUME TableInv, NEW u \in User, DisciplineOf(u),
         UNCHANGED <<login, session, status, uidConn, connClient, closing>>
  PROVE  DisciplineOf(u)'
<1>1. /\ OneAttempt(u)' /\ AttemptsExclude(u)' /\ OneSession(u)' /\ StatusHeld(u)'
      /\ \A l \in Login : CanUse(l, u)' <=> CanUse(l, u)
      /\ \A l \in Login : InProgress(l)' <=> InProgress(l)
  BY SameLogins
<1>2. ServedBySession(u)' /\ OneConnection(u)' /\ ServedIsReached(u)'
  BY <1>1 DEF DisciplineOf, ServedBySession, OneConnection, ServedIsReached, Serves,
     TableInv, TypeOK
<1>3. ClosingIsQuiet(u)' /\ ClosingIsAlone(u)'
  BY <1>1 DEF DisciplineOf, ClosingIsQuiet, ClosingIsAlone, Serves
<1> QED
  BY <1>1, <1>2, <1>3 DEF DisciplineOf

LEMMA DisciplineStep == DisciplineInv /\ [Next]_vars => DisciplineInv'
<1> SUFFICES ASSUME DisciplineInv, [Next]_vars, NEW u \in Disciplined'
             PROVE  DisciplineOf(u)'
  BY TableStep DEF DisciplineInv
<1>0. TableInv /\ u \in User /\ DisciplineOf(u)
  BY GhostsGrow DEF DisciplineInv, TableInv, Disciplined
<1>1. ASSUME NEW l \in Login, LoginStep(l) \/ UserServiceDies(l)
      PROVE  DisciplineOf(u)'
  BY <1>0, <1>1, CheckStatusDiscipline, AppendSessionDiscipline, AppendStatusDiscipline
     DEF LoginStep
<1>2. ASSUME NEW c \in Conn, NEW l \in Login, OnMessage(c, l)
      PROVE  DisciplineOf(u)'
  BY <1>0, <1>2, OnMessageDiscipline
<1>3. ASSUME NEW c \in Conn, CloseStep(c)
      PROVE  DisciplineOf(u)'
  BY <1>0, <1>3, OnCloseDiscipline, RemoveStatusDiscipline, RemoveConnDiscipline
     DEF CloseStep
<1>4. CASE GatewayDies
  BY <1>0, <1>4, GatewayDiesDiscipline
<1>5. ASSUME (\E c \in Conn : Open(c) \/ Break(c)) \/ UNCHANGED vars
      PROVE  DisciplineOf(u)'
  <2>1. UNCHANGED <<login, session, status, uidConn, connClient, closing>>
    BY <1>5 DEF Open, Break, vars, redisVars, tableVars
  <2> QED
    BY <1>0, <2>1, OtherDiscipline
<1> QED
  BY <1>1, <1>2, <1>3, <1>4, <1>5 DEF Next

(* The status key guards a disciplined user's session through every        *)
(* interleaving of login, close and crash.  (UserLogin, onClose)           *)
THEOREM StatusGuards == Spec => []StatusGuardsSession
<1>1. DisciplineInv => StatusGuardsSession
  BY DEF DisciplineInv, DisciplineOf, StatusHeld, StatusGuardsSession, Usable, CanUse,
     TableInv, TypeOK
<1> QED
  BY <1>1, DisciplineInit, DisciplineStep, PTL DEF Spec

(* A disciplined user has one usable session at most.  (UserLogin)         *)
THEOREM LoginIsSingle == Spec => []OneLoginEach
<1>1. ASSUME DisciplineInv, NEW u \in Disciplined
      PROVE  Cardinality(Usable(u)) <= 1
  <2>1. \A k, l \in Usable(u) : k = l
    BY <1>1 DEF DisciplineInv, DisciplineOf, OneSession, Usable, CanUse, TableInv, TypeOK
  <2>2. CASE Usable(u) = {}
    BY <2>2, FS_EmptySet
  <2>3. CASE Usable(u) # {}
    <3>1. PICK k \in Usable(u) : TRUE
      BY <2>3
    <3>2. Usable(u) = {k}
      BY <2>1, <3>1
    <3> QED
      BY <3>2, FS_Singleton
  <2> QED
    BY <2>2, <2>3
<1>2. DisciplineInv => OneLoginEach
  BY <1>1 DEF OneLoginEach
<1> QED
  BY <1>2, DisciplineInit, DisciplineStep, PTL DEF Spec

(* A disciplined user has one connection at most in _conn_clients.         *)
LEMMA OneServes ==
  ASSUME DisciplineInv, NEW u \in Disciplined, NEW c \in Conn, NEW d \in Conn,
         Serves(c, u), Serves(d, u)
  PROVE  c = d
<1>1. DisciplineOf(u)
  BY DEF DisciplineInv
<1>2. CASE closing.conn \in {c, d}
  <2>1. closing # Idle
    BY <1>2, NoneIsNoConn
  <2> QED
    BY <1>1, <1>2, <2>1 DEF DisciplineOf, ClosingIsAlone
<1>3. CASE closing.conn \notin {c, d}
  <2>1. CanUse(connClient[c], u) /\ CanUse(connClient[d], u)
    BY <1>1, <1>3 DEF DisciplineOf, ServedBySession
  <2>2. connClient[c] \in Login /\ connClient[d] \in Login
    BY DEF Serves, DisciplineInv, TableInv, TypeOK
  <2>3. connClient[c] = connClient[d]
    BY <1>1, <2>1, <2>2 DEF DisciplineOf, OneSession
  <2> QED
    BY <1>1, <2>3 DEF DisciplineOf, OneConnection
<1> QED
  BY <1>2, <1>3

LEMMA SteadyIsFound ==
  ASSUME DisciplineInv, NEW u \in Steady, NEW c \in Conn, Serves(c, u)
  PROVE  uidConn[u] = c
<1>1. u \in Disciplined /\ u \in User /\ u \notin mixed
  BY DEF Steady, Disciplined
<1>2. uidConn[u] # None
  BY <1>1 DEF DisciplineInv, DisciplineOf, ServedIsReached
<1>3. uidConn[u] \in Conn /\ Serves(uidConn[u], u)
  BY <1>1, <1>2 DEF DisciplineInv, TableInv, TypeOK, PushReachesItsUser, Serves
<1> QED
  BY <1>1, <1>3, OneServes

(* A disciplined user who authenticated on no connection of another is     *)
(* reached on the connection that is the user's own.                       *)
(* (onMessage, onClose, Connection)                                        *)
THEOREM ConnectionIsReached == Spec => []DisciplinedIsReached
<1>1. DisciplineInv => DisciplinedIsReached
  BY SteadyIsFound DEF Steady, Serves, DisciplinedIsReached
<1> QED
  BY <1>1, DisciplineInit, DisciplineStep, PTL DEF Spec

-----------------------------------------------------------------------------
LEMMA GatewayStepIsSessionStep == GatewayNext => [Next]_vars
<1> SUFFICES ASSUME GatewayNext
             PROVE  [Next]_vars
  OBVIOUS
<1>1. ASSUME NEW r \in Request, NEW a \in Asks, Accept(r, a)
      PROVE  UNCHANGED vars
  BY <1>1 DEF Accept
<1>2. ASSUME NEW r \in Request, Handle(r)
      PROVE  UNCHANGED vars \/ GatewayDies
  BY <1>2 DEF Handle, Call, FindConnection, AskUserInfo, TellUser, Respond, TellOfNobody
<1>3. CASE SessionStep
  BY <1>3 DEF SessionStep, Next
<1>4. CASE Crash
  BY <1>4 DEF Crash, Next
<1> QED
  BY <1>1, <1>2, <1>3, <1>4 DEF GatewayNext, Next

LEMMA GatewayUnchanged == UNCHANGED gatewayVars => UNCHANGED vars
BY DEF gatewayVars

-----------------------------------------------------------------------------
(* What a connection that was open keeps: the steps of LoginSession open   *)
(* no connection twice, and file none under another client.                *)
LEMMA OpenStays ==
  ASSUME TableInv, [Next]_vars, NEW c \in Conn, conn[c] # "none"
  PROVE  /\ conn'[c] # "none"
         /\ conn'[c] = "open" =>
              /\ conn[c] = "open"
              /\ connClient[c] # None => connClient'[c] = connClient[c]
<1> USE LoginAssumption DEF TableInv, TypeOK
<1>1. ASSUME NEW l \in Login, LoginStep(l) \/ UserServiceDies(l)
      PROVE  UNCHANGED <<conn, connClient>>
  BY <1>1 DEF LoginStep, CheckStatus, AppendSession, AppendStatus, UserServiceDies, tableVars
<1>2. ASSUME NEW d \in Conn, Open(d) \/ Break(d)
      PROVE  /\ connClient' = connClient
             /\ \A e \in Conn \ {d} : conn'[e] = conn[e]
             /\ conn'[d] = "open" => conn[d] = "none"
             /\ conn'[d] # "none"
  BY <1>2 DEF Open, Break, tableVars
<1>3. ASSUME NEW d \in Conn, NEW l \in Login, OnMessage(d, l)
      PROVE  /\ \A e \in Conn : conn'[e] = "open" => conn[e] = "open"
             /\ \A e \in Conn : conn[e] # "none" => conn'[e] # "none"
             /\ \A e \in Conn : connClient[e] # None => connClient'[e] = connClient[e]
  BY <1>3 DEF OnMessage, Insert, tableVars
<1>4. ASSUME NEW d \in Conn, CloseStep(d)
      PROVE  /\ \A e \in Conn :
                  conn'[e] = "open" => conn[e] = "open" /\ connClient'[e] = connClient[e]
             /\ \A e \in Conn : conn[e] # "none" => conn'[e] # "none"
  BY <1>4 DEF CloseStep, OnClose, RemoveStatus, RemoveConn, tableVars
<1>5. CASE GatewayDies
  BY <1>5 DEF GatewayDies
<1>6. CASE UNCHANGED vars
  BY <1>6 DEF vars, tableVars
<1> QED
  BY <1>1, <1>2, <1>3, <1>4, <1>5, <1>6 DEF Next

-----------------------------------------------------------------------------
(* The scripts.                                                            *)
StepOf ==
  [do : {"find"}, user : User]
    \cup [do : {"ask"}, user : User, for : User \cup {None}, checked : BOOLEAN]
    \cup [do : {"tell"}, user : User, type : Types, about : User \cup {None}]

Notice(s) == [user |-> s.user, type |-> s.type]
Sent(c, n) == [conn |-> c, type |-> n.type]

LEMMA HandlerKinds ==
  /\ \A h \in Served : h.event = "apply" => h = FriendAdd
  /\ \A h \in Served : h.event = "process" => h = FriendAddProcess
  /\ \A h \in Served : h.event = "remove" => h = FriendRemove
  /\ \A h \in Served : h.event = "create" => h = ChatSessionCreate
<1> USE DEF FriendAdd, FriendAddProcess, FriendRemove, ChatSessionCreate, OpenForward,
       Forward, Notifying
<1>1. \A h \in Handlers : \/ h.event = "none" \/ h = FriendAdd \/ h = FriendAddProcess
                          \/ h = FriendRemove \/ h = ChatSessionCreate
  BY DEF Handlers, GetPhoneVerifyCode, UserRegister, UserLogin, PhoneRegister, PhoneLogin,
     GetUserInfo, SetUserAvatar, SetUserNickname, SetUserDescription, SetUserPhoneNumber,
     GetFriendList, FriendSearch, GetPendingFriendEventList, GetChatSessionList,
     GetChatSessionMember, GetHistoryMsg, GetRecentMsg, MsgSearch, GetSingleFile,
     GetMultiFile, PutSingleFile, PutMultiFile, SpeechRecognition
<1> QED
  BY <1>1, ServedAssumption

(* What a script s for the notices ns is: it tells nothing but them, each  *)
(* after its user's connection has been looked up, and checks no data when *)
(* it has told somebody.                                                   *)
GoodScript(s, ns) ==
  /\ s \in Seq(StepOf)
  /\ \A k \in 1..Len(s) : s[k].do = "tell" => Notice(s[k]) \in ns
  /\ \A n \in ns : \E k \in 1..Len(s) :
       /\ s[k].do = "tell" /\ Notice(s[k]) = n
       /\ \E j \in 1..(k - 1) : s[j] = Find(n.user)
  /\ \A k \in 1..Len(s) : \A j \in 1..(k - 1) :
       s[k].do = "ask" /\ s[k].checked => s[j].do # "tell"

LEMMA ScriptSteps ==
  ASSUME NEW f \in [Request -> Seq(StepOf)]
  PROVE  \A r \in Request : \A k \in DOMAIN f[r] : f[r][k].do \in {"find", "ask", "tell"}
<1> SUFFICES ASSUME NEW r \in Request, NEW k \in DOMAIN f[r]
             PROVE  f[r][k].do \in {"find", "ask", "tell"}
  OBVIOUS
<1>1. f[r][k] \in StepOf
  OBVIOUS
<1> QED
  BY <1>1 DEF StepOf

LEMMA FriendAddIsGood ==
  ASSUME NEW u \in User, NEW p \in User
  PROVE  GoodScript(FriendAddScript(u, p), [user : {p}, type : {"FRIEND_ADD_APPLY"}])
BY DEF GoodScript, FriendAddScript, Find, Ask, Tell, StepOf, Notice, Types

LEMMA FriendRemoveIsGood ==
  ASSUME NEW p \in User
  PROVE  GoodScript(FriendRemoveScript(p), [user : {p}, type : {"FRIEND_REMOVE"}])
BY DEF GoodScript, FriendRemoveScript, Find, Ask, Tell, StepOf, Notice, Types

LEMMA FriendAddProcessIsGood ==
  ASSUME NEW u \in User, NEW p \in User, NEW agree \in BOOLEAN
  PROVE  GoodScript(FriendAddProcessScript(u, p, agree),
           [user : {p}, type : {"FRIEND_ADD_PROCESS"}]
             \cup IF agree THEN [user : {p, u}, type : {"CHAT_SESSION_CREATE"}] ELSE {})
<1>1. CASE agree
  <2> DEFINE a == <<Ask(u, None, TRUE), Ask(p, None, FALSE), Find(u), Find(p),
                    Tell(p, "FRIEND_ADD_PROCESS", u)>>
             b == <<Tell(p, "CHAT_SESSION_CREATE", u), Tell(u, "CHAT_SESSION_CREATE", p)>>
             s == a \o b
             ns == [user : {p}, type : {"FRIEND_ADD_PROCESS"}]
                     \cup [user : {p, u}, type : {"CHAT_SESSION_CREATE"}]
  <2>1. FriendAddProcessScript(u, p, agree) = s
    BY <1>1, Zenon DEF FriendAddProcessScript
  <2>10. a \in Seq(StepOf) /\ Len(a) = 5 /\ b \in Seq(StepOf) /\ Len(b) = 2
    BY DEF Find, Ask, Tell, StepOf, Types
  <2>20. /\ a[1] = Ask(u, None, TRUE) /\ a[2] = Ask(p, None, FALSE)
        /\ a[3] = Find(u) /\ a[4] = Find(p) /\ a[5] = Tell(p, "FRIEND_ADD_PROCESS", u)
        /\ b[1] = Tell(p, "CHAT_SESSION_CREATE", u) /\ b[2] = Tell(u, "CHAT_SESSION_CREATE", p)
    OBVIOUS
  <2> HIDE DEF a, b
  <2>2. /\ s \in Seq(StepOf) /\ Len(s) = 7
        /\ \A k \in 1..7 : s[k] = IF k <= 5 THEN a[k] ELSE b[k - 5]
    <3>1. /\ s \in Seq(StepOf) /\ Len(s) = Len(a) + Len(b)
          /\ \A k \in 1..(Len(a) + Len(b)) :
               s[k] = IF k <= Len(a) THEN a[k] ELSE b[k - Len(a)]
      BY <2>10, ConcatProperties
    <3>2. Len(a) + Len(b) = 7 /\ Len(a) = 5
      BY <2>10
    <3> QED
      BY <3>1, <3>2
  <2> HIDE DEF s
  <2>30. /\ s[1] = a[1] /\ s[2] = a[2] /\ s[3] = a[3] /\ s[4] = a[4] /\ s[5] = a[5]
         /\ s[6] = b[1] /\ s[7] = b[2]
    <3>1. \A k \in 1..5 : k \in 1..7 /\ k <= 5
      OBVIOUS
    <3>2. 6 \in 1..7 /\ 7 \in 1..7 /\ ~(6 <= 5) /\ ~(7 <= 5) /\ 6 - 5 = 1 /\ 7 - 5 = 2
      OBVIOUS
    <3> QED
      BY <2>2, <3>1, <3>2
  <2>40. /\ s[1] = Ask(u, None, TRUE) /\ s[2] = Ask(p, None, FALSE)
         /\ s[3] = Find(u) /\ s[4] = Find(p) /\ s[5] = Tell(p, "FRIEND_ADD_PROCESS", u)
         /\ s[6] = Tell(p, "CHAT_SESSION_CREATE", u) /\ s[7] = Tell(u, "CHAT_SESSION_CREATE", p)
    BY <2>20, <2>30, Zenon
  <2>3. \A k \in 1..7 : s[k].do = "tell" => k \in 5..7 /\ Notice(s[k]) \in ns
    BY <2>40 DEF Find, Ask, Tell, Notice
  <2>4. \A k \in 1..7 : s[k].do = "ask" => k \in 1..2
    BY <2>40 DEF Find, Ask, Tell
  <2>5. /\ s[3] = Find(u) /\ s[4] = Find(p)
        /\ \A k \in 5..7 : s[k].do = "tell"
        /\ Notice(s[5]) = [user |-> p, type |-> "FRIEND_ADD_PROCESS"]
        /\ Notice(s[6]) = [user |-> p, type |-> "CHAT_SESSION_CREATE"]
        /\ Notice(s[7]) = [user |-> u, type |-> "CHAT_SESSION_CREATE"]
    BY <2>40 DEF Tell, Notice
  <2>6. \A n \in ns : \E k \in 5..7 : Notice(s[k]) = n /\ n.user \in {u, p}
    BY <2>5
  <2>7. ASSUME NEW n \in ns
        PROVE  \E k \in 1..7 : /\ s[k].do = "tell" /\ Notice(s[k]) = n
                               /\ \E j \in 1..(k - 1) : s[j] = Find(n.user)
    <3>1. PICK k \in 5..7 : Notice(s[k]) = n /\ n.user \in {u, p}
      BY <2>6
    <3>2. k \in 1..7 /\ 3 \in 1..(k - 1) /\ 4 \in 1..(k - 1)
      OBVIOUS
    <3> QED
      BY <2>5, <3>1, <3>2
  <2> HIDE DEF ns
  <2>8. GoodScript(s, ns)
    BY <2>2, <2>3, <2>4, <2>7 DEF GoodScript
  <2> QED
    BY <1>1, <2>1, <2>8 DEF ns
<1>2. CASE ~agree
  BY <1>2 DEF GoodScript, FriendAddProcessScript, Find, Ask, Tell, StepOf, Notice, Types
<1> QED
  BY <1>1, <1>2

LEMMA ChatSessionCreateIsGood ==
  ASSUME NEW ms \in Seq(User)
  PROVE  GoodScript(ChatSessionCreateScript(ms),
           [user : {ms[k] : k \in DOMAIN ms}, type : {"CHAT_SESSION_CREATE"}])
<1> DEFINE N == Len(ms)
           s == ChatSessionCreateScript(ms)
           T(m) == Tell(m, "CHAT_SESSION_CREATE", None)
<1>1. N \in Nat /\ DOMAIN ms = 1..N /\ \A k \in 1..N : ms[k] \in User
  OBVIOUS
<1>2. \A i \in 1..N : /\ 2 * i - 1 \in 1..(2 * N) /\ 2 * i \in 1..(2 * N)
                      /\ ((2 * i - 1) + 1) \div 2 = i /\ (2 * i + 1) \div 2 = i
                      /\ (2 * i - 1) % 2 = 1 /\ (2 * i) % 2 # 1
  BY <1>1
<1>3. \A i \in 1..N : s[2 * i - 1] = Find(ms[i]) /\ s[2 * i] = T(ms[i])
  BY <1>2 DEF ChatSessionCreateScript
<1>4. \A k \in 1..(2 * N) : \E i \in 1..N : k = 2 * i - 1 \/ k = 2 * i
  <2> SUFFICES ASSUME NEW k \in 1..(2 * N)
               PROVE  \E i \in 1..N : k = 2 * i - 1 \/ k = 2 * i
    OBVIOUS
  <2>1. (k + 1) \div 2 \in 1..N
    BY <1>1
  <2>2. k = 2 * ((k + 1) \div 2) - 1 \/ k = 2 * ((k + 1) \div 2)
    BY <1>1
  <2> QED
    BY <2>1, <2>2
<1>5. \A m \in User : Find(m) \in StepOf /\ T(m) \in StepOf
  BY DEF Find, Tell, StepOf, Types
<1>6. ASSUME NEW k \in 1..(2 * N)
      PROVE  s[k] \in StepOf
  <2>1. PICK i \in 1..N : k = 2 * i - 1 \/ k = 2 * i
    BY <1>4
  <2>2. ms[i] \in User
    BY <1>1
  <2>3. s[k] = Find(ms[i]) \/ s[k] = T(ms[i])
    BY <1>3, <2>1
  <2> QED
    BY <1>5, <2>2, <2>3
<1>7. s \in Seq(StepOf) /\ Len(s) = 2 * N
  <2>1. s = [k \in 1..(2 * N) |-> s[k]] /\ 2 * N \in Nat
    BY <1>1 DEF ChatSessionCreateScript
  <2> HIDE DEF s, N
  <2> QED
    BY <2>1, <1>6
<1> HIDE DEF s, N
<1>8. \A m : /\ Find(m).do = "find" /\ T(m).do = "tell"
             /\ Notice(T(m)) = [user |-> m, type |-> "CHAT_SESSION_CREATE"]
  BY DEF Find, Tell, Notice
<1>9. ASSUME NEW k \in 1..Len(s)
      PROVE  s[k].do # "ask" /\ (s[k].do = "tell" => \E i \in 1..N : s[k] = T(ms[i]))
  <2>1. PICK i \in 1..N : k = 2 * i - 1 \/ k = 2 * i
    BY <1>4, <1>7
  <2>2. s[k] = Find(ms[i]) \/ s[k] = T(ms[i])
    BY <1>3, <2>1
  <2> HIDE DEF T
  <2> QED
    BY <1>8, <2>2
<1> DEFINE ns == [user : {ms[k] : k \in DOMAIN ms}, type : {"CHAT_SESSION_CREATE"}]
<1>10. \A i \in 1..N : [user |-> ms[i], type |-> "CHAT_SESSION_CREATE"] \in ns
  BY <1>1
<1>11. \A n \in ns : \E i \in 1..N : n = [user |-> ms[i], type |-> "CHAT_SESSION_CREATE"]
  BY <1>1
<1>12. \A n \in ns : n.user \in {ms[k] : k \in DOMAIN ms}
  OBVIOUS
<1> HIDE DEF ns, T
<1>13. \A k \in 1..Len(s) : s[k].do = "tell" => Notice(s[k]) \in ns
  BY <1>8, <1>9, <1>10
<1>14. ASSUME NEW n \in ns
       PROVE  \E k \in 1..Len(s) : /\ s[k].do = "tell" /\ Notice(s[k]) = n
                                   /\ \E j \in 1..(k - 1) : s[j] = Find(n.user)
  <2>1. PICK i \in 1..N : n = [user |-> ms[i], type |-> "CHAT_SESSION_CREATE"]
    BY <1>11
  <2>2. s[2 * i].do = "tell" /\ Notice(s[2 * i]) = n /\ s[2 * i - 1] = Find(n.user)
    BY <1>3, <1>8, <2>1
  <2>3. 2 * i \in 1..Len(s) /\ 2 * i - 1 \in 1..(2 * i - 1)
    BY <1>1, <1>7
  <2> QED
    BY <2>2, <2>3
<1>15. \A k \in 1..Len(s) : \A j \in 1..(k - 1) :
         s[k].do = "ask" /\ s[k].checked => s[j].do # "tell"
  BY <1>9
<1>16. GoodScript(s, ns)
  BY <1>7, <1>13, <1>14, <1>15 DEF GoodScript
<1> QED
  BY <1>16 DEF s, ns

LEMMA EmptyIsGood == GoodScript(<<>>, {})
BY DEF GoodScript

LEMMA AskKinds ==
  ASSUME NEW a \in Asks
  PROVE  /\ a.handler \in Handlers
         /\ a.ssid \in Login
         /\ a.handler \in {FriendAdd, FriendRemove} => a.peer \in User
         /\ a.handler = FriendAddProcess => a.peer \in User /\ a.agree \in BOOLEAN
         /\ a.handler = ChatSessionCreate => a.members \in Seq(User)
<1> USE ServedAssumption, GatewayAssumption
<1>1. /\ FriendAdd.event = "apply" /\ FriendRemove.event = "remove"
      /\ FriendAddProcess.event = "process" /\ ChatSessionCreate.event = "create"
  BY DEF FriendAdd, FriendAddProcess, FriendRemove, ChatSessionCreate, Notifying
<1> QED
  BY <1>1 DEF Asks

LEMMA ScriptIsGood ==
  ASSUME NEW r \in Request, ask[r] \in Asks, uid[r] = CallerUid(ask[r])
  PROVE  GoodScript(Script(uid[r], ask[r]), Concerns(r))
<1> DEFINE a == ask[r]
           h == ask[r].handler
<1>1. /\ FriendAdd.event = "apply" /\ FriendRemove.event = "remove"
      /\ FriendAddProcess.event = "process" /\ ChatSessionCreate.event = "create"
      /\ FriendAdd.session /\ FriendAddProcess.session
  BY DEF FriendAdd, FriendAddProcess, FriendRemove, ChatSessionCreate, Notifying
<1>2. /\ a.ssid \in Login
      /\ h \in {FriendAdd, FriendRemove} => a.peer \in User
      /\ h = FriendAddProcess => a.peer \in User /\ a.agree \in BOOLEAN
      /\ h = ChatSessionCreate => a.members \in Seq(User)
  BY AskKinds
<1>3. h \in {FriendAdd, FriendAddProcess} => uid[r] \in User
  BY <1>1, <1>2, LoginAssumption DEF CallerUid
<1>4. CASE h = FriendAdd
  <2>1. /\ Script(uid[r], a) = FriendAddScript(uid[r], a.peer)
        /\ Concerns(r) = [user : {a.peer}, type : {"FRIEND_ADD_APPLY"}]
    BY <1>1, <1>4 DEF Script, Concerns
  <2> QED
    BY <1>2, <1>3, <1>4, <2>1, FriendAddIsGood
<1>5. CASE h = FriendAddProcess
  <2>1. /\ Script(uid[r], a) = FriendAddProcessScript(uid[r], a.peer, a.agree)
        /\ Concerns(r) =
             [user : {a.peer}, type : {"FRIEND_ADD_PROCESS"}]
               \cup IF a.agree THEN [user : {a.peer, uid[r]}, type : {"CHAT_SESSION_CREATE"}]
                    ELSE {}
    BY <1>1, <1>5 DEF Script, Concerns
  <2> QED
    BY <1>2, <1>3, <1>5, <2>1, FriendAddProcessIsGood
<1>6. CASE h = FriendRemove
  <2>1. /\ Script(uid[r], a) = FriendRemoveScript(a.peer)
        /\ Concerns(r) = [user : {a.peer}, type : {"FRIEND_REMOVE"}]
    BY <1>1, <1>6 DEF Script, Concerns
  <2> QED
    BY <1>2, <1>6, <2>1, FriendRemoveIsGood
<1>7. CASE h = ChatSessionCreate
  <2>1. /\ Script(uid[r], a) = ChatSessionCreateScript(a.members)
        /\ Concerns(r) = [user : {a.members[k] : k \in DOMAIN a.members},
                          type : {"CHAT_SESSION_CREATE"}]
    BY <1>1, <1>7 DEF Script, Concerns
  <2> QED
    BY <1>2, <1>7, <2>1, ChatSessionCreateIsGood
<1>8. CASE h \notin {FriendAdd, FriendAddProcess, FriendRemove, ChatSessionCreate}
  BY <1>8, EmptyIsGood DEF Script, Concerns
<1> QED
  BY <1>4, <1>5, <1>6, <1>7, <1>8

-----------------------------------------------------------------------------
(* The invariant of a request.                                             *)
RequestTypes ==
  /\ GatewayTypeOK
  /\ script \in [Request -> Seq(StepOf)]

(* What was sent on a connection concerns a user who authenticated on it.  *)
IsTrue(r, m) ==
  \E u \in UsersOn(m.conn) : [user |-> u, type |-> m.type] \in Concerns(r)

(* Where its handler is goes with what it has done, told and answered.     *)
StageInv(r) ==
  /\ at[r] \in {"none", "call"} => told[r] = {}
  /\ at[r] \in {"none", "call", "notify"} <=> reply[r] = "none"
  /\ at[r] \in {"call", "notify"} => ask[r] \in Asks /\ uid[r] = CallerUid(ask[r])
  /\ at[r] = "notify" => done[r]
  /\ at[r] # "notify" => script[r] = <<>>
  /\ \A m \in told[r] : done[r] /\ IsTrue(r, m)
  /\ reply[r] = "failed" => told[r] = {}

(* What it has still to tell concerns its user; data is looked at only     *)
(* while nobody has been told.                                             *)
ScriptInv(r) ==
  /\ \A k \in 1..Len(script[r]) :
       script[r][k].do = "tell" => Notice(script[r][k]) \in Concerns(r)
  /\ \A k \in 1..Len(script[r]) : \A j \in 1..(k - 1) :
       script[r][k].do = "ask" /\ script[r][k].checked => script[r][j].do # "tell"
  /\ \A k \in 1..Len(script[r]) :
       script[r][k].do = "ask" /\ script[r][k].checked => told[r] = {}

(* On a connection held for a user, that user has authenticated.           *)
HeldInv(r) ==
  \A u \in User : held[r][u] # None => u \in UsersOn(held[r][u])

DueInv(r) ==
  \A c \in due[r] : conn[c] # "none" /\ (conn[c] = "open" => connClient[c] # None)

(* A notification that concerns the user u of the connection c has been    *)
(* made, or the script comes to it with c in hand or still to be found.    *)
IsPromised(r, c, u, n) ==
  \/ Sent(c, n) \in told[r]
  \/ \E k \in 1..Len(script[r]) :
       /\ script[r][k].do = "tell" /\ Notice(script[r][k]) = n
       /\ held[r][u] = c \/ \E j \in 1..(k - 1) : script[r][j] = Find(u)

PromiseInv(r) ==
  at[r] = "notify" \/ reply[r] = "ok" =>
    \A c \in due[r] : \A u \in Steady :
      conn[c] = "open" /\ Serves(c, u) =>
        \A n \in Concerns(r) : n.user = u => IsPromised(r, c, u, n)

RequestInv(r) ==
  StageInv(r) /\ ScriptInv(r) /\ HeldInv(r) /\ DueInv(r) /\ PromiseInv(r)

GatewayInv == DisciplineInv /\ RequestTypes /\ \A r \in Request : RequestInv(r)

LEMMA GatewayInitInv == GatewayInit => GatewayInv
<1> SUFFICES ASSUME GatewayInit
             PROVE  GatewayInv
  OBVIOUS
<1>1. DisciplineInv
  BY DisciplineInit DEF GatewayInit
<1>2. RequestTypes
  BY GatewayAssumption DEF GatewayInit, RequestTypes, GatewayTypeOK, Stage
<1>3. ASSUME NEW r \in Request
      PROVE  RequestInv(r)
  BY <1>3 DEF GatewayInit, RequestInv, StageInv, ScriptInv, HeldInv, DueInv, PromiseInv
<1> QED
  BY <1>1, <1>2, <1>3 DEF GatewayInv

(* What the steps of LoginSession, and of other handlers, leave of a       *)
(* request.                                                                *)
LEMMA OthersKeepRequest ==
  ASSUME GatewayInv, [Next]_vars, NEW r \in Request,
         UNCHANGED <<ask[r], at[r], uid[r], script[r], held[r], done[r], due[r],
                     told[r], reply[r]>>
  PROVE  RequestInv(r)'
<1> USE DEF GatewayInv
<1>1. RequestInv(r) /\ TableInv
  BY DEF DisciplineInv
<1>0. Concerns(r)' = Concerns(r)
  BY DEF Concerns
<1>9. \A c \in Conn : UsersOn(c) \subseteq UsersOn(c)'
  BY <1>1, GhostsGrow DEF TableInv
<1>2. StageInv(r)' /\ ScriptInv(r)'
  <2>1. \A m \in told[r] : m.conn \in Conn
    BY DEF RequestTypes, GatewayTypeOK
  <2>2. \A m \in told[r] : IsTrue(r, m) => IsTrue(r, m)'
    BY <1>0, <1>9, <2>1 DEF IsTrue
  <2>3. CallerUid(ask[r])' = CallerUid(ask[r])
    BY DEF CallerUid
  <2> QED
    BY <1>0, <1>1, <2>2, <2>3 DEF RequestInv, StageInv, ScriptInv
<1>3. ASSUME NEW c \in Conn, conn[c] # "none"
      PROVE  /\ conn'[c] # "none"
             /\ conn'[c] = "open" =>
                  /\ conn[c] = "open"
                  /\ connClient[c] # None => connClient'[c] = connClient[c]
  BY <1>1, <1>3, OpenStays
<1>4. HeldInv(r)'
  <2>1. \A u \in User : held[r][u] # None => held[r][u] \in Conn
    BY DEF RequestTypes, GatewayTypeOK
  <2> QED
    BY <1>1, <1>9, <2>1 DEF RequestInv, HeldInv
<1>5. due[r] \subseteq Conn
  BY DEF RequestTypes, GatewayTypeOK
<1>6. DueInv(r)'
  BY <1>1, <1>3, <1>5, LoginAssumption DEF RequestInv, DueInv, TableInv, TypeOK
<1>7. PromiseInv(r)'
  <2> SUFFICES ASSUME at[r] = "notify" \/ reply[r] = "ok",
                      NEW c \in due[r], NEW u \in Steady',
                      conn'[c] = "open", Serves(c, u)',
                      NEW n \in Concerns(r), n.user = u
               PROVE  IsPromised(r, c, u, n)'
    BY <1>0 DEF PromiseInv
  <2>1. conn[c] = "open" /\ Serves(c, u)
    BY <1>1, <1>3, <1>5 DEF RequestInv, DueInv, Serves
  <2>2. u \in Steady
    BY <1>1, GhostsGrow DEF TableInv
  <2>3. IsPromised(r, c, u, n)
    BY <1>1, <2>1, <2>2 DEF RequestInv, PromiseInv
  <2> QED
    BY <2>3 DEF IsPromised
<1> QED
  BY <1>2, <1>4, <1>6, <1>7 DEF RequestInv

-----------------------------------------------------------------------------
(* The steps of a handler.                                                 *)
OthersSame(r) ==
  \A q \in Request \ {r} :
    UNCHANGED <<ask[q], at[q], uid[q], script[q], held[q], done[q], due[q], told[q], reply[q]>>

LEMMA AcceptKeeps ==
  ASSUME GatewayInv, NEW r \in Request, NEW a \in Asks, Accept(r, a)
  PROVE  RequestTypes' /\ OthersSame(r) /\ RequestInv(r)'
<1> USE DEF Accept, Answer, Goto
<1>1. RequestTypes /\ RequestInv(r)
  BY DEF GatewayInv
<1>2. told[r] = {} /\ script[r] = <<>> /\ reply[r] = "none"
  BY <1>1 DEF RequestInv, StageInv
<1>3. a.ssid \in Login /\ CallerUid(a) \in User \cup {None}
  BY AskKinds, LoginAssumption DEF CallerUid
<1>4. RequestTypes'
  <2>1. /\ ask \in [Request -> Asks \cup {None}] /\ uid \in [Request -> User \cup {None}]
        /\ at \in [Request -> Stage] /\ reply \in [Request -> {"none", "ok", "failed", "lost"}]
        /\ script \in [Request -> Seq(StepOf)]
        /\ held \in [Request -> [User -> Conn \cup {None}]] /\ infoRsp \in [Request -> SUBSET User]
    BY <1>1 DEF RequestTypes, GatewayTypeOK
  <2>2. /\ ask' \in [Request -> Asks \cup {None}] /\ uid' \in [Request -> User \cup {None}]
        /\ at' \in [Request -> Stage] /\ reply' \in [Request -> {"none", "ok", "failed", "lost"}]
        /\ script' \in [Request -> Seq(StepOf)]
        /\ held' \in [Request -> [User -> Conn \cup {None}]]
        /\ infoRsp' \in [Request -> SUBSET User]
    <3>1. CASE Answer(r, "failed") /\ UNCHANGED <<ask, uid>>
      BY <2>1, <3>1 DEF Stage
    <3>2. CASE /\ ask' = [ask EXCEPT ![r] = a]
               /\ uid' = [uid EXCEPT ![r] = CallerUid(a)]
               /\ Goto(r, "call")
               /\ UNCHANGED <<script, held, infoRsp, reply>>
      BY <1>3, <2>1, <3>2 DEF Stage
    <3> QED
      BY <3>1, <3>2
  <2> QED
    BY <1>1, <2>2, ScriptSteps DEF RequestTypes, GatewayTypeOK
<1>5. OthersSame(r)
  BY <1>1 DEF OthersSame, RequestTypes, GatewayTypeOK
<1>6. \/ /\ at'[r] = "call" /\ ask'[r] = a /\ uid'[r] = CallerUid(a) /\ held'[r] = held[r]
         /\ reply'[r] = "none"
      \/ /\ at'[r] = "end" /\ reply'[r] = "failed" /\ held'[r] = [u \in User |-> None]
  BY <1>1, <1>2 DEF RequestTypes, GatewayTypeOK
<1>7. /\ script'[r] = <<>> /\ told'[r] = {} /\ due'[r] = due[r]
      /\ UNCHANGED <<conn, connClient, authed>>
  BY <1>1, <1>2 DEF RequestTypes, GatewayTypeOK, vars, tableVars, ghosts
<1> HIDE DEF Accept, Answer, Goto
<1>8. CallerUid(a)' = CallerUid(a)
  BY DEF CallerUid
<1>9. StageInv(r)' /\ ScriptInv(r)'
  BY <1>6, <1>7, <1>8 DEF StageInv, ScriptInv, CallerUid
<1>10. HeldInv(r)' /\ DueInv(r)' /\ PromiseInv(r)'
  BY <1>1, <1>6, <1>7 DEF RequestInv, HeldInv, DueInv, PromiseInv, Serves, UsersOn
<1> QED
  BY <1>4, <1>5, <1>9, <1>10 DEF RequestInv

(* A handler that answers an error has told nobody.                        *)
LEMMA FailKeeps ==
  ASSUME GatewayInv, NEW r \in Request, InHand(r), told[r] = {},
         Answer(r, "failed"), done' \in [Request -> BOOLEAN],
         \A q \in Request \ {r} : done'[q] = done[q],
         UNCHANGED <<vars, ask, uid, due, told>>, faults' \in 0..MaxFaults
  PROVE  RequestTypes' /\ OthersSame(r) /\ RequestInv(r)'
<1> USE DEF Answer, Goto
<1>1. RequestTypes /\ RequestInv(r)
  BY DEF GatewayInv
<1>2. RequestTypes'
  BY <1>1 DEF RequestTypes, GatewayTypeOK, Stage
<1>3. OthersSame(r)
  BY <1>1 DEF OthersSame, RequestTypes, GatewayTypeOK
<1>4. /\ at'[r] = "end" /\ reply'[r] = "failed" /\ held'[r] = [u \in User |-> None]
      /\ script'[r] = <<>> /\ told'[r] = {} /\ due'[r] = due[r]
      /\ UNCHANGED <<conn, connClient>>
  BY <1>1 DEF RequestTypes, GatewayTypeOK, vars, tableVars
<1> HIDE DEF Answer, Goto
<1>5. StageInv(r)' /\ ScriptInv(r)'
  BY <1>4 DEF StageInv, ScriptInv
<1>6. HeldInv(r)' /\ DueInv(r)' /\ PromiseInv(r)'
  BY <1>1, <1>4 DEF RequestInv, HeldInv, DueInv, PromiseInv
<1> QED
  BY <1>2, <1>3, <1>5, <1>6 DEF RequestInv

LEMMA CallKeeps ==
  ASSUME GatewayInv, NEW r \in Request, Call(r)
  PROVE  RequestTypes' /\ OthersSame(r) /\ RequestInv(r)'
<1>1. RequestTypes /\ RequestInv(r) /\ TableInv
  BY DEF GatewayInv, DisciplineInv
<1>2. at[r] = "call" /\ told[r] = {} /\ ask[r] \in Asks /\ uid[r] = CallerUid(ask[r])
  BY <1>1 DEF Call, RequestInv, StageInv
<1>3. CASE Answer(r, "failed") /\ UNCHANGED <<done, due, faults>>
  BY <1>1, <1>2, <1>3, FailKeeps DEF Call, InHand, RequestTypes, GatewayTypeOK
<1>4. CASE /\ \E b \in BOOLEAN : done' = [done EXCEPT ![r] = b]
           /\ Fault
           /\ Answer(r, "failed")
           /\ UNCHANGED due
  <2>1. done' \in [Request -> BOOLEAN] /\ \A q \in Request \ {r} : done'[q] = done[q]
    BY <1>1, <1>4 DEF RequestTypes, GatewayTypeOK
  <2>2. faults' \in 0..MaxFaults
    BY <1>1, <1>4, GatewayAssumption DEF RequestTypes, GatewayTypeOK, Fault
  <2> QED
    BY <1>2, <1>4, <2>1, <2>2, FailKeeps DEF Call, InHand
<1>5. CASE /\ done' = [done EXCEPT ![r] = TRUE]
           /\ due' = [due EXCEPT ![r] = ConnectedConns]
           /\ script' = [script EXCEPT ![r] = Script(uid[r], ask[r])]
           /\ Goto(r, "notify")
           /\ UNCHANGED <<held, infoRsp, reply, faults>>
  <2> USE <1>5 DEF Goto
  <2>1. GoodScript(Script(uid[r], ask[r]), Concerns(r))
    BY <1>2, ScriptIsGood
  <2>2. /\ UNCHANGED <<vars, ask, uid, told>>
        /\ UNCHANGED <<conn, connClient, authed, overlapped, shared, mixed>>
    BY DEF Call, vars, tableVars, ghosts
  <2>3. ConnectedConns \subseteq Conn /\ Script(uid[r], ask[r]) \in Seq(StepOf)
    BY <2>1 DEF ConnectedConns, GoodScript
  <2>4. \A k \in 1..Len(Script(uid[r], ask[r])) : Script(uid[r], ask[r])[k] \in StepOf
    BY <2>3
  <2>5. /\ at' \in [Request -> Stage] /\ done' \in [Request -> BOOLEAN]
        /\ due' \in [Request -> SUBSET Conn] /\ script' \in [Request -> Seq(StepOf)]
    BY <1>1, <2>3 DEF RequestTypes, GatewayTypeOK, Stage
  <2>6. RequestTypes'
    BY <1>1, <2>2, <2>5, ScriptSteps DEF RequestTypes, GatewayTypeOK
  <2>7. OthersSame(r)
    BY <1>1, <2>2 DEF OthersSame, RequestTypes, GatewayTypeOK
  <2>8. /\ at'[r] = "notify" /\ done'[r] /\ due'[r] = ConnectedConns /\ reply'[r] = reply[r]
        /\ script'[r] = Script(uid[r], ask[r]) /\ told'[r] = {} /\ held'[r] = held[r]
        /\ Concerns(r)' = Concerns(r)
    BY <1>1, <1>2, <2>2 DEF RequestTypes, GatewayTypeOK, Concerns
  <2>9. ScriptInv(r)'
    BY <2>1, <2>8 DEF ScriptInv, GoodScript
  <2>10. StageInv(r)'
    BY <1>1, <1>2, <2>2, <2>8 DEF RequestInv, StageInv, CallerUid
  <2>11. HeldInv(r)' /\ DueInv(r)'
    BY <1>1, <2>2, <2>8 DEF RequestInv, HeldInv, DueInv, UsersOn, ConnectedConns
  <2>12. PromiseInv(r)'
    <3> SUFFICES ASSUME NEW c \in ConnectedConns, NEW u \in User,
                        NEW n \in Concerns(r), n.user = u
                 PROVE  IsPromised(r, c, u, n)'
      BY <2>8 DEF PromiseInv, Steady, Disciplined
    <3> QED
      BY <2>1, <2>8 DEF IsPromised, GoodScript
  <2> QED
    BY <2>6, <2>7, <2>9, <2>10, <2>11, <2>12 DEF RequestInv
<1> QED
  BY <1>3, <1>4, <1>5 DEF Call

LEMMA TailSteps ==
  ASSUME NEW s \in Seq(StepOf), s # <<>>
  PROVE  /\ Head(s) = s[1] /\ s[1] \in StepOf /\ 1 \in 1..Len(s)
         /\ Tail(s) \in Seq(StepOf) /\ Len(Tail(s)) = Len(s) - 1
         /\ \A k \in 1..Len(Tail(s)) : Tail(s)[k] = s[k + 1] /\ k + 1 \in 1..Len(s)
         /\ \A k \in 1..Len(s) : k # 1 => k - 1 \in 1..Len(Tail(s)) /\ Tail(s)[k - 1] = s[k]
OBVIOUS

(* A step of the script that answers nothing, and tells if it is a Tell.   *)
LEMMA StepDoneKeeps ==
  ASSUME GatewayInv, NEW r \in Request, at[r] = "notify", script[r] # <<>>, StepDone(r),
         UNCHANGED <<vars, ask, at, uid, done, due, reply>>,
         faults' \in 0..MaxFaults,
         infoRsp' \in [Request -> SUBSET User],
         held' \in [Request -> [User -> Conn \cup {None}]],
         told' \in [Request -> SUBSET [conn : Conn, type : Types]],
         \A q \in Request \ {r} : held'[q] = held[q] /\ told'[q] = told[q],
         told[r] \subseteq told'[r], \A m \in told'[r] : IsTrue(r, m),
         told'[r] = told[r] \/ Current(r).do = "tell",
         HeldInv(r)',
         \A c \in Conn : \A u \in Steady : \A n \in Concerns(r) :
           /\ conn[c] = "open" /\ Serves(c, u) /\ n.user = u
           /\ IsPromised(r, c, u, n)
           => IsPromised(r, c, u, n)'
  PROVE  RequestTypes' /\ OthersSame(r) /\ RequestInv(r)'
<1> USE DEF StepDone
<1>1. RequestTypes /\ RequestInv(r)
  BY DEF GatewayInv
<1>2. script \in [Request -> Seq(StepOf)] /\ script[r] \in Seq(StepOf)
  BY <1>1 DEF RequestTypes
<1>3. script' \in [Request -> Seq(StepOf)] /\ script'[r] = Tail(script[r])
      /\ \A q \in Request \ {r} : script'[q] = script[q]
  BY <1>2, TailSteps
<1>4. RequestTypes'
  BY <1>1, <1>3, ScriptSteps DEF RequestTypes, GatewayTypeOK
<1>5. OthersSame(r)
  BY <1>3 DEF OthersSame
<1>6. /\ UNCHANGED <<conn, connClient, authed, overlapped, shared, mixed>>
      /\ Concerns(r)' = Concerns(r)
  BY DEF vars, tableVars, ghosts, Concerns
<1>7. StageInv(r)'
  BY <1>1, <1>6 DEF RequestInv, StageInv, CallerUid, IsTrue, UsersOn
<1>8. ScriptInv(r)'
  <2>1. ScriptInv(r)
    BY <1>1 DEF RequestInv
  <2>2. \A k \in 1..Len(script'[r]) :
          script'[r][k] = script[r][k + 1] /\ k + 1 \in 1..Len(script[r])
    BY <1>2, <1>3, TailSteps
  <2>3. Current(r) = script[r][1] /\ Len(script'[r]) \in Nat
    BY <1>2, <1>3, TailSteps DEF Current
  <2>4. \A k \in 1..Len(script'[r]) :
          script'[r][k].do = "tell" => Notice(script'[r][k]) \in Concerns(r)
    BY <2>1, <2>2 DEF ScriptInv
  <2>5. ASSUME NEW k \in 1..Len(script'[r]), script'[r][k].do = "ask", script'[r][k].checked
        PROVE  told'[r] = {} /\ \A j \in 1..(k - 1) : script'[r][j].do # "tell"
    <3>1. /\ k + 1 \in 1..Len(script[r])
          /\ script[r][k + 1].do = "ask" /\ script[r][k + 1].checked
      BY <2>2, <2>5
    <3>2. told[r] = {} /\ \A j \in 1..((k + 1) - 1) : script[r][j].do # "tell"
      BY <2>1, <3>1 DEF ScriptInv
    <3>3. Current(r).do # "tell"
      BY <2>3, <3>2
    <3>4. \A j \in 1..(k - 1) : j + 1 \in 1..((k + 1) - 1) /\ j \in 1..Len(script'[r])
      BY <2>3
    <3> QED
      BY <2>2, <3>2, <3>3, <3>4
  <2> QED
    BY <1>6, <2>4, <2>5 DEF ScriptInv
<1>9. DueInv(r)'
  BY <1>1, <1>6 DEF RequestInv, DueInv
<1>10. PromiseInv(r)'
  <2> SUFFICES ASSUME NEW c \in due[r], NEW u \in Steady, conn[c] = "open", Serves(c, u),
                      NEW n \in Concerns(r), n.user = u
               PROVE  IsPromised(r, c, u, n)'
    BY <1>6 DEF PromiseInv, Steady, Disciplined, Serves
  <2>1. c \in Conn
    BY <1>1 DEF RequestTypes, GatewayTypeOK
  <2>2. IsPromised(r, c, u, n)
    BY <1>1 DEF RequestInv, PromiseInv
  <2> QED
    BY <2>1, <2>2
<1> QED
  BY <1>4, <1>5, <1>7, <1>8, <1>9, <1>10 DEF RequestInv

(* A promise outlasts a step that neither finds its connection nor tells.  *)
LEMMA PromiseStays ==
  ASSUME GatewayInv, NEW r \in Request, at[r] = "notify", script[r] # <<>>, StepDone(r),
         told' = told, NEW c \in Conn, NEW u \in User, NEW n,
         Current(r).do # "tell", IsPromised(r, c, u, n),
         held[r][u] = c \/ Current(r) = Find(u) => held'[r][u] = c
  PROVE  IsPromised(r, c, u, n)'
<1>1. script[r] \in Seq(StepOf) /\ script'[r] = Tail(script[r])
  BY DEF GatewayInv, RequestTypes, StepDone
<1>2. /\ Current(r) = script[r][1]
      /\ \A k \in 1..Len(script[r]) : k # 1 => k - 1 \in 1..Len(script'[r])
                                              /\ script'[r][k - 1] = script[r][k]
      /\ Len(script[r]) \in Nat
  BY <1>1, TailSteps DEF Current
<1>3. CASE Sent(c, n) \in told[r]
  BY <1>3 DEF IsPromised
<1>4. CASE Sent(c, n) \notin told[r]
  <2>1. PICK k \in 1..Len(script[r]) :
          /\ script[r][k].do = "tell" /\ Notice(script[r][k]) = n
          /\ held[r][u] = c \/ \E j \in 1..(k - 1) : script[r][j] = Find(u)
    BY <1>4 DEF IsPromised
  <2>2. k # 1
    BY <1>2, <2>1
  <2>3. /\ k - 1 \in 1..Len(script'[r])
        /\ script'[r][k - 1].do = "tell" /\ Notice(script'[r][k - 1]) = n
    BY <1>2, <2>1, <2>2
  <2>4. CASE held[r][u] = c \/ Current(r) = Find(u)
    BY <2>3, <2>4 DEF IsPromised
  <2>5. CASE ~(held[r][u] = c \/ Current(r) = Find(u))
    <3>1. PICK j \in 1..(k - 1) : script[r][j] = Find(u)
      BY <2>1, <2>5
    <3>2. j # 1
      BY <1>2, <2>5, <3>1
    <3>3. j \in 1..Len(script[r]) /\ j - 1 \in 1..((k - 1) - 1)
      BY <1>2, <3>2
    <3>4. script'[r][j - 1] = Find(u)
      BY <1>2, <3>1, <3>2, <3>3
    <3> QED
      BY <2>3, <3>3, <3>4 DEF IsPromised
  <2> QED
    BY <2>4, <2>5
<1> QED
  BY <1>3, <1>4

LEMMA FindKeeps ==
  ASSUME GatewayInv, NEW r \in Request, FindConnection(r)
  PROVE  RequestTypes' /\ OthersSame(r) /\ RequestInv(r)'
<1> DEFINE w == Current(r).user
<1>1. RequestTypes /\ RequestInv(r) /\ TableInv /\ PushReachesItsUser
  BY DEF GatewayInv, DisciplineInv, TableInv
<1>2. /\ at[r] = "notify" /\ script[r] # <<>> /\ Current(r).do = "find" /\ StepDone(r)
      /\ UNCHANGED <<vars, ask, at, uid, infoRsp, done, due, told, reply, faults>>
      /\ UNCHANGED <<conn, connClient, authed>>
  BY DEF FindConnection, NextIs, Current, vars, tableVars, ghosts
<1>3. Current(r) \in StepOf
  BY <1>1, <1>2, TailSteps DEF RequestTypes, Current
<1>4. w \in User /\ Current(r) = Find(w)
  BY <1>2, <1>3 DEF StepOf, Find
<1>5. /\ held \in [Request -> [User -> Conn \cup {None}]]
      /\ uidConn \in [User -> Conn \cup {None}]
  BY <1>1 DEF RequestTypes, GatewayTypeOK, TableInv, TypeOK
<1>6. /\ held' \in [Request -> [User -> Conn \cup {None}]]
      /\ \A q \in Request \ {r} : held'[q] = held[q]
      /\ \A u \in User : held'[r][u] = IF u = w THEN uidConn[w] ELSE held[r][u]
  BY <1>4, <1>5 DEF FindConnection
<1>7. HeldInv(r)'
  <2> SUFFICES ASSUME NEW u \in User, held'[r][u] # None
               PROVE  u \in UsersOn(held'[r][u])
    BY <1>2 DEF HeldInv, UsersOn
  <2>1. CASE u = w
    BY <1>1, <1>6, <2>1 DEF PushReachesItsUser
  <2>2. CASE u # w
    BY <1>1, <1>6, <2>2 DEF RequestInv, HeldInv
  <2> QED
    BY <2>1, <2>2
<1>8. ASSUME NEW c \in Conn, NEW u \in Steady, NEW n \in Concerns(r),
             conn[c] = "open", Serves(c, u), IsPromised(r, c, u, n)
      PROVE  IsPromised(r, c, u, n)'
  <2>0. u \in User
    BY DEF Steady, Disciplined
  <2>3. uidConn[u] = c
    BY <1>8, SteadyIsFound DEF GatewayInv
  <2>4. Current(r) = Find(u) => u = w
    BY DEF Find
  <2>5. held[r][u] = c \/ Current(r) = Find(u) => held'[r][u] = c
    BY <1>6, <2>0, <2>3, <2>4
  <2> QED
    BY <1>2, <1>8, <2>0, <2>5, PromiseStays
<1>9. /\ infoRsp' \in [Request -> SUBSET User] /\ faults' \in 0..MaxFaults
      /\ told' \in [Request -> SUBSET [conn : Conn, type : Types]]
      /\ \A m \in told'[r] : IsTrue(r, m)
  BY <1>1, <1>2 DEF RequestTypes, GatewayTypeOK, RequestInv, StageInv
<1> QED
  BY <1>2, <1>6, <1>7, <1>8, <1>9, StepDoneKeeps

LEMMA AskKeeps ==
  ASSUME GatewayInv, NEW r \in Request, AskUserInfo(r)
  PROVE  RequestTypes' /\ OthersSame(r) /\ RequestInv(r)'
<1>1. RequestTypes /\ RequestInv(r)
  BY DEF GatewayInv
<1>2. /\ at[r] = "notify" /\ script[r] # <<>> /\ Current(r).do = "ask"
      /\ UNCHANGED <<vars, ask, uid, done, due, told>>
      /\ UNCHANGED <<conn, connClient, authed>>
  BY DEF AskUserInfo, NextIs, Current, vars, tableVars, ghosts
<1>3. Current(r) = script[r][1] /\ Current(r) \in StepOf /\ 1 \in 1..Len(script[r])
  BY <1>1, <1>2, TailSteps DEF RequestTypes, Current
<1>4. Current(r).user \in User
  BY <1>2, <1>3 DEF StepOf
<1>5. faults' \in 0..MaxFaults
  BY <1>1, GatewayAssumption DEF AskUserInfo, RequestTypes, GatewayTypeOK, Fault
<1>6. CASE Answer(r, "failed") /\ Current(r).checked
  <2>1. told[r] = {}
    BY <1>1, <1>2, <1>3, <1>6 DEF RequestInv, ScriptInv
  <2>2. done' \in [Request -> BOOLEAN] /\ \A q \in Request \ {r} : done'[q] = done[q]
    BY <1>1, <1>2 DEF RequestTypes, GatewayTypeOK
  <2> QED
    BY <1>2, <1>5, <1>6, <2>1, <2>2, FailKeeps DEF InHand
<1>7. CASE StepDone(r) /\ UNCHANGED <<at, held, reply>>
  <2>1. infoRsp' \in [Request -> SUBSET User]
    <3>1. \/ infoRsp' = infoRsp
          \/ infoRsp' = [infoRsp EXCEPT ![r] = @ \cup {Current(r).user}]
          \/ infoRsp' = [infoRsp EXCEPT ![r] = {}]
      BY DEF AskUserInfo, Answer
    <3>2. infoRsp \in [Request -> SUBSET User] /\ Current(r).user \in User
      BY <1>1, <1>4 DEF RequestTypes, GatewayTypeOK
    <3> QED
      BY <3>1, <3>2
  <2>2. /\ told' \in [Request -> SUBSET [conn : Conn, type : Types]]
        /\ held' \in [Request -> [User -> Conn \cup {None}]]
        /\ \A m \in told'[r] : IsTrue(r, m)
    BY <1>1, <1>2, <1>7 DEF RequestTypes, GatewayTypeOK, RequestInv, StageInv
  <2>3. HeldInv(r)'
    BY <1>1, <1>2, <1>7 DEF RequestInv, HeldInv, UsersOn
  <2>4. ASSUME NEW c \in Conn, NEW u \in Steady, NEW n, IsPromised(r, c, u, n)
        PROVE  IsPromised(r, c, u, n)'
    <3>1. u \in User /\ Current(r) # Find(u)
      BY <1>2 DEF Steady, Disciplined, Find
    <3> QED
      BY <1>2, <1>7, <2>4, <3>1, PromiseStays
  <2> QED
    BY <1>2, <1>5, <1>7, <2>1, <2>2, <2>3, <2>4, StepDoneKeeps
<1> QED
  BY <1>6, <1>7 DEF AskUserInfo

LEMMA TellKeeps ==
  ASSUME GatewayInv, NEW r \in Request, TellUser(r)
  PROVE  RequestTypes' /\ OthersSame(r) /\ RequestInv(r)'
<1> DEFINE s == Current(r)
           w == s.user
           d == held[r][w]
           reached == d # None /\ conn[d] = "open"
<1>1. RequestTypes /\ RequestInv(r) /\ TableInv
  BY DEF GatewayInv, DisciplineInv
<1>2. /\ at[r] = "notify" /\ script[r] # <<>> /\ s.do = "tell" /\ StepDone(r)
      /\ UNCHANGED <<vars, ask, at, uid, held, infoRsp, done, due, reply, faults>>
      /\ UNCHANGED <<conn, connClient, authed>>
  BY DEF TellUser, NextIs, Current, vars, tableVars, ghosts
<1>3. s = script[r][1] /\ s \in StepOf /\ 1 \in 1..Len(script[r])
  BY <1>1, <1>2, TailSteps DEF RequestTypes, Current
<1>4. w \in User /\ s.type \in Types
  BY <1>2, <1>3 DEF StepOf
<1>5. d # None => d \in Conn /\ w \in UsersOn(d)
  BY <1>1, <1>4 DEF RequestInv, HeldInv, RequestTypes, GatewayTypeOK
<1>6. /\ reached => told' = [told EXCEPT ![r] = @ \cup {Sent(d, s)}]
      /\ ~reached => told' = told
  BY DEF TellUser, Sent
<1>7. Notice(s) \in Concerns(r)
  BY <1>1, <1>2, <1>3 DEF RequestInv, ScriptInv
<1>13. reached => Sent(d, s) \in [conn : Conn, type : Types] /\ IsTrue(r, Sent(d, s))
  BY <1>4, <1>5, <1>7 DEF Sent, IsTrue, Notice
<1>8. told \in [Request -> SUBSET [conn : Conn, type : Types]] /\ \A m \in told[r] : IsTrue(r, m)
  BY <1>1 DEF RequestTypes, GatewayTypeOK, RequestInv, StageInv
<1>9. /\ told' \in [Request -> SUBSET [conn : Conn, type : Types]]
      /\ \A q \in Request \ {r} : told'[q] = told[q]
      /\ told[r] \subseteq told'[r] /\ \A m \in told'[r] : IsTrue(r, m)
      /\ reached => Sent(d, s) \in told'[r]
  BY <1>6, <1>8, <1>13
<1>10. /\ infoRsp' \in [Request -> SUBSET User] /\ faults' \in 0..MaxFaults
       /\ held' \in [Request -> [User -> Conn \cup {None}]]
       /\ \A q \in Request \ {r} : held'[q] = held[q]
  BY <1>1, <1>2 DEF RequestTypes, GatewayTypeOK
<1>11. HeldInv(r)'
  BY <1>1, <1>2 DEF RequestInv, HeldInv, UsersOn
<1>12. ASSUME NEW c \in Conn, NEW u \in Steady, NEW n \in Concerns(r),
              conn[c] = "open", n.user = u, IsPromised(r, c, u, n)
       PROVE  IsPromised(r, c, u, n)'
  <2>1. CASE Sent(c, n) \in told'[r]
    BY <2>1 DEF IsPromised
  <2>2. CASE Sent(c, n) \notin told'[r]
    <3>1. PICK k \in 1..Len(script[r]) :
            /\ script[r][k].do = "tell" /\ Notice(script[r][k]) = n
            /\ held[r][u] = c \/ \E j \in 1..(k - 1) : script[r][j] = Find(u)
      BY <1>9, <1>12, <2>2 DEF IsPromised
    <3>2. /\ script'[r] = Tail(script[r]) /\ script[r] \in Seq(StepOf)
          /\ Len(script[r]) \in Nat
      BY <1>1, <1>2 DEF RequestTypes, StepDone
    <3>3. k # 1
      <4> SUFFICES ASSUME k = 1
                   PROVE  FALSE
        OBVIOUS
      <4>1. held[r][u] = c /\ Notice(s) = n
        BY <1>3, <3>1
      <4>2. u = w
        BY <1>12, <4>1 DEF Notice
      <4>3. reached
        BY <1>12, <4>1, <4>2, LoginAssumption
      <4>4. Sent(d, s) = Sent(c, n)
        BY <4>1, <4>2 DEF Sent, Notice
      <4> QED
        BY <1>9, <2>2, <4>3, <4>4
    <3>4. /\ k - 1 \in 1..Len(script'[r])
          /\ script'[r][k - 1].do = "tell" /\ Notice(script'[r][k - 1]) = n
      BY <1>2, <3>1, <3>2, <3>3, TailSteps
    <3>5. CASE held[r][u] = c
      BY <1>2, <3>4, <3>5 DEF IsPromised
    <3>6. CASE held[r][u] # c
      <4>1. PICK j \in 1..(k - 1) : script[r][j] = Find(u)
        BY <3>1, <3>6
      <4>2. j # 1
        BY <1>2, <1>3, <4>1 DEF Find
      <4>3. j \in 1..Len(script[r]) /\ j - 1 \in 1..((k - 1) - 1)
        BY <3>2, <4>2
      <4>4. script'[r][j - 1] = Find(u)
        BY <1>2, <3>2, <4>1, <4>2, <4>3, TailSteps
      <4> QED
        BY <3>4, <4>3, <4>4 DEF IsPromised
    <3> QED
      BY <3>5, <3>6
  <2> QED
    BY <2>1, <2>2
<1> QED
  BY <1>2, <1>9, <1>10, <1>11, <1>12, StepDoneKeeps

LEMMA RespondKeeps ==
  ASSUME GatewayInv, NEW r \in Request, Respond(r)
  PROVE  RequestTypes' /\ OthersSame(r) /\ RequestInv(r)'
<1> USE DEF Respond, Answer, Goto
<1>1. RequestTypes /\ RequestInv(r)
  BY DEF GatewayInv
<1>2. RequestTypes'
  BY <1>1 DEF RequestTypes, GatewayTypeOK, Stage
<1>3. OthersSame(r)
  BY <1>1 DEF OthersSame, RequestTypes, GatewayTypeOK
<1>4. /\ at[r] = "notify" /\ script[r] = <<>>
      /\ at'[r] = "end" /\ reply'[r] = "ok" /\ held'[r] = [u \in User |-> None]
      /\ script'[r] = <<>> /\ told'[r] = told[r] /\ due'[r] = due[r] /\ done'[r] = done[r]
      /\ UNCHANGED <<conn, connClient, authed, overlapped, shared, mixed>>
      /\ Concerns(r)' = Concerns(r)
  BY <1>1 DEF RequestTypes, GatewayTypeOK, vars, tableVars, ghosts, Concerns
<1> HIDE DEF Respond, Answer, Goto
<1>5. StageInv(r)' /\ ScriptInv(r)'
  <2>1. \A m : IsTrue(r, m)' <=> IsTrue(r, m)
    BY <1>4 DEF IsTrue, UsersOn
  <2> QED
    BY <1>1, <1>4, <2>1 DEF RequestInv, StageInv, ScriptInv
<1>6. HeldInv(r)' /\ DueInv(r)'
  BY <1>1, <1>4 DEF RequestInv, HeldInv, DueInv
<1>7. PromiseInv(r)'
  BY <1>1, <1>4 DEF RequestInv, PromiseInv, IsPromised, Steady, Disciplined, Serves
<1> QED
  BY <1>2, <1>3, <1>5, <1>6, <1>7 DEF RequestInv

LEMMA LostKeeps ==
  ASSUME GatewayInv, GatewayDies, RequestsAreLost, NEW r \in Request
  PROVE  RequestTypes' /\ RequestInv(r)'
<1>1. RequestTypes /\ RequestInv(r)
  BY DEF GatewayInv
<1>2. RequestTypes'
  BY <1>1 DEF RequestsAreLost, RequestTypes, GatewayTypeOK, Stage
<1>3. /\ script'[r] = <<>> /\ held'[r] = [u \in User |-> None]
      /\ UNCHANGED <<ask, uid, done, due, told>> /\ Concerns(r)' = Concerns(r)
      /\ authed' = authed
      /\ IF InHand(r) THEN at'[r] = "end" /\ reply'[r] = "lost"
         ELSE at'[r] = at[r] /\ reply'[r] = reply[r]
  BY DEF RequestsAreLost, GatewayDies, Concerns
<1>4. due[r] \subseteq Conn
  BY <1>1 DEF RequestTypes, GatewayTypeOK
<1>5. \A c \in Conn : conn'[c] # "open" /\ (conn[c] # "none" => conn'[c] # "none")
  BY DEF GatewayDies
<1>6. StageInv(r)'
  BY <1>1, <1>3 DEF RequestInv, StageInv, InHand, IsTrue, UsersOn
<1>7. ScriptInv(r)' /\ HeldInv(r)'
  BY <1>3 DEF ScriptInv, HeldInv
<1>8. DueInv(r)' /\ PromiseInv(r)'
  BY <1>1, <1>3, <1>4, <1>5 DEF RequestInv, DueInv, PromiseInv
<1> QED
  BY <1>2, <1>6, <1>7, <1>8 DEF RequestInv

-----------------------------------------------------------------------------
LEMMA GatewayStep == GatewayInv /\ [GatewayNext]_gatewayVars => GatewayInv'
<1> SUFFICES ASSUME GatewayInv, [GatewayNext]_gatewayVars
             PROVE  GatewayInv'
  OBVIOUS
<1>1. [Next]_vars
  BY GatewayStepIsSessionStep, GatewayUnchanged
<1>2. DisciplineInv'
  BY <1>1, DisciplineStep DEF GatewayInv
<1>3. ASSUME NEW r \in Request, RequestTypes', OthersSame(r), RequestInv(r)'
      PROVE  RequestTypes' /\ \A q \in Request : RequestInv(q)'
  <2>1. ASSUME NEW q \in Request \ {r}
        PROVE  RequestInv(q)'
    BY <1>1, <1>3, OthersKeepRequest DEF OthersSame
  <2> QED
    BY <1>3, <2>1
<1>4. ASSUME UNCHANGED <<requestVars, faults>>
      PROVE  RequestTypes' /\ \A r \in Request : RequestInv(r)'
  <2>1. RequestTypes'
    BY <1>4 DEF GatewayInv, RequestTypes, GatewayTypeOK, requestVars
  <2>2. ASSUME NEW r \in Request
        PROVE  RequestInv(r)'
    BY <1>1, <1>4, OthersKeepRequest DEF requestVars
  <2> QED
    BY <2>1, <2>2
<1>5. ASSUME GatewayDies, RequestsAreLost
      PROVE  RequestTypes' /\ \A r \in Request : RequestInv(r)'
  <2>1. RequestTypes'
    BY <1>5 DEF GatewayInv, RequestTypes, GatewayTypeOK, RequestsAreLost, Stage
  <2> QED
    BY <1>5, <2>1, LostKeeps
<1>6. ASSUME NEW r \in Request, NEW a \in Asks, Accept(r, a)
      PROVE  RequestTypes' /\ \A q \in Request : RequestInv(q)'
  BY <1>3, <1>6, AcceptKeeps
<1>7. ASSUME NEW r \in Request, Handle(r)
      PROVE  RequestTypes' /\ \A q \in Request : RequestInv(q)'
  BY <1>3, <1>5, <1>7, CallKeeps, FindKeeps, AskKeeps, TellKeeps, RespondKeeps
     DEF Handle, TellOfNobody
<1>8. ASSUME SessionStep
      PROVE  RequestTypes' /\ \A r \in Request : RequestInv(r)'
  BY <1>4, <1>8 DEF SessionStep
<1>9. ASSUME Crash
      PROVE  RequestTypes' /\ \A r \in Request : RequestInv(r)'
  BY <1>5, <1>9 DEF Crash
<1>10. ASSUME UNCHANGED gatewayVars
       PROVE  RequestTypes' /\ \A r \in Request : RequestInv(r)'
  BY <1>4, <1>10 DEF gatewayVars
<1>11. RequestTypes' /\ \A r \in Request : RequestInv(r)'
  BY <1>6, <1>7, <1>8, <1>9, <1>10 DEF GatewayNext
<1> QED
  BY <1>2, <1>11 DEF GatewayInv

LEMMA GatewayInvariant == GatewaySpec => []GatewayInv
BY GatewayInitInv, GatewayStep, PTL DEF GatewaySpec

(* Every behaviour of the HTTP handlers keeps the types of their state.    *)
THEOREM GatewayTypeCorrect == GatewaySpec => []GatewayTypeOK
<1>1. GatewayInv => GatewayTypeOK
  BY DEF GatewayInv, RequestTypes
<1> QED
  BY <1>1, GatewayInvariant, PTL

(* A notification goes only to connections on which a user it concerns has *)
(* authenticated, and tells only of something done.  (FriendAdd,           *)
(* FriendAddProcess, FriendRemove, ChatSessionCreate)                      *)
THEOREM NotificationsTrue == GatewaySpec => []NotificationsAreTrue
<1>1. GatewayInv => NotificationsAreTrue
  BY DEF GatewayInv, RequestInv, StageInv, IsTrue, NotificationsAreTrue
<1> QED
  BY <1>1, GatewayInvariant, PTL

(* Of a request that is answered with an error, nobody has been told.      *)
(* (FriendAdd, FriendAddProcess)                                           *)
THEOREM NobodyToldOfFailure == GatewaySpec => []FailedToldNobody
<1>1. GatewayInv => FailedToldNobody
  BY DEF GatewayInv, RequestInv, StageInv, FailedToldNobody
<1> QED
  BY <1>1, GatewayInvariant, PTL

(* When a request is answered with success, the disciplined users it       *)
(* concerns who stayed connected on a connection of their own, and         *)
(* authenticated on no other, have been told everything on it.             *)
(* (FriendAdd, FriendAddProcess, FriendRemove, ChatSessionCreate)          *)
THEOREM ConnectedTold == GatewaySpec => []ConnectedAreTold
<1>1. GatewayInv => ConnectedAreTold
  <2> SUFFICES ASSUME GatewayInv, NEW r \in Request, reply[r] = "ok", NEW c \in due[r],
                      conn[c] = "open", LoginUser[connClient[c]] \in Steady,
                      NEW n \in Concerns(r), n.user = LoginUser[connClient[c]]
               PROVE  Sent(c, n) \in told[r]
    BY DEF ConnectedAreTold, Steady, Sent
  <2>1. RequestInv(r) /\ RequestTypes
    BY DEF GatewayInv
  <2>2. script[r] = <<>>
    BY <2>1 DEF RequestInv, StageInv
  <2>3. Serves(c, LoginUser[connClient[c]])
    BY <2>1 DEF RequestInv, DueInv, Serves
  <2>4. IsPromised(r, c, LoginUser[connClient[c]], n)
    BY <2>1, <2>3 DEF RequestInv, PromiseInv
  <2> QED
    BY <2>2, <2>4 DEF IsPromised
<1> QED
  BY <1>1, GatewayInvariant, PTL
=============================================================================
