------------------------------ MODULE MCGateway ------------------------------
(* Instance for TLC: two users with a login and a connection each, and one *)
(* request of any kind.                                                    *)
EXTENDS Gateway, TLC
CONSTANTS alice, bob, l1, l2

MCLoginUser == (l1 :> alice) @@ (l2 :> bob)

MCServed ==
  {UserRegister, GetUserInfo, FriendAdd, FriendAddProcess, FriendRemove,
   ChatSessionCreate}

MCMembers == {<<alice, bob>>, <<bob, alice>>}

(* The connections are interchangeable, and so are the two users, each     *)
(* with the login.                                                         *)
MCSymmetry ==
  {p \in Permutations(User \cup Login \cup Conn) :
     /\ \A c \in Conn : p[c] \in Conn
     /\ \A l \in Login : p[l] \in Login /\ LoginUser[p[l]] = p[LoginUser[l]]}
=============================================================================
