------------------------- MODULE MCServiceDiscovery -------------------------
(* Instances for TLC: up to three instances of the user service, one of the *)
(* file service, and one of the user service with a malformed address.      *)
EXTENDS ServiceDiscovery
CONSTANTS u1, u2, u3, x1, f1

User == <<"service", "user_service">>
File == <<"service", "file_service">>

MCUser == {User}
MCUserFile == {User, File}
MCKey == [i \in Instance |-> Append(IF i = f1 THEN File ELSE User, "instance")]
=============================================================================
