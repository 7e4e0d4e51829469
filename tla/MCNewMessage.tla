---------------------------- MODULE MCNewMessage ----------------------------
(* Instance for TLC: one request in a session of three users, whose call   *)
(* may be repeated once, while a member comes and goes.                    *)
EXTENDS NewMessage
CONSTANTS m1, m2, r1, ann, ben, cat

MCRequestOf == (m1 :> r1) @@ (m2 :> r1)
MCSender == r1 :> ann
=============================================================================
