--------------------------- MODULE MCUserService ---------------------------
(* UserService for TLC: ann has had the phone number p1 from the start. *)
EXTENDS UserService, TLC

CONSTANTS ann, p1, p2

PhoneOf == ann :> p1

Symmetry == Permutations(Nickname)
=============================================================================
