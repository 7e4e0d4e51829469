-------------------------- MODULE MCFriendService --------------------------
(* Instance for TLC: two users and everything they may call.              *)
EXTENDS FriendService, TLC

Symmetry == Permutations(User)
=============================================================================
