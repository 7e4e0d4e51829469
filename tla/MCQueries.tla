------------------------------ MODULE MCQueries ------------------------------
(* Instance for TLC: a chat of two with a text and, sent before it, a      *)
(* file, a group where nothing is said, an avatar, a put of two files, and *)
(* a query of any kind meanwhile.                                          *)
EXTENDS Queries
CONSTANTS t1, f1, a1, p1, alice, bob, single, group

MCSize == (f1 :> 1) @@ (a1 :> 1) @@ (p1 :> 2)
MCChatOf == [m \in Message |-> single]
MCSender == (t1 :> bob) @@ (f1 :> alice)
MCTime == (t1 :> 2) @@ (f1 :> 1)
MCAvatarOf == a1 :> alice
MCFriendOf == single :> bob

MCAsked ==
  {[kind |-> "history", chat |-> single, from |-> 1, to |-> 2],
   [kind |-> "recent", chat |-> single, count |-> 2],
   [kind |-> "search", chat |-> single],
   [kind |-> "chats"],
   [kind |-> "people", who |-> {alice, bob}],
   [kind |-> "user", who |-> {alice}]}
=============================================================================
