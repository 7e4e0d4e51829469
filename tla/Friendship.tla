----------------------------- MODULE Friendship -----------------------------
(***************************************************************************)
(* What the friend service promises about who is whose friend: two users   *)
(* become friends only when one has asked and the other has agreed,        *)
(* friendship is mutual at every moment, and either may end it.            *)
(***************************************************************************)
CONSTANT User

VARIABLES
  asked,    \* pairs <<u, p>>: u has applied to be p's friend
  agreed,   \* pairs <<u, p>>: u has accepted p
  friends   \* pairs <<u, p>>: p is in u's list of friends

vars == <<asked, agreed, friends>>

Init == asked = {} /\ agreed = {} /\ friends = {}

Ask(u, p) ==
  /\ asked' = asked \cup {<<u, p>>}
  /\ UNCHANGED <<agreed, friends>>

Agree(u, p) ==
  /\ agreed' = agreed \cup {<<u, p>>}
  /\ UNCHANGED <<asked, friends>>

Befriend(u, p) ==
  /\ <<p, u>> \in asked
  /\ <<u, p>> \in agreed
  /\ friends' = friends \cup {<<u, p>>, <<p, u>>}
  /\ UNCHANGED <<asked, agreed>>

Unfriend(u, p) ==
  /\ friends' = friends \ {<<u, p>>, <<p, u>>}
  /\ UNCHANGED <<asked, agreed>>

Next == \E u, p \in User : Ask(u, p) \/ Agree(u, p) \/ Befriend(u, p) \/ Unfriend(u, p)

Spec == Init /\ [][Next]_vars
=============================================================================
