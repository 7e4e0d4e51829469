--------------------------- MODULE MCLoginSession ---------------------------
(* Instance for TLC: two login attempts of alice and one of bob. *)
EXTENDS LoginSession, TLC
CONSTANTS alice, bob, l1, l2, l3

MCLoginUser == (l1 :> alice) @@ (l2 :> alice) @@ (l3 :> bob)
=============================================================================
