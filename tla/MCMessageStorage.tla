-------------------------- MODULE MCMessageStorage --------------------------
(* Instances for TLC: a text message, one with a file, one that the        *)
(* service cannot handle; and two text messages.                           *)
EXTENDS MessageStorage
CONSTANTS t1, t2, f1, b1

MCMixed == (t1 :> "STRING") @@ (f1 :> "FILE") @@ (b1 :> "BAD")
MCTexts == (t1 :> "STRING") @@ (t2 :> "STRING")
=============================================================================
