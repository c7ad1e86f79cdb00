------------------------- MODULE MCCallerPreparation -------------------------
(***************************************************************************)
(* Three hosts, two of them configured for the same slot, and one reader.  *)
(***************************************************************************)
EXTENDS CallerPreparation, TLC

CONSTANTS h1, h2, h3, s1, s2

MCSlotOf == h1 :> s1 @@ h2 :> s1 @@ h3 :> s2
=============================================================================
