---------------------------- MODULE MCSessionReader ----------------------------
(***************************************************************************)
(* Two creators with a slot each, beside readers of the first slot.        *)
(***************************************************************************)
EXTENDS SessionReader, TLC

CONSTANTS h1, h2, s1, s2

MCSlotOf == [h \in Hosts |-> IF h = h1 THEN s1 ELSE s2]
MCReaderSlot == [r \in Readers |-> s1]
=============================================================================
