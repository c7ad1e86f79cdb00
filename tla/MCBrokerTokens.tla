---------------------------- MODULE MCBrokerTokens ----------------------------
(***************************************************************************)
(* Two commands at a time, a session, two rotations and two key pairs.     *)
(***************************************************************************)
EXTENDS BrokerTokens
===============================================================================
