----------------------------- MODULE MCRequestPath -----------------------------
(***************************************************************************)
(* Two plugins, so that one can fail after another was accepted, and two   *)
(* callers; two dispatcher tasks and three updates, of which one does not  *)
(* qualify, with one restart; one request, since requests share only the   *)
(* request binding and the loop's thread.                                  *)
(***************************************************************************)
EXTENDS RequestPath
=============================================================================
