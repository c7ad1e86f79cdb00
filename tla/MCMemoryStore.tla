----------------------------- MODULE MCMemoryStore -----------------------------
(***************************************************************************)
(* Two callers whose embedding models have different dimensions, through   *)
(* a retriever each: the running agent and the command line.               *)
(***************************************************************************)
EXTENDS MemoryStore, TLC

CONSTANTS agent, cli, r1, r2, d1, d2, i1, i2, t1, t2

MCApart == (agent :> r1) @@ (cli :> r2)
MCModel == (agent :> d1) @@ (cli :> d2)
MCFiles == <<<<[id |-> i1, text |-> t1], [id |-> i2, text |-> t1]>>>>
MCRemembered == [id : {i1}, text : Texts, vector : {NoDim, d1}]
===============================================================================
