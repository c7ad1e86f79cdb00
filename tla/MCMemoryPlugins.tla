--------------------------- MODULE MCMemoryPlugins ---------------------------
(* The memory plugins on small instances of every provider.                 *)
EXTENDS MemoryPlugins

TwoTexts == {"likes", "met"}
Named == [c \in TwoTexts |-> {"ada"}]
==============================================================================
