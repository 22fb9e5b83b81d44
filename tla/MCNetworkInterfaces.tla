------------------------- MODULE MCNetworkInterfaces -------------------------
(***************************************************************************)
(* Instance of NetworkInterfaces for TLC: two interfaces of one name, which *)
(* two guests want.                                                        *)
(***************************************************************************)
EXTENDS NetworkInterfaces

CONSTANT eth

OneName == [i \in Interface |-> eth]
BothWant == [c \in Container |-> {eth}]
=============================================================================
