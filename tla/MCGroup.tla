------------------------------ MODULE MCGroup ------------------------------
(***************************************************************************)
(* Two group consumers, in one process or in two, and one task.            *)
(***************************************************************************)
EXTENDS GroupConsumer
=============================================================================
