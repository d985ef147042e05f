------------------------------ MODULE MCRunner ------------------------------
(* Instances of Runner for TLC. *)
EXTENDS Runner, TLC

CONSTANTS t1, t2

NoTables == {}
TwoTables == {t1, t2}
AnyFault == FaultKinds
NoFault == {}
TableOnly == {"table"}
=============================================================================
