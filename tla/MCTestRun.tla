------------------------------ MODULE MCTestRun ------------------------------
(* TLC instances of TestRun: some of the template's hooks, their groups.   *)
EXTENDS TestRun, TLC

CONSTANT ServiceInfo

MCHooks == {Storage, ServiceInfo, Schema}
MCGroup == (Storage :> 0) @@ (ServiceInfo :> 0) @@ (Schema :> 10)
=============================================================================
