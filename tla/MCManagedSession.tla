-------------------------- MODULE MCManagedSession --------------------------
(* One of each: a user's Close, a CloseSession or StopHeartbeat by handle,     *)
(* GatewayClient.Close and one caller that runs a statement while they come.   *)
EXTENDS ManagedSession
CONSTANTS u1, d1, x1, h1

MCUsers == {u1}
MCDirects == {d1}
MCHandles == {h1}
MCRunners == {Opener}
MCCallers == {x1}
=============================================================================
