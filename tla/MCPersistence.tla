--------------------------- MODULE MCPersistence ---------------------------
(* Instances of Persistence for TLC.                                       *)
EXTENDS Persistence

CONSTANTS u1, u2, d1

(* d1 is the device of u1; u2 is an account whose client has not finished  *)
(* its registration.                                                       *)
MCOwner == [d \in Device |-> u1]
=============================================================================
