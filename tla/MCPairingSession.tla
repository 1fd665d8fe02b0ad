-------------------------- MODULE MCPairingSession --------------------------
(* Instances of PairingSession: a device with the right code whose app may *)
(* be restarted (a1, a2), and a device whose user mistyped the code (w).   *)
EXTENDS PairingSession

MCCode == [p \in Phones |-> IF p = "w" THEN "wrong" ELSE "right"]
MCPub == [p \in Phones |-> IF p = "a2" THEN "a1" ELSE p]
=============================================================================
