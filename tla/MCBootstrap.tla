----------------------------- MODULE MCBootstrap -----------------------------
(* Instances of Bootstrap for TLC: two processes meet at the lock of r, and *)
(* r and s in S3.                                                          *)
EXTENDS Bootstrap, TLC
CONSTANTS r, s, here, there

MCPids == r :> {1, 2} @@ s :> {1}
=============================================================================
