---------------------------- MODULE MCFtManager ----------------------------
(* Instances of FtManager for TLC: one request per communicator.           *)
EXTENDS FtManager, TLC

CONSTANTS c1, c2, r1, r2

OneEach == (r1 :> c1 @@ r2 :> c2)
=============================================================================
