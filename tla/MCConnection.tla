---------------------------- MODULE MCConnection ----------------------------
(* Instance of Connection for TLC.                                         *)
EXTENDS Connection, TLC

CONSTANTS u1, u2

\* Two threads of one process use the connection and close it; those of the
\* other one would run the same code on a table of their own.
TwoOnServer == (u1 :> "server" @@ u2 :> "server")
Ranks == [server |-> 5, client |-> 9]
=============================================================================
