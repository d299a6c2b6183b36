-------------------------- MODULE MCProgressGuard --------------------------
(* Instances of ProgressGuard for TLC.                                     *)
EXTENDS ProgressGuard, TLC

CONSTANTS t1, t2, t3, r1, r2, r3

\* Every thread has a request of its own, on which it waits and tests.
PrivateUse2 == (t1 :> {r1} @@ t2 :> {r2})

\* t1 keeps polling with lfi_test, the other threads wait.
PollWait == (t1 :> {} @@ t2 :> {r2} @@ t3 :> {r3})
PollTest == (t1 :> {r1} @@ t2 :> {} @@ t3 :> {})
PollSpec == FairSpec /\ WF_vars(BeginTest(t1, r1))
=============================================================================
