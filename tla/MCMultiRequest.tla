--------------------------- MODULE MCMultiRequest ---------------------------
(* wait_num and test_num on three requests of the two endpoints.           *)
EXTENDS WaitNum

ThreeRequests == [r \in 1..3 |-> IF r = 2 THEN "peer" ELSE "shm"]
=============================================================================
