------------------------------ MODULE TestNum ------------------------------
(***************************************************************************)
(* LFI::test_num (src/impl/wait.cpp), the body of lfi_test_any (how_many =  *)
(* 1) and lfi_test_all (how_many = n): a pass over the array, one round of  *)
(* progress on the endpoints that need it, a second pass.                   *)
(*                                                                         *)
(* A pass reads one request per step, under its mutex, and requests may be  *)
(* completed between two steps by another thread's progress.  Arrays of one *)
(* request, which are handed to LFI::test, are left to ProgressGuard.  The  *)
(* rest of the program (posting, completion, the other thread, wait_num on  *)
(* the same array) is module WaitNum, which extends this one.               *)
(***************************************************************************)
EXTENDS Integers, FiniteSets

CONSTANTS
  N,         \* n_requests
  Endpoint,  \* [1..N -> {"shm", "peer"}], m_endpoint of each request
  HowMany    \* the values of how_many the application passes

Endpoints == {"shm", "peer"}

ASSUME TestNumAssumption ==
  /\ N \in Nat /\ N >= 2
  /\ Endpoint \in [1..N -> Endpoints]
  /\ HowMany \subseteq Int

VARIABLES
  done,        \* completed requests
  how_many,
  wait_count,
  i,           \* index of the running pass
  need,        \* need_progress_in_shm, need_progress_in_peer
  pc,          \* test_num is in "pass1", "polling" or "pass2"
  result,      \* what the last call returned
  tested,      \* history: the last result is one of test_num
  before       \* history: the requests completed when the call began

testVars == <<done, how_many, wait_count, i, need, pc, result, tested, before>>

LFI_TIMEOUT == 2
NoResult == -100

TestBegin ==
  /\ pc = "idle"
  /\ how_many' \in HowMany \cap 1..N
  /\ wait_count' = how_many'
  /\ i' = 1
  /\ need' = {}
  /\ pc' = "pass1"
  /\ result' = NoResult
  /\ tested' = TRUE
  /\ before' = done
  /\ UNCHANGED done

InPass == pc \in {"pass1", "pass2"}

\* It is too late to reach wait_count and both endpoints are known to need
\* progress, or the end of the array is reached, or enough are completed.
PassOver == i > N \/ wait_count <= 0 \/ (wait_count > N - i + 1 /\ need = {"shm", "peer"})

\* Mutant: the endpoint of a request that is not looked at is not noted.
ScanLazy ==
  /\ InPass /\ ~PassOver
  /\ IF wait_count <= N - i + 1
     THEN IF i \in done THEN wait_count' = wait_count - 1 /\ UNCHANGED need
          ELSE need' = need \cup {Endpoint[i]} /\ UNCHANGED wait_count
     ELSE UNCHANGED <<wait_count, need>>
  /\ i' = i + 1
  /\ UNCHANGED <<done, how_many, pc, result, tested, before>>

\* One iteration of loop_requests.
Scan ==
  /\ InPass
  /\ ~PassOver
  /\ IF wait_count <= N - i + 1 /\ i \in done
     THEN wait_count' = wait_count - 1 /\ UNCHANGED need
     ELSE need' = need \cup {Endpoint[i]} /\ UNCHANGED wait_count
  /\ i' = i + 1
  /\ UNCHANGED <<done, how_many, pc, result, tested, before>>

\* The locals of a call end with it.
Return(r) == result' = r /\ pc' = "idle" /\ wait_count' = 0 /\ i' = 1 /\ need' = {}

\* Mutant: success is never reported before progress was made.
EndPassTimeout ==
  /\ InPass /\ PassOver
  /\ IF pc = "pass1" /\ need # {} THEN pc' = "polling" /\ UNCHANGED <<result, wait_count, i, need>>
     ELSE Return(-LFI_TIMEOUT)
  /\ UNCHANGED <<done, how_many, tested, before>>

\* The pass is over: success, or progress after the first and a timeout after
\* the second.
EndPass ==
  /\ InPass
  /\ PassOver
  /\ IF wait_count = 0 THEN Return(0)
     ELSE IF pc = "pass1" THEN pc' = "polling" /\ UNCHANGED <<result, wait_count, i, need>>
     ELSE Return(-LFI_TIMEOUT)
  /\ UNCHANGED <<done, how_many, tested, before>>

\* A guard per endpoint.  A requested guard leads if no other thread does; one
\* that was not requested leads only if a leaving leader made it its successor.
\* Progress on a led endpoint completes some of its requests.
Progress ==
  /\ pc = "polling"
  /\ \E led \in SUBSET {"shm", "peer"} :
       \E S \in SUBSET {r \in 1..N : Endpoint[r] \in led} : done' = done \cup S
  /\ i' = 1
  /\ pc' = "pass2"
  /\ UNCHANGED <<how_many, wait_count, need, result, tested, before>>

\* The steps of the call.
TestStep == Scan \/ EndPass \/ Progress

-----------------------------------------------------------------------------
(* Properties.                                                             *)

\* A timeout is only reported when too few requests were completed as the call
\* began: the early exit of the pass never gives up on a reachable count.
TimeoutJustified == tested /\ result = -LFI_TIMEOUT => Cardinality(before) < how_many

\* A call that reports success has found how_many completed requests: for
\* lfi_test_all, the entire batch.  The code violates it: the second pass goes
\* on with the counter of the first and counts completed requests again.
SuccessJustified == tested /\ result = 0 => Cardinality(done) >= how_many

\* When a call goes on to make progress it asks for every endpoint that has an
\* unfinished request, although the pass may stop early: polling with
\* lfi_test_* never starves an endpoint.
NoEndpointForgotten ==
  pc = "polling" => {Endpoint[r] : r \in 1..N \ done} \subseteq need
=============================================================================
