------------------------------ MODULE WaitNum ------------------------------
(***************************************************************************)
(* LFI::wait_num (src/impl/wait.cpp), the body of lfi_wait_any (how_many =  *)
(* 1) and lfi_wait_all (how_many = n), called by one thread while another   *)
(* thread uses the two endpoints.  wait_num puts a wait_struct on its stack,*)
(* makes every request point to it, sleeps or makes progress until          *)
(* wait_count completions were counted, and takes the pointers back.        *)
(*                                                                         *)
(* Grain: the critical sections of request.mutex and wait_mutex are one     *)
(* step each.  Leadership of an endpoint is a variable (module              *)
(* ProgressGuard): "me" is the waiting thread, "other" the other one.       *)
(* Arrays of one request go to LFI::wait.  No caller of wait_num passes a   *)
(* timeout, so timed waits are left out.  Between waits the thread may poll *)
(* the same array with test_num (module TestNum).                           *)
(***************************************************************************)
EXTENDS TestNum, Sequences

VARIABLES
  timed_out,       \* requests whose error is -LFI_TIMEOUT
  shared,          \* requests whose shared_wait_struct points to the wait_struct
  leader,          \* [Endpoints -> {"none", "me", "other"}]
  registered,      \* endpoints with a guard of this call in waiters_list
  linear_counter,  \* modulo n_requests, which is all that is used of it
  out_index        \* 0-based, -1 while none is found

waitVars == <<timed_out, shared, leader, registered, linear_counter, out_index>>
vars == <<testVars, waitVars>>

Init ==
  /\ done = 1..N
  /\ timed_out = {} /\ shared = {} /\ need = {} /\ registered = {}
  /\ how_many = 1 /\ wait_count = 0 /\ i = 1
  /\ leader = [e \in Endpoints |-> "none"]
  /\ linear_counter = 0
  /\ out_index = -1 /\ pc = "idle" /\ result = NoResult
  /\ tested = FALSE /\ before = {}

-----------------------------------------------------------------------------
(* The other thread and the application.                                   *)

\* Between calls the application posts a completed request again.
Post(r) ==
  /\ pc = "idle"
  /\ r \in done
  /\ done' = done \ {r}
  /\ timed_out' = timed_out \ {r}
  /\ result' = NoResult
  /\ UNCHANGED <<shared, how_many, wait_count, i, need, leader, registered,
                 linear_counter, out_index, pc>>
  /\ before' = {} /\ tested' = FALSE

\* lfi_request::complete: the completion is counted for the waiter, which is
\* woken by the last one.
Complete(r) ==
  /\ done' = done \cup {r}
  /\ timed_out' = timed_out \ {r}
  /\ wait_count' = IF r \in shared THEN wait_count - 1 ELSE wait_count
  /\ pc' = IF r \in shared /\ wait_count' <= 0 /\ pc = "asleep" THEN "loop" ELSE pc

\* The other thread takes the role of leader of an endpoint.
OtherLeads(e) ==
  /\ leader[e] = "none"
  /\ leader' = [leader EXCEPT ![e] = "other"]
  /\ UNCHANGED <<done, timed_out, shared, how_many, wait_count, i, need, registered,
                 linear_counter, out_index, pc, result, tested, before>>

\* Progress of the other thread.
OtherCompletes(r) ==
  /\ leader[Endpoint[r]] = "other"
  /\ r \notin done
  /\ Complete(r)
  /\ UNCHANGED <<shared, how_many, i, need, leader, registered, linear_counter,
                 out_index, result, tested, before>>

\* transfer_leader_and_wake of the other thread: a registered guard becomes
\* leader, requested or not, and is notified under wait_mutex.
OtherLeaves(e) ==
  /\ leader[e] = "other"
  /\ leader' = [leader EXCEPT ![e] = IF e \in registered THEN "me" ELSE "none"]
  /\ pc' = IF e \in registered /\ pc = "asleep" THEN "loop" ELSE pc
  /\ UNCHANGED <<done, timed_out, shared, how_many, wait_count, i, need, registered,
                 linear_counter, out_index, result, tested, before>>

-----------------------------------------------------------------------------
(* wait_num.                                                               *)

\* Arguments out of range: return -1 at once.
BeginInvalid ==
  /\ pc = "idle"
  /\ \E h \in HowMany : (h > N \/ h <= 0) /\ how_many' = h
  /\ result' = -1
  /\ UNCHANGED <<done, timed_out, shared, wait_count, i, need, leader, registered,
                 linear_counter, out_index, pc>>
  /\ before' = {}
  /\ tested' = FALSE

Begin ==
  /\ pc = "idle"
  /\ how_many' \in HowMany \cap 1..N
  /\ wait_count' = how_many'
  /\ i' = 1
  /\ need' = {}
  /\ out_index' = -1
  /\ result' = NoResult
  /\ pc' = "setup"
  /\ UNCHANGED <<done, timed_out, shared, leader, registered, linear_counter>>
  /\ before' = {}
  /\ tested' = FALSE

\* Under request.mutex and wait_mutex: the pointer is set, and a request that
\* is already completed is counted here.
Setup ==
  /\ pc = "setup"
  /\ i <= N
  /\ shared' = shared \cup {i}
  /\ wait_count' = IF i \in done THEN wait_count - 1 ELSE wait_count
  /\ need' = need \cup {Endpoint[i]}
  /\ timed_out' = timed_out \ ({i} \ done)
  /\ i' = i + 1
  /\ UNCHANGED <<done, how_many, leader, registered, linear_counter, out_index,
                 pc, result, tested, before>>

\* Enough were completed already: no guard is constructed.
SetupDone ==
  /\ pc = "setup"
  /\ i > N
  /\ pc' = IF wait_count > 0 THEN "acquire_shm" ELSE "count"
  /\ UNCHANGED <<done, timed_out, shared, how_many, wait_count, i, need, leader, registered,
                 linear_counter, out_index, result, tested, before>>

\* The two steps of the constructor of each guard.
AcquirePc == [shm |-> "acquire_shm", peer |-> "acquire_peer"]
RegisterPc == [shm |-> "register_shm", peer |-> "register_peer"]

\* The constructors of shm_guard and then peer_guard.  A guard tries to lead
\* only an endpoint with a request in the array ...
TryAcquire(e) ==
  /\ pc = AcquirePc[e]
  /\ leader' = IF e \in need /\ leader[e] = "none" THEN [leader EXCEPT ![e] = "me"] ELSE leader
  /\ pc' = RegisterPc[e]
  /\ UNCHANGED <<done, timed_out, shared, how_many, wait_count, i, need, registered,
                 linear_counter, out_index, result, tested, before>>

\* ... and registers, in a step of its own, in any case.
RegisterWaiter(e) ==
  /\ pc = RegisterPc[e]
  /\ registered' = registered \cup {e}
  /\ pc' = IF e = "shm" THEN "acquire_peer" ELSE "loop"
  /\ UNCHANGED <<done, timed_out, shared, how_many, wait_count, i, need, leader,
                 linear_counter, out_index, result, tested, before>>

Leads == {e \in Endpoints : leader[e] = "me"}

\* Mutant: one completion more than asked for is awaited.
LoopStrict ==
  /\ pc = "loop"
  /\ pc' = IF wait_count < 0 THEN "destroy"
           ELSE IF Leads # {} THEN "progress" ELSE "asleep"
  /\ UNCHANGED <<done, timed_out, shared, how_many, wait_count, i, need, leader, registered,
                 linear_counter, out_index, result, tested, before>>

\* The loop: leave it, make progress, or evaluate the predicate under wait_mutex
\* and sleep.
Loop ==
  /\ pc = "loop"
  /\ pc' = IF wait_count <= 0 THEN "destroy"
           ELSE IF Leads # {} THEN "progress" ELSE "asleep"
  /\ UNCHANGED <<done, timed_out, shared, how_many, wait_count, i, need, leader, registered,
                 linear_counter, out_index, result, tested, before>>

\* A led endpoint reports a completion, or progress ends and the loop goes on.
ProgressCompletes(r) ==
  /\ pc = "progress"
  /\ Endpoint[r] \in Leads
  /\ r \notin done
  /\ Complete(r)
  /\ UNCHANGED <<shared, how_many, i, need, leader, registered, linear_counter,
                 out_index, result, tested, before>>

ProgressEnds ==
  /\ pc = "progress"
  /\ pc' = "loop"
  /\ UNCHANGED <<done, timed_out, shared, how_many, wait_count, i, need, leader, registered,
                 linear_counter, out_index, result, tested, before>>

\* The destructors, peer_guard first: unregister, then give leadership up.
Destroy(e) ==
  /\ pc = "destroy"
  /\ e \in registered
  /\ e = "shm" => "peer" \notin registered
  /\ registered' = registered \ {e}
  /\ \E successor \in {"none", "other"} :
       leader' = IF leader[e] = "me" THEN [leader EXCEPT ![e] = successor] ELSE leader
  /\ pc' = IF e = "shm" THEN "count" ELSE pc
  /\ UNCHANGED <<done, timed_out, shared, how_many, wait_count, i, need, linear_counter,
                 out_index, result, tested, before>>

\* first_rand = linear_counter++ % n_requests.
TakeCounter ==
  /\ pc = "count"
  /\ linear_counter' = (linear_counter + 1) % N
  /\ i' = 1
  /\ pc' = "cleanup"
  /\ UNCHANGED <<done, timed_out, shared, how_many, wait_count, need, leader, registered,
                 out_index, result, tested, before>>

\* The i-th request visited from first_rand on.
Index == (linear_counter + N - 1 + i - 1) % N

\* Mutant: clean-up stops at the first completed request.
CleanupEarly ==
  /\ pc = "cleanup"
  /\ shared' = shared \ {Index + 1}
  /\ timed_out' = timed_out \cup ({Index + 1} \ done)
  /\ out_index' = IF Index + 1 \in done THEN Index ELSE -1
  /\ IF out_index' # -1 \/ i = N THEN Return(out_index')
     ELSE i' = i + 1 /\ UNCHANGED <<pc, result, wait_count, need>>
  /\ UNCHANGED <<done, how_many, leader, registered, linear_counter, tested, before>>

\* Mutant: the last request visited is returned.
CleanupLast ==
  /\ pc = "cleanup"
  /\ shared' = shared \ {Index + 1}
  /\ timed_out' = timed_out \cup ({Index + 1} \ done)
  /\ out_index' = Index
  /\ IF i = N THEN Return(out_index') ELSE i' = i + 1 /\ UNCHANGED <<pc, result, wait_count, need>>
  /\ UNCHANGED <<done, how_many, leader, registered, linear_counter, tested, before>>

\* Mutant: every request that is not returned is marked as timed out.
CleanupMarks ==
  /\ pc = "cleanup"
  /\ shared' = shared \ {Index + 1}
  /\ out_index' = IF out_index = -1 /\ Index + 1 \in done THEN Index ELSE out_index
  /\ timed_out' = timed_out \cup ({Index + 1} \ {out_index' + 1})
  /\ IF i = N THEN Return(out_index') ELSE i' = i + 1 /\ UNCHANGED <<pc, result, wait_count, need>>
  /\ UNCHANGED <<done, how_many, leader, registered, linear_counter, tested, before>>

\* Under request.mutex: take the pointer back, note the first completed
\* and mark one that is not completed as timed out.
Cleanup ==
  /\ pc = "cleanup"
  /\ shared' = shared \ {Index + 1}
  /\ timed_out' = timed_out \cup ({Index + 1} \ done)
  /\ out_index' = IF out_index = -1 /\ Index + 1 \in done THEN Index ELSE out_index
  /\ IF i = N THEN Return(out_index') ELSE i' = i + 1 /\ UNCHANGED <<pc, result, wait_count, need>>
  /\ UNCHANGED <<done, how_many, leader, registered, linear_counter, tested, before>>

\* test_num on the same array; a request it completes no longer shows a timeout.
Test ==
  /\ TestStep
  /\ timed_out' = timed_out \ done'
  /\ UNCHANGED <<shared, leader, registered, linear_counter, out_index>>

\* The steps of a call.
Step ==
  \/ Test \/ Setup \/ SetupDone \/ Loop \/ ProgressEnds \/ TakeCounter \/ Cleanup
  \/ \E e \in Endpoints : TryAcquire(e) \/ RegisterWaiter(e) \/ Destroy(e)

Next ==
  \/ Begin \/ BeginInvalid \/ Step
  \/ TestBegin /\ UNCHANGED waitVars
  \/ \E r \in 1..N : Post(r) \/ ProgressCompletes(r) \/ OtherCompletes(r)
  \/ \E e \in Endpoints : OtherLeads(e) \/ OtherLeaves(e)

Spec == Init /\ [][Next]_vars

(* Fairness: the call runs, the fabric finishes every operation whose       *)
(* endpoint somebody keeps making progress on, and the other thread keeps   *)
(* calling and leaving the library.  Without the last, a guard that fails   *)
(* to acquire and registers too late may wait for ever, as module           *)
(* ProgressGuard shows for wait.                                            *)
Fairness ==
  /\ WF_vars(Step)
  /\ \A r \in 1..N : SF_vars(ProgressCompletes(r)) /\ SF_vars(OtherCompletes(r))
  /\ \A e \in Endpoints : WF_vars(OtherLeads(e)) /\ WF_vars(OtherLeaves(e))

FairSpec == Spec /\ Fairness

-----------------------------------------------------------------------------
(* Properties.                                                             *)

\* No request keeps a pointer to the wait_struct of a call that has returned:
\* a later completion would write to a dead stack frame.
NoDanglingWait == pc = "idle" => shared = {}

\* A wait_num that returns an index has waited for how_many completions, and the
\* index is that of a completed request.
ReturnsCompleted ==
  pc = "idle" /\ ~tested /\ result >= 0 => Cardinality(done) >= how_many /\ result + 1 \in done

\* A completed request never reports -LFI_TIMEOUT: the mark that a returning
\* wait_num leaves on the unfinished ones is gone once they complete, and never
\* lands on one that completes while wait_num returns.
CompletedNotTimedOut == done \cap timed_out = {}

\* Every call returns if the operations it waits for finish.
WaitNumReturns == pc # "idle" ~> pc = "idle"
=============================================================================
