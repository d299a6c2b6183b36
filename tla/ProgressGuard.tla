--------------------------- MODULE ProgressGuard ---------------------------
(***************************************************************************)
(* Progress leadership of one libfabric endpoint: the RAII ProgressGuard    *)
(* (include/impl/progress_guard.hpp, src/impl/progress_guard.cpp) and the   *)
(* three library calls that hold one: LFI::wait, LFI::test                  *)
(* (src/impl/wait.cpp) and lfi_endpoint::protected_progress                 *)
(* (src/impl/lfi_endpoint.cpp), which lfi_request::cancel calls.            *)
(*                                                                         *)
(* FI_PROGRESS_MANUAL: nothing completes unless some thread reads the       *)
(* completion queue.  At most one thread, the leader, does; the others      *)
(* sleep on the condition variable of their request until their request     *)
(* completes or the leader hands its role to them.                          *)
(*                                                                         *)
(* Grain: one step per atomic access or per critical section.  The two      *)
(* mutexes that a thread keeps across steps are variables: waiters_mutex    *)
(* (wlock) and request.mutex (rlock).  What a completion does to a request  *)
(* beyond waking its waiter is the subject of module RequestLifecycle.      *)
(* LFI_efficient_progress is TRUE, its default (env.hpp); no caller of wait *)
(* passes a timeout, so timed waits are left out.                           *)
(***************************************************************************)
EXTENDS Naturals, Sequences, SequencesExt

CONSTANTS
  Threads,    \* application threads
  Requests,   \* lfi_request objects of this endpoint
  MayWait,    \* [Threads -> SUBSET Requests]: the requests a thread waits on
  MayTest,    \* [Threads -> SUBSET Requests]: the requests a thread tests
  Cancellers, \* the threads that call protected_progress (from lfi_request::cancel)
  NoThread    \* "mutex not held", "no successor"

ASSUME ConstAssumption ==
  /\ MayWait \in [Threads -> SUBSET Requests]
  /\ MayTest \in [Threads -> SUBSET Requests]
  /\ Cancellers \subseteq Threads
  /\ Requests # {}
  /\ NoThread \notin Threads

VARIABLES
  in_progress,  \* lfi_endpoint::in_progress
  waiters,      \* lfi_endpoint::waiters_list, front first
  is_leader,    \* ProgressGuard::m_is_leader of the guard each thread holds
  wlock,        \* owner of lfi_endpoint::waiters_mutex
  rlock,        \* owner of lfi_request::mutex
  completed,    \* lfi_request::is_completed()
  cq,           \* completions the provider has queued (fi_cq_read would return them)
  comp,         \* entries a thread read and has not handled yet
  pc, op, arg,  \* control state, call in progress and its request
  succ          \* transfer_leader_and_wake: the successor still to be notified

vars == <<in_progress, waiters, is_leader, wlock, rlock, completed, cq, comp,
          pc, op, arg, succ>>

\* The calls that construct a guard on the endpoint.
Ops == {"wait", "test", "protected_progress"}

\* Control states of a thread; "idle" is outside the library.
PCs == {"idle", "acquire", "register", "check", "blocked", "read", "handle",
        "relock", "unregister", "transfer", "notify"}

Init ==
  /\ in_progress = FALSE
  /\ waiters = <<>>
  /\ is_leader = [t \in Threads |-> FALSE]
  /\ wlock = NoThread
  /\ rlock = [r \in Requests |-> NoThread]
  /\ completed = [r \in Requests |-> TRUE]
  /\ cq = {}
  /\ comp = [t \in Threads |-> {}]
  /\ pc = [t \in Threads |-> "idle"]
  /\ op = [t \in Threads |-> "wait"]
  /\ arg = [t \in Threads |-> CHOOSE r \in Requests : TRUE]
  /\ succ = [t \in Threads |-> NoThread]

-----------------------------------------------------------------------------
(* The environment: the application posts operations, the fabric finishes  *)
(* them.                                                                   *)

\* A thread posts a new operation on a completed request that nobody waits
\* on (wait_context becomes non-null).
Post(r) ==
  /\ completed[r]
  /\ \A t \in Threads : pc[t] # "idle" => arg[t] # r
  /\ completed' = [completed EXCEPT ![r] = FALSE]
  /\ UNCHANGED <<in_progress, waiters, is_leader, wlock, rlock, cq, comp, pc,
                 op, arg, succ>>

\* The provider queues the completion of an outstanding operation.
Arrive(r) ==
  /\ ~completed[r]
  /\ r \notin cq
  /\ \A t \in Threads : r \notin comp[t]
  /\ cq' = cq \cup {r}
  /\ UNCHANGED <<in_progress, waiters, is_leader, wlock, rlock, completed, comp,
                 pc, op, arg, succ>>

-----------------------------------------------------------------------------
(* Entering the library.  test locks request.mutex before it constructs    *)
(* the guard; wait constructs the guard first.                             *)

BeginWait(t, r) ==
  /\ pc[t] = "idle"
  /\ pc' = [pc EXCEPT ![t] = "acquire"]
  /\ op' = [op EXCEPT ![t] = "wait"]
  /\ arg' = [arg EXCEPT ![t] = r]
  /\ UNCHANGED <<in_progress, waiters, is_leader, wlock, rlock, completed, cq,
                 comp, succ>>

BeginTest(t, r) ==
  /\ pc[t] = "idle"
  /\ rlock[r] = NoThread
  /\ rlock' = [rlock EXCEPT ![r] = t]
  /\ pc' = [pc EXCEPT ![t] = "acquire"]
  /\ op' = [op EXCEPT ![t] = "test"]
  /\ arg' = [arg EXCEPT ![t] = r]
  /\ UNCHANGED <<in_progress, waiters, is_leader, wlock, completed, cq, comp, succ>>

BeginProtectedProgress(t) ==
  /\ pc[t] = "idle"
  /\ pc' = [pc EXCEPT ![t] = "acquire"]
  /\ op' = [op EXCEPT ![t] = "protected_progress"]
  /\ UNCHANGED <<in_progress, waiters, is_leader, wlock, rlock, completed, cq,
                 comp, arg, succ>>

-----------------------------------------------------------------------------
(* Constructor and destructor of the guard.                                *)

\* try_acquire: m_is_leader = !in_progress.exchange(true).
TryAcquire(t) ==
  /\ pc[t] = "acquire"
  /\ is_leader' = [is_leader EXCEPT ![t] = ~in_progress]
  /\ in_progress' = TRUE
  /\ pc' = [pc EXCEPT ![t] = "register"]
  /\ UNCHANGED <<waiters, wlock, rlock, completed, cq, comp, op, arg, succ>>

RegisterWaiter(t) ==
  /\ pc[t] = "register"
  /\ wlock = NoThread
  /\ waiters' = Append(waiters, t)
  /\ pc' = [pc EXCEPT ![t] = "check"]
  /\ UNCHANGED <<in_progress, is_leader, wlock, rlock, completed, cq, comp, op,
                 arg, succ>>

UnregisterWaiterNot(t) ==
  /\ pc[t] = "unregister"
  /\ wlock = NoThread
  /\ pc' = [pc EXCEPT ![t] = "transfer"]
  /\ UNCHANGED <<in_progress, waiters, is_leader, wlock, rlock, completed, cq,
                 comp, op, arg, succ>>

\* The guard leaves the list before it looks for a successor.
UnregisterWaiter(t) ==
  /\ pc[t] = "unregister"
  /\ wlock = NoThread
  /\ \E i \in DOMAIN waiters :
       /\ waiters[i] = t
       /\ waiters' = RemoveAt(waiters, i)
  /\ pc' = [pc EXCEPT ![t] = "transfer"]
  /\ UNCHANGED <<in_progress, is_leader, wlock, rlock, completed, cq, comp, op,
                 arg, succ>>

\* End of the call: test's request_lock is destroyed after the guard.
Leave(t) ==
  /\ pc' = [pc EXCEPT ![t] = "idle"]
  /\ rlock' = IF op[t] = "test" THEN [rlock EXCEPT ![arg[t]] = NoThread] ELSE rlock

\* A guard constructed with a mutex and a condition variable.
HasCv(t) == op[t] = "wait"

\* Mutants of transfer_leader_and_wake: in_progress stays true when no waiter
\* is left; the successor is not notified.
TransferLeaderNoReset(t) ==
  /\ pc[t] = "transfer"
  /\ is_leader[t] => wlock = NoThread
  /\ is_leader' = [u \in Threads |->
       IF is_leader[t] /\ waiters # <<>> /\ u = Head(waiters) THEN TRUE
       ELSE IF u = t THEN FALSE ELSE is_leader[u]]
  /\ Leave(t)
  /\ UNCHANGED <<in_progress, waiters, wlock, completed, cq, comp, op, arg, succ>>

TransferLeaderSilent(t) ==
  /\ pc[t] = "transfer"
  /\ is_leader[t] => wlock = NoThread
  /\ is_leader' = [u \in Threads |->
       IF is_leader[t] /\ waiters # <<>> /\ u = Head(waiters) THEN TRUE
       ELSE IF u = t THEN FALSE ELSE is_leader[u]]
  /\ in_progress' = (in_progress /\ ~(is_leader[t] /\ waiters = <<>>))
  /\ Leave(t)
  /\ UNCHANGED <<waiters, wlock, completed, cq, comp, op, arg, succ>>

\* transfer_leader_and_wake up to the lock of the successor's mutex, which is
\* taken with waiters_mutex still held.
TransferLeader(t) ==
  /\ pc[t] = "transfer"
  /\ \/ /\ ~is_leader[t]
        /\ Leave(t)
        /\ UNCHANGED <<in_progress, is_leader, wlock, succ>>
     \/ /\ is_leader[t]
        /\ wlock = NoThread
        /\ waiters = <<>>
        /\ in_progress' = FALSE
        /\ is_leader' = [is_leader EXCEPT ![t] = FALSE]
        /\ Leave(t)
        /\ UNCHANGED <<wlock, succ>>
     \/ /\ is_leader[t]
        /\ wlock = NoThread
        /\ waiters # <<>>
        /\ is_leader' = [is_leader EXCEPT ![t] = FALSE, ![Head(waiters)] = TRUE]
        /\ IF HasCv(Head(waiters))
           THEN /\ wlock' = t
                /\ succ' = [succ EXCEPT ![t] = Head(waiters)]
                /\ pc' = [pc EXCEPT ![t] = "notify"]
                /\ UNCHANGED rlock
           ELSE /\ Leave(t)
                /\ UNCHANGED <<wlock, succ>>
        /\ UNCHANGED in_progress
  /\ UNCHANGED <<waiters, completed, cq, comp, op, arg>>

\* The threads asleep on the condition variable of request r.
Sleepers(r) == {u \in Threads : pc[u] = "blocked" /\ arg[u] = r}

\* transfer_leader_and_wake: lock the successor's request and notify_one.
NotifySuccessor(t) ==
  /\ pc[t] = "notify"
  /\ LET r == arg[succ[t]]
         left == [pc EXCEPT ![t] = "idle"]
     IN  /\ rlock[r] = NoThread
         /\ IF Sleepers(r) = {} THEN pc' = left
            ELSE \E u \in Sleepers(r) : pc' = [left EXCEPT ![u] = "check"]
  /\ wlock' = NoThread
  /\ succ' = [succ EXCEPT ![t] = NoThread]
  /\ rlock' = IF op[t] = "test" THEN [rlock EXCEPT ![arg[t]] = NoThread] ELSE rlock
  /\ UNCHANGED <<in_progress, waiters, is_leader, completed, cq, comp, op, arg>>

-----------------------------------------------------------------------------
(* The bodies of the calls between constructor and destructor.             *)

\* wait: the predicate is evaluated with request.mutex held; sleeping releases
\* the mutex in the same step (condition_variable::wait).
CheckWait(t) ==
  /\ pc[t] = "check"
  /\ op[t] = "wait"
  /\ rlock[arg[t]] = NoThread
  /\ pc' = [pc EXCEPT ![t] = IF completed[arg[t]] THEN "unregister"
                             ELSE IF is_leader[t] THEN "read" ELSE "blocked"]
  /\ UNCHANGED <<in_progress, waiters, is_leader, wlock, rlock, completed, cq,
                 comp, op, arg, succ>>

\* test releases request.mutex around progress.
CheckTest(t) ==
  /\ pc[t] = "check"
  /\ op[t] = "test"
  /\ IF is_leader[t]
     THEN /\ pc' = [pc EXCEPT ![t] = "read"]
          /\ rlock' = [rlock EXCEPT ![arg[t]] = NoThread]
     ELSE /\ pc' = [pc EXCEPT ![t] = "unregister"]
          /\ UNCHANGED rlock
  /\ UNCHANGED <<in_progress, waiters, is_leader, wlock, completed, cq, comp, op,
                 arg, succ>>

CheckProtectedProgress(t) ==
  /\ pc[t] = "check"
  /\ op[t] = "protected_progress"
  /\ pc' = [pc EXCEPT ![t] = IF is_leader[t] THEN "read" ELSE "unregister"]
  /\ UNCHANGED <<in_progress, waiters, is_leader, wlock, rlock, completed, cq,
                 comp, op, arg, succ>>

\* progress: fi_cq_read takes what the provider has queued.
CqRead(t) ==
  /\ pc[t] = "read"
  /\ comp' = [comp EXCEPT ![t] = cq]
  /\ cq' = {}
  /\ pc' = [pc EXCEPT ![t] = "handle"]
  /\ UNCHANGED <<in_progress, waiters, is_leader, wlock, rlock, completed, op,
                 arg, succ>>

\* lfi_request::complete, under request.mutex: the request is completed and
\* cv.notify_all wakes every thread that sleeps on it.
CompleteEntry(t, r) ==
  /\ pc[t] = "handle"
  /\ r \in comp[t]
  /\ rlock[r] = NoThread
  /\ comp' = [comp EXCEPT ![t] = @ \ {r}]
  /\ completed' = [completed EXCEPT ![r] = TRUE]
  /\ pc' = [u \in Threads |-> IF u \in Sleepers(r) THEN "check" ELSE pc[u]]
  /\ UNCHANGED <<in_progress, waiters, is_leader, wlock, rlock, cq, op, arg, succ>>

\* progress returns: wait loops until its own request is completed.
EndProgress(t) ==
  /\ pc[t] = "handle"
  /\ comp[t] = {}
  /\ pc' = [pc EXCEPT ![t] =
              CASE op[t] = "wait" -> IF completed[arg[t]] THEN "check" ELSE "read"
                [] op[t] = "test" -> "relock"
                [] OTHER          -> "unregister"]
  /\ UNCHANGED <<in_progress, waiters, is_leader, wlock, rlock, completed, cq,
                 comp, op, arg, succ>>

\* test takes request.mutex again and keeps it until it returns.
Relock(t) ==
  /\ pc[t] = "relock"
  /\ rlock[arg[t]] = NoThread
  /\ rlock' = [rlock EXCEPT ![arg[t]] = t]
  /\ pc' = [pc EXCEPT ![t] = "unregister"]
  /\ UNCHANGED <<in_progress, waiters, is_leader, wlock, completed, cq, comp, op,
                 arg, succ>>

-----------------------------------------------------------------------------
\* The steps of a thread inside the library.
Step(t) ==
  \/ TryAcquire(t) \/ RegisterWaiter(t) \/ UnregisterWaiter(t)
  \/ TransferLeader(t) \/ NotifySuccessor(t)
  \/ CheckWait(t) \/ CheckTest(t) \/ CheckProtectedProgress(t)
  \/ CqRead(t) \/ (\E r \in Requests : CompleteEntry(t, r)) \/ EndProgress(t)
  \/ Relock(t)

Call(t) ==
  \/ \E r \in MayWait[t] : BeginWait(t, r)
  \/ \E r \in MayTest[t] : BeginTest(t, r)
  \/ t \in Cancellers /\ BeginProtectedProgress(t)

Next ==
  \/ \E t \in Threads : Step(t) \/ Call(t)
  \/ \E r \in Requests : Post(r) \/ Arrive(r)

Spec == Init /\ [][Next]_vars

(* Fairness: the scheduler runs a thread that can take a step inside the   *)
(* library (SF where it competes for a mutex), and the fabric eventually   *)
(* finishes an outstanding operation.  Nobody has to call the library.     *)
Fairness ==
  /\ \A t \in Threads : SF_vars(Step(t))
  /\ \A r \in Requests : WF_vars(Arrive(r))

FairSpec == Spec /\ Fairness

-----------------------------------------------------------------------------
(* Properties.                                                             *)

\* Type correctness of the endpoint, its requests and the guards.
TypeOK ==
  /\ in_progress \in BOOLEAN
  /\ waiters \in Seq(Threads)
  /\ is_leader \in [Threads -> BOOLEAN]
  /\ wlock \in Threads \cup {NoThread}
  /\ rlock \in [Requests -> Threads \cup {NoThread}]
  /\ completed \in [Requests -> BOOLEAN]
  /\ cq \in SUBSET Requests
  /\ comp \in [Threads -> SUBSET Requests]
  /\ pc \in [Threads -> PCs]
  /\ op \in [Threads -> Ops]
  /\ arg \in [Threads -> Requests]
  /\ succ \in [Threads -> Threads \cup {NoThread}]

\* Threads whose guard is in waiters_list.
Registered == {t \in Threads :
  pc[t] \in {"check", "blocked", "read", "handle", "relock", "unregister"}}

\* waiters_list holds every live registered guard exactly once, and no guard
\* whose thread has already destroyed it (progress_guard.cpp, register_waiter
\* and unregister_waiter): transfer_leader_and_wake never dereferences a guard
\* of a finished call.
WaitersAreLive ==
  /\ IsInjective(waiters)
  /\ \A t \in Threads : Contains(waiters, t) <=> t \in Registered

\* Leadership is exclusive and never leaks: in_progress is true exactly when
\* one live guard is the leader, so no call can return and leave the endpoint
\* marked busy with nobody to make progress (transfer_leader_and_wake).
LeadershipHeld ==
  /\ \A t, u \in Threads : is_leader[t] /\ is_leader[u] => t = u
  /\ \A t \in Threads : is_leader[t] => pc[t] \notin {"idle", "acquire", "notify"}
  /\ in_progress <=> \E t \in Threads : is_leader[t]

\* lfi_endpoint::progress is never run by two threads at once: the completion
\* queue, the callback queue and the fault-tolerance state have one reader.
SingleProgress ==
  \A t, u \in Threads :
    pc[t] \in {"read", "handle"} /\ pc[u] \in {"read", "handle"} => t = u

\* A thread asleep in wait whose predicate has become true (its request is
\* completed or it was made leader) has a notification on its way: neither
\* complete nor transfer_leader_and_wake loses a wake-up, provided no two
\* threads use the same request.
NoLostWakeup ==
  \A t \in Threads :
    pc[t] = "blocked" /\ (completed[arg[t]] \/ is_leader[t]) =>
      \E u \in Threads : pc[u] = "notify" /\ succ[u] = t

\* Every request is used by at most one thread.
PrivateRequests ==
  \A t, u \in Threads : \A r \in MayWait[t] \cup MayTest[t] :
    r \in MayWait[u] \cup MayTest[u] => t = u

\* "This function blocks until the given request is completed": a wait whose
\* operation the fabric finishes returns.
WaitReturns ==
  \A t \in Threads : (pc[t] # "idle" /\ op[t] = "wait") ~> pc[t] = "idle"

=============================================================================
