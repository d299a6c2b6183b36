-------------------------- MODULE RequestLifecycle --------------------------
(***************************************************************************)
(* The life of an asynchronous operation on one endpoint and one            *)
(* communicator: async_send/recv/put/get queue it, post_pending_ops hands   *)
(* it to libfabric, progress reads its completion and completes the         *)
(* request, cancel withdraws it, and the lfi_request_context that links the *)
(* three is recycled through lfi_request_context_factory.                   *)
(*                                                                         *)
(* Grain: one step per critical section or atomic access, and the mutexes   *)
(* a thread keeps while it waits for another one are variables (rmutex,     *)
(* ft_mutex, pending_ops_mutex).  The leader of the endpoint is a variable: *)
(* that at most one thread runs progress is what module ProgressGuard       *)
(* shows.  The queues are sequences: that the ring buffer is one is what    *)
(* VectorQueue shows.                                                       *)
(*                                                                         *)
(* Each request is used by one thread (Owner), which posts it again once it *)
(* is completed; every request has a callback.  The vector forms behave as  *)
(* SEND and RECV.  The communicator exists and is not canceled, so           *)
(* the early returns of async_* (no such communicator, broken communicator, *)
(* ANY_COMM, IOV limit), which change nothing, do not occur.                *)
(***************************************************************************)
EXTENDS Naturals, Sequences, SequencesExt, FiniteSets

CONSTANTS
  Threads, Requests, Contexts,
  PriorityRequests,  \* requests posted with priority = true (the heartbeat)
  FT,                \* LFI_fault_tolerance
  Workloads,         \* the ways the application uses the library, see below
  Null               \* nullptr, "mutex not held"

Types == {"SEND", "INJECT", "RECV", "PUT", "GET"}

(* A workload: the threads that take part, the owner of each request, the   *)
(* threads that call lfi_cancel, the operations used, whether fi_tsend and  *)
(* friends may fail with a hard error, the entries per fi_cq_read           *)
(* (MAX_COMP_COUNT, 8 in the code) and the bound on the operations posted   *)
(* on each request.                                                         *)
ASSUME LifecycleAssumption ==
  /\ PriorityRequests \subseteq Requests /\ FT \in BOOLEAN
  /\ Null \notin Threads \cup Requests \cup Contexts
  /\ \A w \in Workloads :
       /\ w.threads \subseteq Threads /\ w.cancellers \subseteq w.threads
       /\ w.owner \in [Requests -> w.threads] /\ w.types \subseteq Types
       /\ w.errors \in BOOLEAN /\ w.entries \in Nat \ {0} /\ w.posts \in [Requests -> Nat]

VARIABLES
  workload,                       \* the workload of this behaviour
  wait_context, error, op_type,   \* fields of lfi_request
  size,                           \* its size: 0, the size "asked" for or "got"
  ctx_req,                        \* lfi_request_context::request
  pool,                           \* lfi_request_context_factory::m_queue, back last
  priority_ops, pending_ops,      \* lfi_pending_op queues, front first
  posted,                         \* contexts of operations the provider holds
  fi_canceled,                    \* those of them fi_cancel was called on
  cq,                             \* completion queue of the provider
  comp, more,                     \* progress: entries read, "read again"
  callbacks,                      \* lfi_endpoint::callbacks
  ft_requests,                    \* lfi_comm::ft_requests
  rmutex, ft_mutex, pending_ops_mutex,
  leader,                         \* the thread that runs progress
  pc,
  call,                           \* the running call of complete
  cancelling,                     \* the running call of cancel
  created,                        \* contexts the factory has allocated
  gen, ended, called, collided    \* history: see below

(* History variables.  gen[r] numbers the operations posted on r; the       *)
(* operation <<r, k>> travels with its pending op, with the provider and    *)
(* with its completion entry (field op); ended[r] is the operation whose    *)
(* completion or cancellation completed r last; called, the callbacks run;  *)
(* collided, two threads have completed one request at the same time.       *)

reqVars == <<wait_context, error, op_type, size, gen, ended>>
ctxVars == <<ctx_req, pool, created>>
queueVars == <<priority_ops, pending_ops>>
fabricVars == <<posted, fi_canceled, cq>>
readVars == <<comp, more>>
cbVars == <<callbacks, called>>
lockVars == <<rmutex, ft_mutex, pending_ops_mutex, leader>>
vars == <<reqVars, ctxVars, queueVars, fabricVars, readVars, cbVars, lockVars,
          ft_requests, pc, call, cancelling, workload, collided>>

Owner == workload.owner
MaxPosts == workload.posts
OpTypes == workload.types
MAX_COMP_COUNT == workload.entries

Errors == {"SUCCESS", "LIBFABRIC_ERROR", "CANCELED"}
NoCall == [req |-> Null, err |-> "SUCCESS", op |-> <<>>, ctx |-> Null, ret |-> "idle"]
NoCancel == [req |-> Null, op |-> <<>>]

Init ==
  /\ workload \in Workloads
  /\ wait_context = [r \in Requests |-> Null]
  /\ error = [r \in Requests |-> "SUCCESS"]
  /\ op_type = [r \in Requests |-> "NONE"]
  /\ size = [r \in Requests |-> "0"]
  /\ ctx_req = [c \in Contexts |-> Null]
  /\ pool = <<>> /\ priority_ops = <<>> /\ pending_ops = <<>>
  /\ posted = {} /\ fi_canceled = {} /\ cq = <<>>
  /\ comp = <<>> /\ more = FALSE
  /\ callbacks = <<>> /\ called = {}
  /\ ft_requests = {}
  /\ rmutex = [r \in Requests |-> Null]
  /\ ft_mutex = Null /\ pending_ops_mutex = Null /\ leader = Null
  /\ pc = [t \in Threads |-> "idle"]
  /\ call = [t \in Threads |-> NoCall]
  /\ cancelling = [t \in Threads |-> NoCancel]
  /\ gen = [r \in Requests |-> 0]
  /\ ended = [r \in Requests |-> <<r, 0>>]
  /\ created = {}
  /\ collided = FALSE

Goto(t, l) == pc' = [pc EXCEPT ![t] = l]

-----------------------------------------------------------------------------
(* async_send_internal, async_recv_internal, async_put, async_get.         *)

\* The application posts an operation on a completed request of its own.
PostBegin(t, r) ==
  /\ pc[t] = "idle"
  /\ Owner[r] = t
  /\ wait_context[r] = Null
  /\ gen[r] < MaxPosts[r]
  /\ rmutex[r] = Null
  /\ rmutex' = [rmutex EXCEPT ![r] = t]
  /\ call' = [call EXCEPT ![t].req = r]
  /\ Goto(t, "reset")
  /\ UNCHANGED <<workload, reqVars, ctxVars, queueVars, fabricVars, readVars, cbVars,
                 ft_mutex, pending_ops_mutex, leader, ft_requests, cancelling>>

\* lfi_request_context_factory::create: recycle the back of the pool, or
\* allocate.
CreateContext(r, c) ==
  /\ IF pool # <<>> THEN c = Last(pool) /\ pool' = Front(pool)
     ELSE c \in Contexts \ created /\ pool' = pool
  /\ ctx_req' = [ctx_req EXCEPT ![c] = r]
  /\ created' = created \cup {c}

\* What the four calls write after reset.  A receive writes its size only after
\* the push (PostPush).
AsyncSend(r) ==
  /\ \E type \in OpTypes \cap {"SEND", "INJECT"} : op_type' = [op_type EXCEPT ![r] = type]
  /\ size' = [size EXCEPT ![r] = "asked"]

AsyncRecv(r) ==
  /\ "RECV" \in OpTypes
  /\ op_type' = [op_type EXCEPT ![r] = "RECV"]
  /\ size' = [size EXCEPT ![r] = "0"]

AsyncPut(r) ==
  /\ "PUT" \in OpTypes
  /\ op_type' = [op_type EXCEPT ![r] = "PUT"]
  /\ size' = [size EXCEPT ![r] = "asked"]

AsyncGet(r) ==
  /\ "GET" \in OpTypes
  /\ op_type' = [op_type EXCEPT ![r] = "GET"]
  /\ size' = [size EXCEPT ![r] = "asked"]

\* With request.mutex and, for fault tolerance, comm->ft_mutex held: reset and
\* create the context.
PostReset(t) ==
  LET r == call[t].req
  IN  /\ pc[t] = "reset"
      /\ FT => ft_mutex = Null
      /\ ft_mutex' = IF FT THEN t ELSE ft_mutex
      /\ AsyncSend(r) \/ AsyncRecv(r) \/ AsyncPut(r) \/ AsyncGet(r)
      /\ \E c \in Contexts :
           /\ CreateContext(r, c)
           /\ wait_context' = [wait_context EXCEPT ![r] = c]
      /\ error' = [error EXCEPT ![r] = "SUCCESS"]
      /\ gen' = [gen EXCEPT ![r] = @ + 1]
      /\ Goto(t, "push")
      /\ UNCHANGED <<workload, ended, queueVars, fabricVars, readVars, cbVars, rmutex,
                     pending_ops_mutex, leader, ft_requests, call, cancelling>>

\* Push under pending_ops_mutex, then release request.mutex.
PostPush(t) ==
  LET r == call[t].req
      new == [ctx |-> wait_context[r], type |-> op_type[r], op |-> <<r, gen[r]>>]
  IN  /\ pc[t] = "push"
      /\ pending_ops_mutex = Null
      /\ IF r \in PriorityRequests
         THEN priority_ops' = Append(priority_ops, new) /\ UNCHANGED pending_ops
         ELSE pending_ops' = Append(pending_ops, new) /\ UNCHANGED priority_ops
      /\ size' = [size EXCEPT ![r] = "asked"]
      /\ rmutex' = [rmutex EXCEPT ![r] = Null]
      /\ Goto(t, "register")
      /\ UNCHANGED <<workload, wait_context, error, op_type, gen, ended, ctxVars, fabricVars, readVars, cbVars, ft_mutex,
                     pending_ops_mutex, leader, ft_requests, call, cancelling>>

\* Mutant: the request is not entered in the fault-tolerance list.
RegisterRequestNot(t) ==
  /\ pc[t] = "register"
  /\ ft_mutex' = IF FT THEN Null ELSE ft_mutex
  /\ call' = [call EXCEPT ![t] = NoCall]
  /\ Goto(t, "idle")
  /\ UNCHANGED <<workload, reqVars, ctxVars, queueVars, fabricVars, readVars, cbVars, rmutex,
                 pending_ops_mutex, leader, ft_requests, cancelling>>

\* Mutant: a receive writes its size after it has released request.mutex.
RegisterRequestSize(t) ==
  /\ pc[t] = "register"
  /\ ft_requests' = IF FT THEN ft_requests \cup {call[t].req} ELSE ft_requests
  /\ ft_mutex' = IF FT THEN Null ELSE ft_mutex
  /\ size' = [size EXCEPT ![call[t].req] = "asked"]
  /\ call' = [call EXCEPT ![t] = NoCall]
  /\ Goto(t, "idle")
  /\ UNCHANGED <<workload, wait_context, error, op_type, gen, ended, ctxVars, queueVars,
                 fabricVars, readVars, cbVars, rmutex, pending_ops_mutex, leader,
                 cancelling>>

\* register_request, and the return of the call, which releases ft_mutex.
RegisterRequest(t) ==
  /\ pc[t] = "register"
  /\ ft_requests' = IF FT THEN ft_requests \cup {call[t].req} ELSE ft_requests
  /\ ft_mutex' = IF FT THEN Null ELSE ft_mutex
  /\ call' = [call EXCEPT ![t] = NoCall]
  /\ Goto(t, "idle")
  /\ UNCHANGED <<workload, reqVars, ctxVars, queueVars, fabricVars, readVars, cbVars, rmutex,
                 pending_ops_mutex, leader, cancelling>>

-----------------------------------------------------------------------------
(* lfi_request::complete, called from progress, post_pending_ops and cancel.*)

\* Enter complete(err) of request r for operation op; resume at ret.
EnterComplete(t, r, err, op, c, ret) ==
  call' = [call EXCEPT ![t] = [req |-> r, err |-> err, op |-> op, ctx |-> c, ret |-> ret]]

\* Mutant: complete does not check whether the request is completed.
CompleteCheckNot(t) ==
  /\ pc[t] = "complete"
  /\ Goto(t, IF FT THEN "ft_complete" ELSE "finish")
  /\ UNCHANGED <<workload, reqVars, ctxVars, queueVars, fabricVars, readVars, cbVars, lockVars,
                 ft_requests, call, cancelling>>

\* The check that the request is not completed yet is made without a lock.
CompleteCheck(t) ==
  /\ pc[t] = "complete"
  /\ Goto(t, IF wait_context[call[t].req] = Null THEN call[t].ret
             ELSE IF FT THEN "ft_complete" ELSE "finish")
  /\ UNCHANGED <<workload, reqVars, ctxVars, queueVars, fabricVars, readVars, cbVars, lockVars,
                 ft_requests, call, cancelling>>

\* on_request_complete: the request leaves the intrusive list.  Erasing a node
\* that is not in the list resets head and tail.
FtComplete(t) ==
  LET r == call[t].req
  IN  /\ pc[t] = "ft_complete"
      /\ ft_mutex = Null
      /\ ft_requests' = IF r \in ft_requests THEN ft_requests \ {r} ELSE {}
      /\ Goto(t, "finish")
      /\ UNCHANGED <<workload, reqVars, ctxVars, queueVars, fabricVars, readVars, cbVars,
                     lockVars, call, cancelling>>

\* Mutant: the context keeps its pointer to the request.
CompleteLockedAssigned(t) ==
  LET r == call[t].req
  IN  /\ pc[t] = "finish" /\ rmutex[r] = Null
      /\ error' = [error EXCEPT ![r] = call[t].err]
      /\ wait_context' = [wait_context EXCEPT ![r] = Null]
      /\ callbacks' = Append(callbacks, <<r, gen[r]>>)
      /\ ended' = [ended EXCEPT ![r] = call[t].op]
      /\ Goto(t, call[t].ret)
      /\ UNCHANGED <<workload, op_type, size, gen, ctxVars, queueVars, fabricVars, readVars, called,
                     lockVars, ft_requests, call, cancelling>>

\* Under request.mutex: error, context, wait_context, callback.
CompleteLocked(t) ==
  LET r == call[t].req
      c == wait_context[r]
  IN  /\ pc[t] = "finish"
      /\ rmutex[r] = Null
      /\ error' = [error EXCEPT ![r] = call[t].err]
      /\ ctx_req' = IF c # Null THEN [ctx_req EXCEPT ![c] = Null] ELSE ctx_req
      /\ wait_context' = [wait_context EXCEPT ![r] = Null]
      /\ callbacks' = Append(callbacks, <<r, gen[r]>>)
      /\ ended' = [ended EXCEPT ![r] = call[t].op]
      /\ Goto(t, call[t].ret)
      /\ UNCHANGED <<workload, op_type, size, gen, pool, created, queueVars, fabricVars, readVars,
                     called, lockVars, ft_requests, call, cancelling>>

-----------------------------------------------------------------------------
(* lfi_endpoint::progress.                                                 *)

\* lfi_request_context_factory::destroy.
DestroyContext(c) ==
  /\ pool' = Append(pool, c)
  /\ ctx_req' = [ctx_req EXCEPT ![c] = Null]
  /\ UNCHANGED created

\* A wait or test becomes leader and runs progress.
ProgressBegin(t) ==
  /\ t \in workload.threads
  /\ pc[t] = "idle"
  /\ leader = Null
  /\ leader' = t
  /\ Goto(t, "read")
  /\ UNCHANGED <<workload, reqVars, ctxVars, queueVars, fabricVars, readVars, cbVars, rmutex,
                 ft_mutex, pending_ops_mutex, ft_requests, call, cancelling>>

\* Length of the run of successful entries at the front of the queue.
SuccessRun ==
  LET fail == {i \in 1..Len(cq) : cq[i].err # "SUCCESS"}
  IN  IF fail = {} THEN Len(cq) ELSE (CHOOSE i \in fail : \A j \in fail : i <= j) - 1

\* fi_cq_read returns the successful entries at the front, at most
\* MAX_COMP_COUNT; fi_cq_readerr returns one failed entry.
CqRead(t) ==
  LET run == SuccessRun
      n == IF cq # <<>> /\ run = 0 THEN 1
           ELSE IF run < MAX_COMP_COUNT THEN run ELSE MAX_COMP_COUNT
  IN  /\ pc[t] = "read"
      /\ comp' = SubSeq(cq, 1, n)
      /\ cq' = SubSeq(cq, n + 1, Len(cq))
      /\ more' = (n = MAX_COMP_COUNT \/ (cq # <<>> /\ run = 0))
      /\ Goto(t, "entry")
      /\ UNCHANGED <<workload, reqVars, ctxVars, queueVars, posted, fi_canceled, cbVars, lockVars,
                     ft_requests, call, cancelling>>

\* Mutants: the context returns to the pool before complete; only the first entry
\* of a batch is handled.
HandleEntryDestroyFirst(t) ==
  LET e == Head(comp)
  IN  /\ pc[t] = "entry" /\ comp # <<>>
      /\ comp' = Tail(comp)
      /\ DestroyContext(e.ctx)
      /\ IF ctx_req[e.ctx] = Null
         THEN UNCHANGED <<pc, call>>
         ELSE /\ EnterComplete(t, ctx_req[e.ctx], e.err, e.op, e.ctx, "destroy")
              /\ Goto(t, "complete")
      /\ UNCHANGED <<workload, reqVars, queueVars, fabricVars, more, cbVars, lockVars,
                     ft_requests, cancelling>>

HandleEntryFirstOnly(t) ==
  LET e == Head(comp)
  IN  /\ pc[t] = "entry" /\ comp # <<>>
      /\ comp' = <<>>
      /\ IF ctx_req[e.ctx] = Null
         THEN /\ DestroyContext(e.ctx)
              /\ UNCHANGED <<pc, call>>
         ELSE /\ EnterComplete(t, ctx_req[e.ctx], e.err, e.op, e.ctx, "destroy")
              /\ Goto(t, IF e.err = "SUCCESS" THEN "fill" ELSE "complete")
              /\ UNCHANGED ctxVars
      /\ UNCHANGED <<workload, reqVars, queueVars, fabricVars, more, cbVars, lockVars,
                     ft_requests, cancelling>>

\* One entry: get_request; an entry of a context without a request only
\* returns the context to the pool.
HandleEntry(t) ==
  LET e == Head(comp)
      r == ctx_req[e.ctx]
  IN  /\ pc[t] = "entry"
      /\ comp # <<>>
      /\ comp' = Tail(comp)
      /\ IF r = Null
         THEN /\ DestroyContext(e.ctx)
              /\ UNCHANGED <<pc, call>>
         ELSE /\ EnterComplete(t, r, e.err, e.op, e.ctx, "destroy")
              /\ Goto(t, IF e.err = "SUCCESS" THEN "fill" ELSE "complete")
              /\ UNCHANGED ctxVars
      /\ UNCHANGED <<workload, reqVars, queueVars, fabricVars, more, cbVars, lockVars,
                     ft_requests, cancelling>>

\* Size, tag and source of a receive are written under request.mutex.
FillRequest(t) ==
  /\ pc[t] = "fill"
  /\ rmutex[call[t].req] = Null
  /\ size' = IF op_type[call[t].req] = "RECV"
             THEN [size EXCEPT ![call[t].req] = "got"] ELSE size
  /\ Goto(t, "complete")
  /\ UNCHANGED <<workload, wait_context, error, op_type, gen, ended, ctxVars, queueVars,
                 fabricVars, readVars, cbVars, lockVars, ft_requests, call, cancelling>>

\* Back from complete: the context returns to the pool.
DestroyEntry(t) ==
  /\ pc[t] = "destroy"
  /\ DestroyContext(call[t].ctx)
  /\ call' = [call EXCEPT ![t] = NoCall]
  /\ Goto(t, "entry")
  /\ UNCHANGED <<workload, reqVars, queueVars, fabricVars, readVars, cbVars, lockVars,
                 ft_requests, cancelling>>

\* The batch is finished: read again, or go on to post_pending_ops.
EndBatch(t) ==
  /\ pc[t] = "entry"
  /\ comp = <<>>
  /\ IF more
     THEN Goto(t, "read") /\ UNCHANGED pending_ops_mutex
     ELSE /\ pending_ops_mutex = Null
          /\ pending_ops_mutex' = t
          /\ Goto(t, "post")
  /\ UNCHANGED <<workload, reqVars, ctxVars, queueVars, fabricVars, readVars, cbVars, rmutex,
                 ft_mutex, leader, ft_requests, call, cancelling>>

\* The queue post_pending_ops works on: pending_ops waits for priority_ops.
FrontOp == IF priority_ops # <<>> THEN Head(priority_ops) ELSE Head(pending_ops)

PopFront ==
  IF priority_ops # <<>>
  THEN priority_ops' = Tail(priority_ops) /\ UNCHANGED pending_ops
  ELSE pending_ops' = Tail(pending_ops) /\ UNCHANGED priority_ops

SomeOp == priority_ops # <<>> \/ pending_ops # <<>>

\* The provider accepts an operation that will be completed by an entry.
PostAccepted(t) ==
  /\ pc[t] = "post"
  /\ SomeOp
  /\ FrontOp.type # "INJECT"
  /\ posted' = posted \cup {[ctx |-> FrontOp.ctx, op |-> FrontOp.op]}
  /\ PopFront
  /\ UNCHANGED <<workload, reqVars, ctxVars, fi_canceled, cq, readVars, cbVars, lockVars,
                 ft_requests, pc, call, cancelling>>

\* An accepted inject has no entry: it is completed here, with
\* pending_ops_mutex held, and its context returns to the pool.
PostInjected(t) ==
  LET c == FrontOp.ctx
  IN  /\ pc[t] = "post"
      /\ SomeOp
      /\ FrontOp.type = "INJECT"
      /\ IF ctx_req[c] # Null
         THEN /\ EnterComplete(t, ctx_req[c], "SUCCESS", FrontOp.op, c, "injected")
              /\ Goto(t, "complete")
              /\ UNCHANGED <<ctxVars, queueVars>>
         ELSE /\ DestroyContext(c)
              /\ PopFront
              /\ UNCHANGED <<pc, call>>
      /\ UNCHANGED <<workload, reqVars, fabricVars, readVars, cbVars, lockVars, ft_requests,
                     cancelling>>

FinishInjected(t) ==
  /\ pc[t] = "injected"
  /\ DestroyContext(call[t].ctx)
  /\ PopFront
  /\ call' = [call EXCEPT ![t] = NoCall]
  /\ Goto(t, "post")
  /\ UNCHANGED <<workload, reqVars, fabricVars, readVars, cbVars, lockVars, ft_requests,
                 cancelling>>

\* A hard error completes the request; the context is not returned to the pool.
PostFailed(t) ==
  LET c == FrontOp.ctx
  IN  /\ workload.errors
      /\ pc[t] = "post"
      /\ SomeOp
      /\ IF ctx_req[c] # Null
         THEN /\ EnterComplete(t, ctx_req[c], "LIBFABRIC_ERROR", FrontOp.op, c, "failed")
              /\ Goto(t, "complete")
              /\ UNCHANGED queueVars
         ELSE PopFront /\ UNCHANGED <<pc, call>>
      /\ UNCHANGED <<workload, reqVars, ctxVars, fabricVars, readVars, cbVars, lockVars,
                     ft_requests, cancelling>>

FinishFailed(t) ==
  /\ pc[t] = "failed"
  /\ PopFront
  /\ call' = [call EXCEPT ![t] = NoCall]
  /\ Goto(t, "post")
  /\ UNCHANGED <<workload, reqVars, ctxVars, fabricVars, readVars, cbVars, lockVars,
                 ft_requests, cancelling>>

\* The queues are empty, or the provider answers FI_EAGAIN.
PostEnd(t) ==
  /\ pc[t] = "post"
  /\ pending_ops_mutex' = Null
  /\ Goto(t, "callbacks")
  /\ UNCHANGED <<workload, reqVars, ctxVars, queueVars, fabricVars, readVars, cbVars, rmutex,
                 ft_mutex, leader, ft_requests, call, cancelling>>

\* Mutant: callbacks that have run stay in the list.
RunCallbacksKeep(t) ==
  /\ pc[t] = "callbacks"
  /\ leader' = Null
  /\ IF cancelling[t].req = Null
     THEN called' = called \cup ToSet(callbacks) /\ Goto(t, "idle")
     ELSE Goto(t, "cancel_complete") /\ UNCHANGED called
  /\ UNCHANGED <<workload, reqVars, ctxVars, queueVars, fabricVars, readVars, callbacks, rmutex,
                 ft_mutex, pending_ops_mutex, ft_requests, call, cancelling>>

\* The end of progress: the callbacks run unless cancel is the caller, and
\* leadership is given up.
RunCallbacks(t) ==
  /\ pc[t] = "callbacks"
  /\ leader' = Null
  /\ IF cancelling[t].req = Null
     THEN /\ called' = called \cup ToSet(callbacks)
          /\ callbacks' = <<>>
          /\ Goto(t, "idle")
     ELSE /\ Goto(t, "cancel_complete")
          /\ UNCHANGED cbVars
  /\ UNCHANGED <<workload, reqVars, ctxVars, queueVars, fabricVars, readVars, rmutex, ft_mutex,
                 pending_ops_mutex, ft_requests, call, cancelling>>

-----------------------------------------------------------------------------
(* lfi_request::cancel.                                                    *)

\* erase_if: the operations of a queue with another context than c, in order.
EraseIf(ops, c) ==
  LET kept[i \in 0..Len(ops)] ==
        IF i = 0 THEN <<>>
        ELSE IF ops[i].ctx = c THEN kept[i - 1] ELSE Append(kept[i - 1], ops[i])
  IN  kept[Len(ops)]

\* erase_if on both queues, under pending_ops_mutex.
CancelErase(t, r) ==
  /\ pc[t] = "idle"
  /\ t \in workload.cancellers
  /\ Owner[r] = t
  /\ pending_ops_mutex = Null
  /\ IF wait_context[r] # Null
     THEN /\ priority_ops' = EraseIf(priority_ops, wait_context[r])
          /\ pending_ops' = EraseIf(pending_ops, wait_context[r])
     ELSE UNCHANGED queueVars
  /\ cancelling' = [cancelling EXCEPT ![t] = [req |-> r, op |-> <<r, gen[r]>>]]
  /\ Goto(t, "cancel")
  /\ UNCHANGED <<workload, reqVars, ctxVars, fabricVars, readVars, cbVars, lockVars,
                 ft_requests, call>>

\* Under request.mutex: a completed request is left alone, an operation other
\* than an inject is cancelled at the provider.
CancelLocked(t) ==
  LET r == cancelling[t].req
  IN  /\ pc[t] = "cancel"
      /\ rmutex[r] = Null
      /\ IF wait_context[r] = Null
         THEN /\ Goto(t, "idle")
              /\ cancelling' = [cancelling EXCEPT ![t] = NoCancel]
              /\ UNCHANGED fi_canceled
         ELSE /\ fi_canceled' = IF op_type[r] # "INJECT"
                                THEN fi_canceled \cup {p.ctx : p \in {q \in posted : q.ctx = wait_context[r]}}
                                ELSE fi_canceled
              /\ Goto(t, "cancel_progress")
              /\ UNCHANGED cancelling
      /\ UNCHANGED <<workload, reqVars, ctxVars, queueVars, posted, cq, readVars, cbVars, lockVars,
                     ft_requests, call>>

\* protected_progress(false).
CancelProgress(t) ==
  /\ pc[t] = "cancel_progress"
  /\ IF leader = Null
     THEN leader' = t /\ Goto(t, "read")
     ELSE UNCHANGED leader /\ Goto(t, "cancel_complete")
  /\ UNCHANGED <<workload, reqVars, ctxVars, queueVars, fabricVars, readVars, cbVars, rmutex,
                 ft_mutex, pending_ops_mutex, ft_requests, call, cancelling>>

CancelComplete(t) ==
  /\ pc[t] = "cancel_complete"
  /\ EnterComplete(t, cancelling[t].req, "CANCELED", cancelling[t].op, Null, "idle")
  /\ cancelling' = [cancelling EXCEPT ![t] = NoCancel]
  /\ Goto(t, "complete")
  /\ UNCHANGED <<workload, reqVars, ctxVars, queueVars, fabricVars, readVars, cbVars, lockVars,
                 ft_requests>>

-----------------------------------------------------------------------------
\* The provider ends an operation: an entry appears in the completion queue.
\* An operation fi_cancel was called on may end either way.
Arrive(p, err) ==
  /\ err = "CANCELED" => p.ctx \in fi_canceled
  /\ posted' = posted \ {p}
  /\ fi_canceled' = fi_canceled \ {p.ctx}
  /\ cq' = Append(cq, [ctx |-> p.ctx, op |-> p.op, err |-> err])
  /\ UNCHANGED <<workload, reqVars, ctxVars, queueVars, readVars, cbVars, lockVars, ft_requests,
                 pc, call, cancelling>>

\* Steps of a thread inside the library.
Step(t) ==
  \/ PostReset(t) \/ PostPush(t) \/ RegisterRequest(t)
  \/ CompleteCheck(t) \/ FtComplete(t) \/ CompleteLocked(t)
  \/ CqRead(t) \/ HandleEntry(t) \/ FillRequest(t) \/ DestroyEntry(t) \/ EndBatch(t)
  \/ PostAccepted(t) \/ PostInjected(t) \/ FinishInjected(t)
  \/ PostFailed(t) \/ FinishFailed(t) \/ PostEnd(t) \/ RunCallbacks(t)
  \/ CancelLocked(t) \/ CancelProgress(t) \/ CancelComplete(t)

Moves ==
  \/ \E t \in Threads :
       \/ Step(t)
       \/ ProgressBegin(t)
       \/ \E r \in Requests : PostBegin(t, r) \/ CancelErase(t, r)
  \/ \E p \in posted, err \in Errors : Arrive(p, err)

\* Threads between taking a request to complete it and having completed it.
Completers(r) ==
  {t \in Threads : pc[t] \in {"fill", "complete", "ft_complete", "finish"} /\ call[t].req = r}

\* Two threads complete one request, which complete checks for without a lock:
\* the canceller of the request, and the leader with an entry of its operation.
Colliding == \E r \in Requests : \E t, u \in Completers(r) : t # u

Next == Moves /\ collided' = (collided \/ Colliding')

Spec == Init /\ [][Next]_vars

-----------------------------------------------------------------------------
(* Properties.  Four of them hold until two threads have completed one      *)
(* request at the same time, which nothing in the library prevents when an  *)
(* application cancels in one thread while another one runs progress: from   *)
(* then on TLC finds each of them violated, although "it is valid to reuse   *)
(* the request when it has been completed or cancelled" (lfi_async.h:55).    *)

\* Where a context can be waiting to be used: each list of the places that
\* will dereference it later.
Places == <<[i \in DOMAIN priority_ops |-> priority_ops[i].ctx],
            [i \in DOMAIN pending_ops |-> pending_ops[i].ctx],
            [i \in DOMAIN cq |-> cq[i].ctx], [i \in DOMAIN comp |-> comp[i].ctx], pool>>

\* A context is in at most one place: in the pool, in a queue, at the provider
\* or in a completion entry.  A context recycled while libfabric still holds it
\* would deliver the completion of one operation to another (req_ctx_factory).
ContextInOnePlace ==
  /\ \A i, j \in DOMAIN Places : \A a \in DOMAIN Places[i], b \in DOMAIN Places[j] :
       Places[i][a] = Places[j][b] => i = j /\ a = b
  /\ \A p \in posted : \A i \in DOMAIN Places : p.ctx \notin ToSet(Places[i])
  /\ \A p, q \in posted : p.ctx = q.ctx => p = q
  /\ \A r \in Requests : wait_context[r] # Null => wait_context[r] \notin ToSet(pool)

\* What a caller who reuses a request relies on ("It is valid to reuse the request
\* when it has been completed or cancelled", lfi_async.h): a request is completed
\* by the completion or the cancellation of the operation that is running on it,
\* never by a late event of an earlier one.  The code violates it: of two threads
\* in complete, the second one completes what has been posted in between.
OwnCompletion == \A r \in Requests : wait_context[r] = Null => ended[r] = <<r, gen[r]>>

\* It does hold, through queues, failed posts, recycled contexts and every reuse, as
\* long as no two threads complete one request at once (complete, called from
\* progress, post_pending_ops and cancel).
CompletedByOwnOp == ~collided => OwnCompletion

\* The callback of every finished operation is queued or has run: completing
\* a request never loses it (complete, progress).
CallbackKept ==
  \A r \in Requests : \A k \in 1..gen[r] :
    (k < gen[r] \/ wait_context[r] = Null) =>
      <<r, k>> \in called \/ Contains(callbacks, <<r, k>>)

\* When no thread is inside the library, the context of every outstanding
\* operation is queued, at the provider or in its completion queue: none is
\* forgotten, whatever failed or was cancelled (post_pending_ops, progress).
NoOpForgotten ==
  (\A t \in Threads : pc[t] = "idle") =>
    \A r \in Requests : wait_context[r] # Null =>
      \/ \E p \in posted : p.ctx = wait_context[r]
      \/ \E i \in 1..3 : wait_context[r] \in ToSet(Places[i])

\* Requests a thread is posting or taking out of the list.
InTransit ==
  {call[t].req : t \in {u \in Threads : pc[u] \in {"reset", "push", "register", "finish"}}}

\* With fault tolerance the communicator's list holds exactly the outstanding
\* requests, so that cancel_comm reaches every one of them and none that has
\* finished (register_request, on_request_complete): a second completion of a
\* request, which erases a node that is not in the list, empties it.
FtListExact ==
  FT /\ ~collided => \A r \in Requests \ InTransit : r \in ft_requests <=> wait_context[r] # Null

\* A receive that succeeded reports the size of the message and not the size of
\* the buffer: the write of async_recv never overwrites that of progress, unless a
\* cancelled receive and its successor were completed at once.
ReceivedSize ==
  ~collided => \A r \in Requests :
    op_type[r] = "RECV" /\ wait_context[r] = Null /\ error[r] = "SUCCESS" => size[r] = "got"

\* What the application sees of the requests.
A == INSTANCE AsyncRequest WITH
       Sizes <- {"0", "asked", "got"},
       running <- [r \in Requests |-> wait_context[r] # Null], count <- gen

\* Until two threads complete one request at once, the threads, queues, contexts
\* and cancellations implement the requests of the interface: an operation ends
\* once, whichever of progress, post_pending_ops and cancel completes it, and what
\* its request reports is not written again before the next post (async_*,
\* progress, complete).
ImplementsRequest == A!AInit /\ [][A!ANext \/ collided']_(A!avars)

\* The callback of every finished operation is queued or has run, and until two
\* threads complete one request at once it is queued or runs once, as the operation
\* ends and not before (complete, progress).
CallbackOnce == CallbackKept /\ (~collided => A!CallbackOnce)
=============================================================================
