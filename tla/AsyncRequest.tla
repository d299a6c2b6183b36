---------------------------- MODULE AsyncRequest ----------------------------
(***************************************************************************)
(* What an asynchronous request promises to the application (lfi_async.h):  *)
(* an operation posted on it ends once, with one error; what it reports is  *)
(* then left alone until the request is posted again; and its callback is   *)
(* queued as it ends, and runs later.  Queues, contexts, locks, cancellation *)
(* and the completion queue of the provider are not seen.                   *)
(***************************************************************************)
EXTENDS Naturals, Sequences, SequencesExt

CONSTANTS Requests, Errors, Sizes

VARIABLES
  running,    \* an operation is posted on the request and has not ended
  count,      \* operations posted on it so far
  error,      \* lfi_request::error
  size,       \* lfi_request::size
  callbacks,  \* callbacks of ended operations, oldest first
  called      \* callbacks that have run

avars == <<running, count, error, size, callbacks, called>>

AInit ==
  /\ running = [r \in Requests |-> FALSE]
  /\ count = [r \in Requests |-> 0]
  /\ error = [r \in Requests |-> "SUCCESS"]
  /\ size = [r \in Requests |-> "0"]
  /\ callbacks = <<>> /\ called = {}

\* A request is posted when no operation is running on it.
APost(r) ==
  /\ ~running[r]
  /\ running' = [running EXCEPT ![r] = TRUE]
  /\ count' = [count EXCEPT ![r] = @ + 1]
  /\ error' = [error EXCEPT ![r] = "SUCCESS"]
  /\ \E s \in Sizes : size' = [size EXCEPT ![r] = s]
  /\ UNCHANGED <<callbacks, called>>

\* The library fills in a request while its operation runs.
AFill(r) ==
  /\ running[r]
  /\ \E s \in Sizes : size' = [size EXCEPT ![r] = s]
  /\ UNCHANGED <<running, count, error, callbacks, called>>

\* A running operation ends.
AEnd(r) ==
  /\ running[r]
  /\ running' = [running EXCEPT ![r] = FALSE]
  /\ \E e \in Errors : error' = [error EXCEPT ![r] = e]
  /\ callbacks' = Append(callbacks, <<r, count[r]>>)
  /\ UNCHANGED <<count, size, called>>

ARunCallbacks ==
  /\ called' = called \cup ToSet(callbacks)
  /\ callbacks' = <<>>
  /\ UNCHANGED <<running, count, error, size>>

ANext ==
  \/ \E r \in Requests : APost(r) \/ AFill(r) \/ AEnd(r)
  \/ ARunCallbacks

ASpec == AInit /\ [][ANext]_avars

\* No operation's callback runs twice or before the operation has ended: one
\* that is queued has not run, and is queued once, and neither is there for an
\* operation that still runs.
CallbackOnce ==
  /\ IsInjective(callbacks)
  /\ ToSet(callbacks) \cap called = {}
  /\ \A e \in ToSet(callbacks) \cup called :
       e[2] <= count[e[1]] /\ (running[e[1]] => e[2] < count[e[1]])
=============================================================================
