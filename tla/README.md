# A TLA+ model of LFI

LFI is a C++ library that gives applications connections, tagged messages,
remote memory access and collectives on top of libfabric. This directory models
how the library starts and stops, how a connection comes up and is looked up,
how threads share the progress of an endpoint, how an asynchronous operation
lives from post to completion or cancellation, how several operations are
awaited at once, how a dead peer is noticed, how a group forms and its
collectives pair their messages, how the preloaded library carries sockets over
it, and how the shipped programs use it.

Every definition that stands for code is listed in `PROJECT.json` under `map`
with the file and lines it translates.

## The system

| Component | State | Operations | Interaction | Hard parts | Correct when |
|---|---|---|---|---|---|
| Progress leadership (`progress_guard.*`, `wait.cpp`) | `in_progress`, `waiters_list`, `waiters_mutex` of an endpoint; `m_is_leader` of a guard | guard construction and destruction inside `wait`, `test`, `protected_progress` | every blocking call; the leader runs `progress`, the others sleep on their request | hand-over while waiters come and go; lost wake-ups; locks held in the destructor | one leader, never leaked; a sleeping waiter is woken; calls return |
| Requests (`lfi_request.*`, `lfi_endpoint.*`, `send.cpp`, `recv.cpp`, `rma.cpp`) | request fields, contexts and their pool, the two pending queues, the completion queue, callbacks | `async_*`, `post_pending_ops`, `progress`, `complete`, `cancel` | called by application threads, by the leader and by the fault tolerance manager | completion in one thread, cancel and reuse in another; queue-lock order; partial batches | a request is completed once, by its own operation; no callback or operation is dropped; contexts are recycled only when free |
| Queue (`vector_queue.hpp`) | ring buffer, head, tail, count | `push` with growth, `pop`, `erase_if` | holds pending operations and callbacks | growth and compaction across the wrap | it is a FIFO queue |
| Several requests (`wait_num`, `test_num` in `wait.cpp`) | a counter on the caller's stack that requests point to | `wait_any/all/some`, `test_any/all` | `complete` decrements the counter from another thread | registration racing completion; two endpoints; early exits | no pointer left behind, truthful result |
| Collectives (`lfi_coll.cpp`) | the group: rank, ranks, table of ports; per call: requests and buffers | `group_create/close`, `barrier`, `broadcast`, `allreduce` | built on the connections, `async_*` and `wait_all` | who becomes master; order of acceptance; a missing process; one tag per kind in every round; blocking sends | the mesh is complete, rounds pair up, results agree, nobody is stuck |
| Fault tolerance (`ft_manager.*`, `DoubleLinkedList.hpp`) | per communicator: list of requests, heartbeat state; per endpoint: list of communicators, receives from ANY | `register_request`, `on_request_complete`, `one_loop`, `cancel_comm` | called from posts, completions and the leader | heartbeat answer racing its timeout; intrusive list with double erase; posts racing a cancellation | the list is exact; a dead peer's requests end; each failure is reported once |
| Communicator table (`comm.cpp`, `lfi.cpp`) | `m_comms`, `m_fut_comms` | reserve, init, get, close | every call looks its communicator up, maybe waiting for a handshake | shared lock and condition variable; failed handshake | a get returns a ready communicator or an error |
| Handshake (`connection.cpp`, `address.cpp`, `socket.cpp`) | the TCP stream and the status of the communicator on both sides | client and server sequences | runs in a thread of its own, then over LFI itself | framing, closed peer | both sides agree on ranks and endpoint |
| Memory regions (`mr.cpp`) | `m_mrs` | `mr_reg`, `mr_unreg` | used by RMA and heartbeats | undo of a half-done registration; missing lock | what is open is what is registered |
| Start and stop (`init.cpp`) | endpoints, their libfabric objects, any-communicators | `set_hints`, `init`, `destroy`, `start`/`stop` of the manager | once per process | a failure at every step, order of closing | the destructor closes what was opened |
| Interposition (`ld_preload/`) | map from descriptor to socket object, map from communicator to descriptor, buffers, eventfd, tag counter | the wrapped socket, read, write, poll and close calls; the eventfd thread | a client of the library | tables read and updated by two threads, descriptors used again, tags that wrap | the stream arrives intact, polls tell the truth, what is written becomes readable |
| Example programs (`examples/`) | requests and connections of a client and a server | tests, echo protocols, thread pools, signals | users of the library's interface | eager and blocking sends, answers out of order, stopping on a signal | both sides agree on tag and size, sessions end |

Debugging, profiling, statistics, environment variables and name lookup keep no
state that another component depends on.

## Modules

| Module | Code | State and actions |
|---|---|---|
| `ProgressGuard` | `progress_guard.*`, `wait`, `test`, `protected_progress` | One endpoint, many threads. The guard's constructor is two steps (`TryAcquire`, `RegisterWaiter`), its destructor three (`UnregisterWaiter`, `TransferLeader`, `NotifySuccessor`), because the code takes and drops `waiters_mutex` between them. `CheckWait`, `CheckTest`, `CheckProtectedProgress` are the bodies between construction and destruction; `CqRead`, `CompleteEntry`, `EndProgress` are what they need of `progress`. `waiters_mutex` and the request mutexes are variables where a thread keeps them across steps. |
| `FifoQueue` | - | Abstract queue: append, take the first, filter. |
| `VectorQueue` | `vector_queue.hpp` | The ring buffer; `erase_if` is one step per element. Refines `FifoQueue`. |
| `RequestLifecycle` | `lfi_request.cpp`, `lfi_endpoint.cpp`, `send.cpp`, `recv.cpp`, `rma.cpp`, part of `ft_manager.cpp` | One endpoint, one communicator. A post is reset, push and register; `progress` reads a batch, then handles, fills and destroys entry by entry, then posts pending operations, then runs callbacks; `complete` is its unlocked check, the fault tolerance step and the locked part; `cancel` is erase, locked part, progress, complete. A workload says which threads own which requests and who may cancel, beside other threads or alone; `collided` remembers that two threads have been completing one request at the same time. Leadership is taken from `ProgressGuard`, queues are sequences by `VectorQueue`. |
| `AsyncRequest` | - | Abstract request, what `lfi_async.h` lets a caller see: an operation is posted, may be filled in, ends once with one error, and its callback is queued as it ends and run later. `RequestLifecycle` refines it. |
| `TestNum`, `WaitNum` | `test_num`, `wait_num` | One caller on the same requests. `TestNum` has the two passes one request per step; `WaitNum` extends it with the set-up loop, the two guards, the wait loop, the counter and the clean-up loop, against a thread that leads, completes and leaves. |
| `Group` | `group_create`, `group_close` | The election by binding the coordination port, ranks by host name in the order of acceptance, the table of ports, the mesh of connections, and the ways to fail. |
| `Collectives` | the rest of `lfi_coll.cpp` | Extends `Group`: processes that have formed a group, on connections made in any order (`permuted`), run the same sequence of collectives and close it; `chan` holds the messages of one kind between two processes. |
| `FtManager` | `ft_manager.cpp`, `DoubleLinkedList.hpp`, close in `comm.cpp` | The communicators of one endpoint. The intrusive list is its pointers; `one_loop` visits one communicator per step, `process_comm` is `ProcessIdle`, `ProcessHeartbeat` and `ProcessError`, `cancel_comm` cancels one request per step, from the loop or from a close. The application closes a communicator when it likes. Time is a choice of `Process`: what is looked at may be old enough or not. |
| `Connection` | `connection.cpp`, `comm.cpp`, `address.cpp`, part of `socket.cpp` and `lfi.cpp` | A server and a client process with one connection. `ServerSteps` and `ClientSteps` are the order of `init_server` and `init_client`, `at` is where each handshake is, and one action per kind of step does what the line does: `SockSend`, `SockRecv`, `RecvAddr`, `InitComm`, `Internal`, `FiSend`, `FiRecv`, `BecomeReady`, `CloseSocket`, with `SockBroken` and `Fault` as the ways to fail. Threads of the application go through `get_comm_internal` (`Lookup`, `Extract`, `Check`, `Sleep`, `Await`, `NotifyAll`), use the communicator under the shared lock (`readers`) and may close it at any time (`Release`, `Erase`). `early` remembers a close under a thread that waits or a handshake that runs, `uninserted` an address that `fi_av_insert` did not take. |
| `Resources` | `init.cpp`, `mr.cpp`, `lfi.hpp`, start and stop of `ft_manager.cpp` | The libfabric objects that are open, the fields that point to them, and the attempts that opened them. `InitOpen`, `InitFail`, `InitDone` are one call of `init` each, `Destroy` closes one field, `MrReg` is one step per call of `mr_reg` to libfabric (`FiMrReg`, `FiMrKey`), each of which may fail (`MrRegFail`). |
| `LdPreload` | `ld_preload.cpp` | Two processes, an application thread and the thread of `thread_eventfd_loop` each. A call is as many steps as it has sections under different locks. Bytes are numbered in the order they are written, so that an intact stream is a prefix of the numbers. |
| `Programs` | `examples/bw`, `echo`, `simple`, `multi` | A thread runs a script of calls, the library matches messages by tag and order, and a dispatching server answers itself, by asynchronous calls or through a pool of threads. `ClientScript` and `AcceptScript` give each program its script; the interval clients change their size on the way. |
| `*_proofs` | - | Theorems about the module of that name and their proofs; `WaitNum_proofs` is about `TestNum` too, `Collectives_proofs` about `Group` too. |
| `MC*` | - | Instances for TLC. |

What the fabric does is external: an operation it accepted ends at any time with
success or an error (`Arrive`), `fi_cq_read` returns a run of successful entries
or one failed entry, a cancelled operation may end either way, messages of
one tag between two endpoints stay in order, and an object on which another one
is open cannot be closed.

The modules meet at these points. `RequestLifecycle` shows that the list of
outstanding requests is exact, and `FtManager` therefore has it as a set.
`VectorQueue` is a queue, and `RequestLifecycle` has sequences. `Connection`
brings a connection up, and `Group`, `LdPreload` and `Programs` take an
established one as a step. `Collectives` runs on the group `Group` has formed,
`WaitNum` and `TestNum` share their requests.

## Model checking

Passing runs:

| Run | Question | Instance |
|---|---|---|
| `leadership` | Is leadership exclusive and never leaked, is the waiter list free of dead guards, is no notification lost? Does a wait return while one thread keeps polling? | 3 threads, a request each: one polls, two wait, one of them cancels: a leader, a successor and a late-comer |
| `library` | Three parts that share no state, each by itself. Does a group form completely, do consecutive collectives pair up and end, with buffered and with blocking sends? Is what libfabric has open exactly what fields and registered regions account for, and does the destructor close it? Is the ring buffer a FIFO queue? | collectives: 3 processes that compete for the port, all on one host, one on a foreign host or one missing, connected in any order; two programs of 9 and 6 calls, neighbours of equal kind, operands that overflow their type; fair. Resources: with and without shared memory and fault tolerance, a failure at every call, 2 regions registered side by side. Queue: capacity 1 growing to 4, so that growth happens while wrapped; 2 kinds of item |
| `requests` | Do posts, completions, cancels and reuse keep requests, contexts, callbacks and the list of outstanding requests straight? Is an operation that waits in a queue ever forgotten? Does a caller see each operation end once and its callback run once? | 2 requests, 4 contexts, failing posts and injects, four workloads: one thread that cancels and uses a request again; two threads with every kind of operation twice, batches of 2; and a thread that cancels while another one may lead and complete the same operation, with one request used twice and with two |
| `multi_request` | Are the results and early exits of `wait_num` and `test_num` justified, is the pointer to the counter withdrawn, and does `wait_num` return? | 3 requests on 2 endpoints, `how_many` 0..4, one call after another, fair |
| `connection` | Do both handshakes read what the other side wrote and agree on ranks, endpoint and heartbeat? Does nobody get a communicator too early or keep an erased one? Does the connection come up? | two threads of the server, the client without users, same host or not, fault tolerance, failures at every step, every result of `fi_av_insert`, closes at any time, fair |
| `fault_tolerance` | Is a dead peer found and its requests ended, whatever the order of answers, timeouts and posts? Is a failure reported to a receive from ANY once? | 2 communicators, one whose peer may die; directed requests or receives from ANY; 2 posts; one communicator closed at any time, with requests or idle; fair |
| `preload` | Do the bytes of a connection arrive once, in order and on the right socket? Does a poll that reports data find some? Do the tables agree? Is what is written readable in the end? | 2 connections one after the other or at once, the client makes two writes, on one connection or on two in a row, each of three vectors of 1 byte with a buffer of 2, so in two messages; reads of 2 bytes; 3 tags; one failure; eager and blocking sends with epoll, eager ones with poll; fair |
| `programs` | Do client and server programs agree on tags, sizes and order but where the properties say, do their sessions end, and does a server that gets a signal stop? | every client with the servers it can talk to, the ones it does not suit included; 1 or 2 client processes, a pool of 2, two message sizes, halved on the way, eager limits 0, 4 and 8 around them |

Runs that show a disagreement between the code and its documentation
(`PROJECT.json`, `findings`, quotes the lines):

| Run | What TLC finds |
|---|---|
| `leadership_lost` | The leader leaves between a new guard's `try_acquire` and `register_waiter`; the wait sleeps for ever although its operation is done. |
| `cancel_race` | A cancel and the leader are both past the unlocked check of `complete`; the cancel completes the request, its owner posts it again, and the leader ends the new operation. |
| `barrier` | A member leaves `lfi_barrier` before another member has entered it, because rank 0 posts the releases together with its receives. |
| `test_all` | `test_num` counts a request in both passes and returns 0 for a batch that is not finished. |

Bounds. Two requests of which one is reused are enough for the hazards of a late
event: an earlier and a current operation of one request, and a second operation
that takes the recycled context. Three threads are enough for a hand-over that a
third one races. Two communicators are enough for a list in which a neighbour is
erased, three processes for a mesh with a connection that is neither first nor
last, three tags for a counter that wraps between two calls, two writes of two
messages for a buffer queue that holds more than one and for a write that races
its predecessor. `MaxPosts`, `MaxCloses`, `MaxCap`, `MaxConns`, `MaxSends`,
`MaxFails` and the length of a program bound what would grow for ever. Contexts
are interchangeable, so they are a symmetry set in `requests`, which checks
safety only (the refinement it checks has no fairness and does not mention
contexts).

Deadlock is checked in `leadership`, `multi_request` and `connection`.
`library`, `fault_tolerance`, `preload` and `programs` stop when their programs
have ended. In `requests` the check is off because the code can deadlock there,
see below.

Where the code does not keep what a property says, the run has the case and the
property says so: a history variable in its antecedent (`collided`, `early`,
`uninserted`, `unlisted`, `permuted`) marks exactly what goes wrong, and without
it TLC violates the property.

### Seen on the way

Not the subject of a run of their own. Where a history variable is named, the
property that mentions it fails without it.

Requests and waiting:

- With `LFI_use_inject` and fault tolerance a post holds the communicator's
  `ft_mutex` (`send.cpp:88`) when it takes `pending_ops_mutex` (`send.cpp:132`),
  and `post_pending_ops` holds `pending_ops_mutex` (`lfi_endpoint.cpp:130`) when
  it completes an inject (line 192), which takes `ft_mutex` (`ft_manager.cpp:86`).
  Without `CHECK_DEADLOCK FALSE` in `MCRequests.cfg` TLC reports it at depth 12.
- The race of `cancel_race` has more consequences: the communicator's list is
  emptied by the second erase of a request, a callback may be queued twice, and a
  receive may report the size of the buffer (`collided` in `FtListExact`,
  `CallbackOnce`, `ReceivedSize` and `ImplementsRequest`). That an operation is
  not forgotten, no callback is lost and a context is in one place holds all the
  same.
- `lfi_test_any` returns 0 and not an index; `lfi_wait_all` returns an index and
  not 0.
- `test` destroys its guard with the request's mutex held, which locks up if the
  successor waits on that very request (`leadership` gives each thread its own).

Connections:

- Two threads look up a connection that is coming up. The one that waits for the
  future wakes the other one under a shared lock (`comm.cpp:159-176`), after that
  one has found the connection not ready and before it sleeps; it sleeps for
  ever. `LookupReturns`, as a property of `connection`, fails this way.
- Nothing keeps the application from closing a connection that is coming up or
  that another thread waits for: `get_comm_internal` and the handshake keep their
  pointers to the erased entry without the lock (`comm.cpp:156-179`). Even a
  lookup that has returned does not prevent it, since it returns at
  `READY_INTERNAL` (`comm.cpp:145`). `early` in `CommOutlivesUse`.
- `lfi_client_create` and `lfi_server_accept` return an id whether or not the
  handshake succeeds. The thread that takes the future gets what is in the entry,
  ready or not, and later lookups wait for a READY that never comes
  (`comm.cpp:156-161`).
- `register_addr` returns 0 when `fi_av_insert` inserts nothing, and its callers
  test for negative numbers: a communicator becomes READY without an address
  (`uninserted` in `AgreeWhenReady`).
- `socket::recv` tries for ever when the peer has closed the connection
  (`socket.cpp:346-357`), so a handshake whose peer is gone need not end;
  `ConnectionComesUp` is about handshakes in which neither side fails.

Fault tolerance:

- `cancel_comm` erases the communicator from the list without asking whether it
  is in it (`ft_manager.cpp:298`, `DoubleLinkedList.hpp:102`). Closing a
  communicator that has no outstanding request clears head and tail, and the
  others, still marked `inserted`, are no longer monitored (`unlisted` in
  `DeadPeerDetected`). `process_comm` does the same for receives from ANY
  (line 122).
- A close sets the heartbeat request to null (line 295) while `process_comm` may
  be about to read it (line 151), which the model treats as finding it done.
- A failure found while no receive from ANY is outstanding is not reported to a
  later one when it was found through a directed request.

Groups:

- The mesh assigns accepted connections to ranks in the order of acceptance
  (`lfi_coll.cpp:213`). When a higher rank connects before a lower one the table
  is permuted, and broadcasts from another root than 0 take the data of the
  wrong process or wait for ever (`permuted` in `BroadcastDelivers` and
  `AllReturn`). Collectives through rank 0 are not affected.
- When the master gives up waiting (`lfi_coll.cpp:126`), workers that have been
  accepted wait for a rank that nobody sends.
- What does hold of `lfi_barrier` is `BarrierWithRoot`.
- A second `lfi_group_close` reads the freed table: the size is not reset.

Memory regions and start:

- `mr_reg` inserts into `m_mrs` without the mutex that `mr_unreg` takes
  (`mr.cpp:60`). When `fi_mr_key` fails, the region it was asked about stays open
  (`mr.cpp:30`, `49`; `keyless` in `RegionsAccounted`).
- `use_scalable_ep` is not set again by a second attempt to start the shm endpoint
  (`init.cpp:176`, `246`): if only the second one gets a scalable endpoint,
  `fi_endpoint` overwrites the pointer to it (`overwritten` in `AllClosed`).

Interposition:

- `poll` keeps `m_mutex` while the kernel polls (`ld_preload.cpp:1411`, `1424`)
  and the eventfd thread needs it (283), so a poll without a timeout waits for
  itself. `Delivered` is about programs that use epoll.
- The eventfd thread looks the communicator and then the descriptor up in two
  sections (279, 283); when the descriptor is closed and used again in between it
  waits on the new connection for data of the old one (`Astray`, which
  `Delivered` excepts). It also keeps a raw pointer after the lock (`LoopDangling`).
- `close` gives the descriptor back to the kernel before it leaves the tables
  (857), so with two application threads an accept may find the old entry.
- A failing `lfi_server_init` in `accept4` (767) leaves the descriptor open and
  the client waiting. Two processes that connect to each other wait for each
  other under `m_map_comm_socket_mutex` (678, 799).
- A write of length 0 looks like the end of the stream, a peer's close never
  does; a blocking socket gets `EAGAIN`; a large write whose peer has closed does
  not return; the tag counter is an `int` that may become negative (550); the
  error path of `poll` does not restore the descriptors (1425).
- The slot of an eventfd thread is filled after the thread has started (128-131),
  and the destructor uses the request of a slot that may be null (147). Several
  such threads may reorder the messages of a connection.

Programs:

- Two threads of a pool may take each other's messages of a client that pushes
  without waiting (`echo_lfi_server.cpp:116-121`), and a receive fails
  (`PushedToPool` in `ExactExchange`).
- `bw_lfi_client` runs its first test once more than `bw_lfi_server_tpool` does,
  so one of the two waits for a message that nobody sends (`WarmupUnanswered`).
- `echo_lfi_client_interval_recv` halves the size it receives when it reads "down"
  (`echo_lfi_client_interval_recv.cpp:102-104`), and its server goes on sending
  4 MB: the receive is cut off, the client gives up and disconnects.
- The callbacks of `echo_lfi_server_recv` and `_send` may find their connection
  closed; the error path of `recv_callback` uses a request it has freed
  (`echo_lfi_server_recv.cpp:88-90`); the RMA server never receives the client's
  last message; a trigger that is cancelled before it is posted again leaves
  `join` waiting.

### Fairness

A thread inside the library takes its steps (strong fairness where it competes
for a mutex): the operating system schedules it and the library has no unbounded
critical section. The fabric ends what it accepted. Nobody is obliged to call
the library, except where a run says so:

- `leadership` and `multi_request` assume another thread that keeps using the
  endpoints; `leadership_lost` shows that this is needed.
- `connection`: the handshake threads run, with strong fairness where they
  compete with readers of the table for its lock, and both processes call create
  or accept.
- `fault_tolerance`: some thread keeps leading, which is what `one_loop` lives
  on; a communicator that is visited again and again is once visited when its time
  has elapsed (strong fairness of `Process(TRUE)`); a close that has begun goes on
  and gets the exclusive lock between two loops (strong fairness of `EraseComm`); a receive from ANY that has
  ended is posted again, as servers do. `LoopBegin` is strongly fair because
  the loop may be found busy.
- `library` (its collectives) and `programs`: the processes run their programs (weak fairness
  of the whole step: nothing in them can be passed over for ever, since every
  program is finite).
- `preload`: the eventfd thread and the calls that have begun go on, and a
  connection whose two ends are there is made. Nobody has to read or to close.

## Proofs

Proved with TLAPS for every value of the constants that satisfies the
assumptions named in the modules: any number of threads, requests, contexts,
communicators, processes, regions and calls. Each proof module states its
inductive invariant `IInv`, which TLC has checked on the instance of the run
before the proof, and one lemma per action.

| Theorem | Property | Hypothesis |
|---|---|---|
| `ProgressGuard_proofs!TypeCorrect` | `TypeOK` | |
| `ProgressGuard_proofs!WaitersAreLiveInvariant`, `LeadershipHeldInvariant`, `SingleProgressInvariant` | `WaitersAreLive`, `LeadershipHeld`, `SingleProgress` | |
| `ProgressGuard_proofs!NoWakeupLost` | `NoLostWakeup` | `PrivateRequests` |
| `VectorQueue_proofs!RingBufferSafe` | `TailFollowsCount`, `LiveSlotsWritten` | |
| `VectorQueue_proofs!RingBufferIsFifo` | `ImplementsFifo` | |
| `WaitNum_proofs!NoDanglingWaitInvariant`, `ReturnsCompletedInvariant`, `CompletedNotTimedOutInvariant` | the same | |
| `WaitNum_proofs!TimeoutJustifiedInvariant`, `NoEndpointForgottenInvariant` | the same (of `TestNum`) | |
| `RequestLifecycle_proofs!CompletedByOwnOpInvariant`, `FtListExactInvariant`, `ReceivedSizeInvariant` | the same | |
| `RequestLifecycle_proofs!RequestsImplemented` | `ImplementsRequest` | |
| `RequestLifecycle_proofs!ContextInOnePlaceInvariant`, `NoOpForgottenInvariant`, `CallbackOnceInvariant` | the same | `~collided` in the state |
| `Connection_proofs!FramesMatchInvariant`, `UsableOnReturnInvariant` | the same | |
| `Connection_proofs!AgreeWhenReadyInvariant`, `CommOutlivesUseInvariant` | the same | |
| `Resources_proofs!RegionsAccountedInvariant`, `AllClosedInvariant` | the same | |
| `FtManager_proofs!NothingLeftOnCanceledInvariant`, `FailureReportedOnceInvariant` | the same | |
| `Collectives_proofs!MeshCompleteInvariant`, `BarrierWithRootInvariant`, `BroadcastDeliversInvariant` | the same | |
| `Collectives_proofs!AllreduceAgreesInvariant` | `AllreduceAgrees` | `OperateIsReduction` |

No theorem restricts the application or the fabric but `NoWakeupLost`; the cases
in which the code does not do what it should are in the properties themselves, as
they are in the runs. The hypotheses:

- `PrivateRequests`: no two threads wait on one request.
- `~collided`: until two threads have been completing one request at once. TLC
  finds the three properties true without it; the proof follows each context to
  its operation, which is lost from then on.
- `OperateIsReduction`: for the calls of the programs and for every order of the
  operands, the fold of `operate` gives the minimum, maximum, sum or product of
  what the ranks passed. It mentions no state; that a fold does not depend on the
  order is an induction over data, so TLC evaluates it for the programs of
  `library` (`ReductionAssumption` in `MCCollectives`).

Why the invariants are what they are:

- Leadership. None of the three properties is inductive alone: that only a leader
  is inside `progress` (`ProgressIsLeader`) is needed for exclusiveness, and that
  `waiters_mutex` is kept exactly by a thread about to notify a chosen successor
  (`NotifierHoldsLock`) is needed so that the successor's guard cannot be
  destroyed meanwhile. `NoWakeupLost` adds that a sleeper sleeps on a request it
  may wait on (`SleepsOnOwn`).
- Ring buffer. The indices of the loop of `erase_if` are 0 outside it. The
  refinement mapping reads the live slots from head to tail and, inside
  `erase_if`, the kept prefix followed by the part not yet examined.
- `wait_num`. `SharedExact` says which requests point to the counter at each
  place of the code, `CountExact` that the counter is what was asked for less the
  completed requests that point to it; `Visit` turns the round-robin order of the
  clean-up loop into the number of the step that reaches a request. `PassExact`
  is the loop invariant of the first pass of `test_num`.
- Requests. Everything holds until two threads complete one request at once
  (`QInv`): two threads can hold one request, but the first of them to do so makes
  `Colliding` true, so before that nobody else completes what a thread has in its
  hands (`NotCollided`). The core is that every context is in exactly one spot: free, in one
  of the pending queues, at the provider, in the completion queue, or in the
  hands of one thread at one place of the code (`OneSpot`, `SpotsExact`). `Links`
  and `OpsExact` tie a context to the request and the operation it was taken for,
  `RunningOps` and `Outstanding` say which operation of a request is current,
  `FtExact` and `SizeExact` extend the two properties to the threads in the
  middle of a step, `Control` says what a thread knows where it stands. An action
  either leaves spots alone (`QuietStep`), moves one context (`MoveStep`), or is
  treated on its own; `StepFrame` carries the rest.
- The abstract request. An operation runs while its request has a context. The
  invariant above says what a thread in the middle of a step knows of the request
  it holds, so each locked part of `complete` is the end of a running operation
  and each fill is one of a running operation; the other steps change nothing a
  caller sees. That no callback is there twice is then proved of `AsyncRequest`
  alone, with its own invariant (an ended operation has a smaller number than a
  running one), and carried over by the refinement; that none is lost
  (`CallbackKept`) is part of `IInv`.
- Handshake. A stream holds the messages the peer has sent beyond those this side
  has read, in order (`StreamExact`, by the position of both sides in their
  sequence of steps); `LearntExact` and `AddrExact` say what has been stored of
  them, `HandshakeExact` ties the status of the table's entry to the position,
  and `UsersExact` and `CloseExact` say where threads of the application can be.
- Start and stop. Every open object is one a repeated start has left, one that a
  field still to be closed points to, one whose pointer the second attempt has
  overwritten, or lies under a registration nobody closes (`ObjectsExact`);
  `MrsExact` says which registrations each running `mr_reg` has made and that they
  are not those of another one, so that undoing them closes the right ones.
- Fault tolerance. A communicator enters `canceled_coms` when it leaves IDLE or
  HEARTBEAT for ERROR, which it never leaves, so it is there once
  (`FailuresExact`); that gives the exactly-once report.
- Group. Once all workers are accepted they are all the other processes
  (`AllWorkers`, a counting argument over a sequence without repetitions), so
  there is one master, its table holds each process at its rank (`TableExact`),
  and everyone in the mesh phase has that table (`FormedExact`). `Connected(q, p)`
  says that `q` has dialled `p` and so has its lower entry filled; a backlog and
  the upper entries together hold every process at most once (`MeshExact`), and
  an injection between equal finite sets is onto.
- Barriers. Between rank 0 and a member the messages on their way are the
  difference of the numbers of barriers the two have entered, but for the one
  still awaited (`BarrierExact`); `CallExact` says where a process is in its
  program. The proof counts the barriers of the program, so calls of other kinds
  between them do not matter.
- Broadcasts. All broadcasts share one tag, so a message is told from others only
  by its place: the i-th message on its way from p to q belongs to the broadcast
  whose number is i more than the number q has taken from p (`CastExact`), and
  holds what the root of that broadcast put in (`DataExact`). With roots other
  than 0 the ranks two processes give each other have to agree, which they do
  as long as connections are made in rank order (`MeshOrder`, carried until
  `permuted`).
- Allreduce. The same counting for both halves (`ReduceExact`): the contributions
  on their way to rank 0 are those of the calls the member has entered and rank 0
  has not gathered, the results on their way back those of the calls rank 0 has
  reduced and the member has not (`Pipe`, with one lemma for sending and one for
  taking a message). `BuffersExact` says what the gathered values are; as rank 0
  reduces, they are the operands of all other ranks in the order of acceptance,
  each once, which is where `OperateIsReduction` is used.

Small inductions over data (a least element, the elements a filter keeps, the
first place of an element) are done by hand from the well-foundedness of the
natural numbers (`LeastNat`).

Only model-checked:

- everything under fairness: liveness and `ENABLED` are out of this prover's
  reach;
- `OperateIsReduction`, which compares two folds, an induction over data this
  prover cannot do;
- the invariants of `LdPreload` (`StreamIntact`, `ToldHasData`,
  `RegistersAgree`) and of `Programs` (`ExactExchange`, over the scripts of the
  shipped programs, a finite set that TLC covers).

## Not modelled

- Debugging, profiling, statistics, environment variables, name lookup: output
  and configuration.
- The TCP wrappers that listen, accept and connect with retries, and the argument
  checks of the C interface: system calls and early returns that change nothing.
- The example programs on MPI, Mercury or plain sockets, which do not use the
  library; the file transfer, the memory registration benchmark and the
  collective examples, which add no protocol of their own.
- Timed waits of a single request: no caller passes a timeout to `wait`.
  `LFI_efficient_progress` and `LFI_async_connection` have their defaults. The
  lookup of a source communicator when a receive from ANY completes is left out
  of `RequestLifecycle`; `FtManager` has the reports to such receives.
- In `Connection` a size and the bytes that follow it are one message, as are the
  two parts of a heartbeat; more than one entry of the table is left out (the
  condition variable they share is `Disturb`), and using the communicator is one
  step under the shared lock.
- The data race of two `mr_reg` inside the container is not modelled; it is named
  above. In `Collectives` messages on an established group do not fail.
- `LdPreload` has one application thread and one eventfd thread per process, and
  one program that connects and one that accepts.

## Plan

The project keeps to a dozen runs, so a new question replaces or joins an
existing one.

1. Two application threads and several eventfd threads in `LdPreload`.
2. A proof of `StreamIntact` and `RegistersAgree` for any number of connections.
