------------------------------ MODULE Programs ------------------------------
(***************************************************************************)
(* The client and server programs shipped with the library (examples/), as  *)
(* users of its interface: which messages of which tag and size a client    *)
(* and a server exchange, in which threads, and how a session ends.         *)
(*                                                                         *)
(* A thread runs a script of calls.  A client has one thread; a server has  *)
(* a thread per connection (or a request whose callback posts the next      *)
(* one), or one dispatching thread that receives from the ANY communicators *)
(* and answers itself, through a thread pool, or with asynchronous calls.   *)
(* Sizes are small numbers in the order of the real ones; payloads are left *)
(* out but for the header of the echo protocol, the signed size.            *)
(*                                                                         *)
(* The library (external to this module) matches messages of one connection *)
(* by tag, in the order they were sent; a send returns when it is received  *)
(* or, up to the size eager, at once.  Timing, statistics and MPI other     *)
(* than its barriers are left out, and every connection is up.              *)
(***************************************************************************)
EXTENDS Integers, Sequences, SequencesExt, FiniteSets

CONSTANTS
  Clients,     \* processes of the client program, which share MPI_COMM_WORLD
  Workers,     \* threads of the pool of a server
  TestSizes,   \* test_size of the tests, a sequence
  Sessions     \* the combinations [client, server, clients, count, eager, signal]
               \* to run: the programs, the processes of the client, test_count,
               \* the size up to which sends are eager, whether a signal may come

IntSize == 4       \* sizeof(int)
MaxSize == 16      \* MAX_MSG_SIZE
DISCONNECT == 0

Threads == ({"client", "conn"} \X Clients) \cup ({"worker"} \X Workers)
             \cup {<<"echo", "main">>}
Echo == <<"echo", "main">>

VARIABLES
  session,     \* the session that is run
  sizes,       \* the sizes an interval client gets to use before it is told to stop
  script,      \* calls a thread has still to make
  pending,     \* requests of a thread lfi_wait or lfi_wait_all would wait for
  failed,      \* threads with a call that returned an error or another size
  sent,        \* sent[c][side]: messages side has sent to the other and are unmatched
  posted,      \* posted[c][side]: receives of side that are unmatched
  closed,      \* closed[c]: sides that have closed the connection
  tasks,       \* tasks of the thread pool
  keyed,       \* clients whose server has registered memory for them
  stop         \* shutdown of a server: "no", "signalled", "canceled", "joined"

vars == <<session, sizes, script, pending, failed, sent, posted, closed, tasks, keyed, stop>>

Sides == {"client", "server"}
Other(side) == IF side = "client" THEN "server" ELSE "client"
Side(t) == IF t[1] = "client" THEN "client" ELSE "server"

-----------------------------------------------------------------------------
(* Calls.                                                                   *)

Call(do, c, tag, size) ==
  [do |-> do, with |-> c, tag |-> tag, size |-> size, val |-> 0, exact |-> TRUE, overlap |-> FALSE]

\* lfi_tsend and lfi_trecv: the next call is made when the request is complete.
Send(c, tag, size) == <<Call("send", c, tag, size)>>
Recv(c, tag, size) == <<Call("recv", c, tag, size)>>

\* A receive into a buffer that may be larger than the message.
RecvUpTo(c, tag, size) == <<[Call("recv", c, tag, size) EXCEPT !.exact = FALSE]>>

\* The same from an ANY communicator, which no client can close.
FromAny(call) == <<[call[1] EXCEPT !.do = "anyrecv"]>>

\* lfi_tsend_async and lfi_trecv_async do not wait for earlier requests;
\* lfi_wait_all does.
Async(call) == <<[call[1] EXCEPT !.overlap = TRUE]>>
WaitAll(c) == <<Call("wait", c, "0", 0)>>

\* A request with a callback that only frees it: nobody waits for it.
Detached(call) == <<[call[1] EXCEPT !.do = IF @ = "send" THEN "dsend" ELSE "drecv"]>>

MpiBarrier(c) == <<Call("barrier", c, "0", 0)>>
Close(c) == <<Call("close", c, "0", 0)>>
Repeat(c) == <<Call("repeat", c, "0", 0)>>
Put(c, size) == <<Call("put", c, "0", size)>>
Register(c) == <<Call("reg", c, "0", 0)>>
Unregister(c) == <<Call("unreg", c, "0", 0)>>

\* The header of the echo protocol: its value is the size of the message that
\* follows, negative if the client sends it.
Header(c, v) == <<[Call("send", c, "MSG", IntSize) EXCEPT !.val = v]>>

Times(n, s) == FlattenSeq([i \in 1..n |-> s])

-----------------------------------------------------------------------------
(* The bandwidth programs (examples/bw): run_test for every test.          *)

\* get_test_vector: the tests, one after the other.
get_test_vector(RunTest(_)) == FlattenSeq([i \in DOMAIN TestSizes |-> RunTest(TestSizes[i])])

\* Mutant: no warm-up.
BwClientNoWarmup(c) ==
  LET RunTest(s) == MpiBarrier(c) \o Times(session.count, Send(c, "0", s) \o Recv(c, "0", IntSize)) \o MpiBarrier(c)
  IN  get_test_vector(RunTest) \o Close(c)

\* The first test is run once more before the others.
BwClient(c) ==
  LET RunTest(s) == MpiBarrier(c) \o Times(session.count, Send(c, "0", s) \o Recv(c, "0", IntSize)) \o MpiBarrier(c)
  IN  RunTest(TestSizes[1]) \o get_test_vector(RunTest) \o Close(c)

BwServer(c) ==
  LET RunTest(s) == Times(session.count, Recv(c, "0", s) \o Send(c, "0", IntSize))
  IN  RunTest(TestSizes[1]) \o get_test_vector(RunTest) \o Close(c)

BwClientAsync(c) ==
  LET RunTest(s) == MpiBarrier(c) \o Times(session.count, Async(Send(c, "0", s)) \o Async(Recv(c, "0", IntSize)))
                      \o WaitAll(c) \o MpiBarrier(c)
  IN  get_test_vector(RunTest) \o Close(c)

BwServerAsync(c) ==
  LET RunTest(s) == Times(session.count, Async(Recv(c, "0", s)) \o Async(Send(c, "0", IntSize))) \o WaitAll(c)
  IN  get_test_vector(RunTest) \o Close(c)

BwClientInvert(c) ==
  LET RunTest(s) == MpiBarrier(c) \o Times(session.count, Recv(c, "0", s) \o Send(c, "0", IntSize)) \o MpiBarrier(c)
  IN  get_test_vector(RunTest) \o Close(c)

BwServerInvert(c) ==
  LET RunTest(s) == Times(session.count, Send(c, "0", s) \o Recv(c, "0", IntSize))
  IN  get_test_vector(RunTest) \o Close(c)

\* Every test is one task of the pool, and its thread waits for the task.
BwServerTpool(c) ==
  LET RunTest(s) == Times(session.count, Recv(c, "0", s) \o Send(c, "0", IntSize))
  IN  get_test_vector(RunTest) \o Close(c)

\* A message without a tag starts the tests, which use a tag each.
BwAnyClient(c) ==
  LET RunTest(s) == MpiBarrier(c) \o Times(session.count, Send(c, ToString(s), s))
                      \o Recv(c, ToString(s), IntSize) \o MpiBarrier(c)
  IN  Send(c, "0", IntSize) \o get_test_vector(RunTest) \o Close(c)

BwAnyServer(c) ==
  LET RunTest(s) == Times(session.count, Recv(c, ToString(s), s)) \o Send(c, ToString(s), IntSize)
  IN  get_test_vector(RunTest) \o Close(c)

-----------------------------------------------------------------------------
(* The echo programs (examples/echo): a header, then the message.           *)

Tested(c, Body(_)) ==
  LET RunTest(s) == MpiBarrier(c) \o Times(session.count, Body(s)) \o MpiBarrier(c)
  IN  get_test_vector(RunTest)

Disconnect(c) == Header(c, DISCONNECT) \o Close(c)

EchoClientSend(c) ==
  LET Body(s) == Header(c, -s) \o Send(c, "0", s)
  IN  Tested(c, Body) \o Disconnect(c)

\* Mutant: the session is closed without a word.
EchoClientRecvSilent(c) ==
  LET Body(s) == Header(c, s) \o Recv(c, "0", s)
  IN  Tested(c, Body) \o Close(c)

EchoClientRecv(c) ==
  LET Body(s) == Header(c, s) \o Recv(c, "0", s)
  IN  Tested(c, Body) \o Disconnect(c)

EchoClientSendAsync(c) ==
  LET Body(s) == Async(Header(c, -s)) \o Async(Send(c, "0", s)) \o WaitAll(c)
  IN  Tested(c, Body) \o Disconnect(c)

\* The interval clients repeat until they are told to stop; the size may change
\* at any time ("up", "down").  An error ends run_test, and main disconnects.
Interval(c, Body(_)) == FlattenSeq([i \in DOMAIN sizes[c] |-> Body(sizes[c][i])]) \o Disconnect(c)

EchoClientInterval(c) ==
  LET Body(s) == Header(c, s) \o Recv(c, "0", s) IN Interval(c, Body)

EchoClientIntervalSend(c) ==
  LET Body(s) == Send(c, "DATA", s) \o Recv(c, "ACK", IntSize) IN Interval(c, Body)

EchoClientIntervalRecv(c) ==
  LET Body(s) == Recv(c, "DATA", s) \o Send(c, "ACK", IntSize) IN Interval(c, Body)

EchoClientIntervalRma(c) ==
  LET Body(s) == Put(c, s)
  IN  Recv(c, "0", 2 * IntSize) \o Recv(c, "0", MaxSize) \o Interval(c, Body)

\* test_size_global.  The client that only receives starts at the size its server
\* sends, always.
Down(s) == s \div 2
IntervalSizes(name) ==
  LET Two(S) == {<<m, n>> : m, n \in S}
  IN  CASE name = "echo_lfi_client_interval_recv" -> Two({MaxSize, Down(MaxSize)})
        [] name \in {"echo_lfi_client_interval", "echo_lfi_client_interval_send",
                     "echo_lfi_client_interval_rma"} -> Two(ToSet(TestSizes))
        [] OTHER -> {<<>>}

\* Servers that start something for every accepted connection: a request whose
\* callback acknowledges and posts the request again.
EchoServerRecv(c) == RecvUpTo(c, "DATA", MaxSize) \o Detached(Send(c, "ACK", IntSize)) \o Repeat(c)
EchoServerRecvAny(c) == FromAny(RecvUpTo(c, "DATA", MaxSize)) \o Detached(Send(c, "ACK", IntSize)) \o Repeat(c)
EchoServerSend(c) == Send(c, "DATA", MaxSize) \o Detached(Recv(c, "ACK", IntSize)) \o Repeat(c)
EchoServerRma(c) == Register(c) \o Send(c, "0", 2 * IntSize) \o Send(c, "0", MaxSize)

\* The operation a header asks for.
Answer(c, v) == IF v < 0 THEN RecvUpTo(c, "0", -v)[1] ELSE Send(c, "0", v)[1]

-----------------------------------------------------------------------------
(* The small programs (examples/simple, examples/multi).                    *)

Hello == IntSize + 3   \* strlen("Hello from client"), and of the answer
Buffer == MaxSize      \* the receive buffer of 1024 bytes

SimpleClient(c) == Send(c, "0", Hello) \o Recv(c, "0", Hello) \o Close(c)
SimpleServer(c) == RecvUpTo(c, "0", Buffer) \o Send(c, "0", Hello) \o Close(c)
MultiServer(c) == RecvUpTo(c, "0", Hello) \o Send(c, "0", Hello) \o Close(c)
SimpleClientAsync(c) == Send(c, "0", Hello) \o RecvUpTo(c, "0", Buffer) \o Close(c)
SimpleClientPp(c) == Times(session.count, Send(c, "0", IntSize) \o RecvUpTo(c, "0", Buffer)) \o Close(c)
SimpleServerPp(c) == Times(session.count, RecvUpTo(c, "0", Buffer) \o Send(c, "0", IntSize)) \o Close(c)
SimpleClientAny(c) == Send(c, "0", IntSize) \o Recv(c, "0", IntSize) \o Close(c)
SimpleServerAny(c) == Send(c, "0", IntSize) \o Close(c)

SimpleClientRma(c) ==
  Recv(c, "0", 2 * IntSize) \o Recv(c, "0", MaxSize) \o Put(c, IntSize) \o Send(c, "0", 1)
    \o Recv(c, "0", 2) \o Put(c, IntSize) \o Send(c, "0", 1) \o Close(c)
SimpleServerRma(c) ==
  Register(c) \o Send(c, "0", 2 * IntSize) \o Send(c, "0", MaxSize) \o Recv(c, "0", 1)
    \o Send(c, "0", 2) \o Recv(c, "0", 1) \o Unregister(c) \o Close(c)

-----------------------------------------------------------------------------
\* The script of a client program.
ClientScript(name, c) ==
  CASE name = "bw_lfi_client" -> BwClient(c)
    [] name = "bw_lfi_client_async" -> BwClientAsync(c)
    [] name = "bw_lfi_client_invert" -> BwClientInvert(c)
    [] name = "bw_lfi_any_comm_client" -> BwAnyClient(c)
    [] name = "echo_lfi_client_send" -> EchoClientSend(c)
    [] name = "echo_lfi_client_recv" -> EchoClientRecv(c)
    [] name = "echo_lfi_client_send_async" -> EchoClientSendAsync(c)
    [] name = "echo_lfi_client_interval" -> EchoClientInterval(c)
    [] name = "echo_lfi_client_interval_send" -> EchoClientIntervalSend(c)
    [] name = "echo_lfi_client_interval_recv" -> EchoClientIntervalRecv(c)
    [] name = "echo_lfi_client_interval_rma" -> EchoClientIntervalRma(c)
    [] name = "simple_lfi_client" -> SimpleClient(c)
    [] name = "simple_lfi_client_async" -> SimpleClientAsync(c)
    [] name = "simple_lfi_client_pp" -> SimpleClientPp(c)
    [] name = "simple_lfi_client_any_comm" -> SimpleClientAny(c)
    [] name = "simple_lfi_client_rma" -> SimpleClientRma(c)

\* What a server starts for a connection when it is accepted.
AcceptScript(name, c) ==
  CASE name = "bw_lfi_server" -> BwServer(c)
    [] name = "bw_lfi_server_async" -> BwServerAsync(c)
    [] name = "bw_lfi_server_invert" -> BwServerInvert(c)
    [] name = "bw_lfi_server_tpool" -> BwServerTpool(c)
    [] name = "echo_lfi_server_recv" -> EchoServerRecv(c)
    [] name = "echo_lfi_server_recv_any" -> EchoServerRecvAny(c)
    [] name = "echo_lfi_server_send" -> EchoServerSend(c)
    [] name = "echo_lfi_server_rma" -> EchoServerRma(c)
    [] name = "simple_lfi_server" -> SimpleServer(c)
    [] name = "simple_lfi_server_pp" -> SimpleServerPp(c)
    [] name = "simple_lfi_server_rma" -> SimpleServerRma(c)
    [] name = "multi_lfi_server" -> MultiServer(c)
    [] OTHER -> <<>>

\* The tag a dispatching server receives from the ANY communicators.
DispatchTag(name) == IF name \in {"bw_lfi_any_comm_server", "simple_lfi_server_any_comm"} THEN "0" ELSE "MSG"

\* Servers whose main thread waits for the dispatching thread to end.
Stoppable == {"echo_lfi_server", "echo_lfi_server_seq", "echo_lfi_server_async",
              "echo_lfi_server_async_auto", "echo_lfi_server_async_tpool",
              "echo_lfi_server_recv", "echo_lfi_server_recv_any", "echo_lfi_server_send"}
Dispatching == Stoppable \cup {"bw_lfi_any_comm_server", "simple_lfi_server_any_comm"}

Init ==
  /\ session \in Sessions
  /\ sizes \in [session.clients -> IntervalSizes(session.client)]
  /\ script = [t \in Threads |->
                 CASE t[2] \notin session.clients -> <<>>
                   [] t[1] = "client" -> ClientScript(session.client, t[2])
                   [] t[1] = "conn" -> AcceptScript(session.server, t[2])
                   [] OTHER -> <<>>]
  /\ pending = [t \in Threads |-> 0]
  /\ failed = {}
  /\ sent = [c \in Clients |-> [s \in Sides |-> <<>>]]
  /\ posted = [c \in Clients |-> [s \in Sides |-> <<>>]]
  /\ closed = [c \in Clients |-> {}]
  /\ tasks = <<>> /\ keyed = {} /\ stop = "no"

-----------------------------------------------------------------------------
(* The calls.                                                              *)

\* A message or receive of connection c completes: the thread that waits for it
\* has one request less.
Completed(p, by, waits) == IF waits THEN [p EXCEPT ![by] = @ - 1] ELSE p

\* The thread has returned from its previous call.
Ready(t) == script[t] # <<>> /\ (pending[t] = 0 \/ Head(script[t]).overlap)
Idle(t) == script[t] = <<>> /\ pending[t] = 0

\* A call fails: a client calls MPI_Abort, and the thread of a server gives up;
\* an interval client still disconnects.
Fail(t) ==
  /\ failed' = failed \cup {t}
  /\ script' = [script EXCEPT ![t] = IF t[1] = "client" /\ sizes[t[2]] # <<>>
                                     THEN Disconnect(t[2]) ELSE <<>>]

\* A thread posts a send or a receive.
Post(t) ==
  LET call == Head(script[t])
      c == call.with
      waits == call.do \in {"send", "recv", "anyrecv"}
      item == [tag |-> call.tag, size |-> call.size, val |-> call.val, exact |-> call.exact,
               by |-> t, waits |-> waits]
      eager == call.size <= session.eager
  IN  /\ Ready(t) /\ call.do \in {"send", "recv", "anyrecv", "dsend", "drecv"}
      /\ IF Side(t) \in closed[c] /\ call.do # "anyrecv" THEN Fail(t) /\ UNCHANGED <<pending, sent, posted>>
         ELSE /\ script' = [script EXCEPT ![t] = Tail(@)]
              /\ IF call.do \in {"send", "dsend"}
                 THEN /\ sent' = [sent EXCEPT ![c][Side(t)] = Append(@, [item EXCEPT !.waits = @ /\ ~eager])]
                      /\ pending' = IF waits /\ ~eager THEN [pending EXCEPT ![t] = @ + 1] ELSE pending
                      /\ UNCHANGED posted
                 ELSE /\ posted' = [posted EXCEPT ![c][Side(t)] = Append(@, item)]
                      /\ pending' = IF waits THEN [pending EXCEPT ![t] = @ + 1] ELSE pending
                      /\ UNCHANGED sent
              /\ UNCHANGED failed
      /\ UNCHANGED <<session, sizes, closed, tasks, keyed, stop>>

\* lfi_wait_all, and the other calls that leave the messages alone.  lfi_put
\* and lfi_get fail if the memory is not registered (any more).
Pass(t) ==
  LET call == Head(script[t])
      c == call.with
  IN  /\ Ready(t) /\ call.do \in {"wait", "close", "reg", "unreg", "put"}
      /\ closed' = IF call.do = "close" THEN [closed EXCEPT ![c] = @ \cup {Side(t)}] ELSE closed
      /\ keyed' = CASE call.do = "reg" -> keyed \cup {c}
                    [] call.do = "unreg" -> keyed \ {c}
                    [] OTHER -> keyed
      /\ IF call.do = "put" /\ c \notin keyed THEN Fail(t)
         ELSE script' = [script EXCEPT ![t] = Tail(@)] /\ UNCHANGED failed
      /\ UNCHANGED <<session, sizes, pending, sent, posted, tasks, stop>>

\* A callback posts its request again, until the connection is closed.
Again(t) ==
  /\ Ready(t) /\ Head(script[t]).do = "repeat"
  /\ script' = [script EXCEPT ![t] = IF "server" \in closed[t[2]] THEN <<>>
                                     ELSE AcceptScript(session.server, t[2])]
  /\ UNCHANGED <<session, sizes, pending, failed, sent, posted, closed, tasks, keyed, stop>>

\* MPI_Barrier of all the clients.
Barrier ==
  /\ \A c \in session.clients : /\ Ready(<<"client", c>>)
                                /\ Head(script[<<"client", c>>]).do = "barrier"
  /\ script' = [t \in Threads |-> IF t[1] = "client" /\ t[2] \in session.clients
                                  THEN Tail(script[t]) ELSE script[t]]
  /\ UNCHANGED <<session, sizes, pending, failed, sent, posted, closed, tasks, keyed, stop>>

-----------------------------------------------------------------------------
(* The library: matching.                                                  *)

\* The receives of the other side a message can match, the first one first.
Receives(c, side, m) == SelectInSeq(posted[c][Other(side)], LAMBDA r : r.tag = m.tag)

\* The messages are matched in the order they were sent.
Matchable(c, side, i) ==
  /\ \A j \in 1..(i - 1) : /\ sent[c][side][j].tag # sent[c][side][i].tag
                           /\ Receives(c, side, sent[c][side][j]) = 0

Deliver(c, side, i) ==
  LET m == sent[c][side][i]
      k == Receives(c, side, m)
      r == posted[c][Other(side)][k]
      bad == m.size > r.size \/ (r.exact /\ m.size # r.size)
  IN  /\ Matchable(c, side, i) /\ k # 0
      /\ sent' = [sent EXCEPT ![c][side] = RemoveAt(@, i)]
      /\ posted' = [posted EXCEPT ![c][Other(side)] = RemoveAt(@, k)]
      /\ pending' = Completed(Completed(pending, m.by, m.waits), r.by, r.waits)
      /\ IF bad THEN Fail(r.by) ELSE UNCHANGED <<failed, script>>
      /\ UNCHANGED <<session, sizes, closed, tasks, keyed, stop>>

-----------------------------------------------------------------------------
(* The dispatching servers: echo_server and the ANY communicators.          *)

\* The answer to a header, in the dispatching thread or as a task of the pool,
\* waited for or posted and left to its request.
Inline(s) == script' = [script EXCEPT ![Echo] = s] /\ UNCHANGED tasks
Enqueue(s) == tasks' = Append(tasks, s) /\ UNCHANGED script

ServePool(c, v) == Enqueue(<<Answer(c, v)>>)
ServeSeq(c, v) == Inline(<<Answer(c, v)>>)
ServeAsync(c, v) == Inline(Detached(<<Answer(c, v)>>))
ServeAsyncAuto(c, v) == Inline(Detached(<<Answer(c, v)>>))
ServeAsyncPool(c, v) == Enqueue(Detached(<<Answer(c, v)>>))

\* The servers that work with callbacks take no requests.
Serve(c, v) ==
  CASE session.server = "echo_lfi_server" -> ServePool(c, v)
    [] session.server = "echo_lfi_server_seq" -> ServeSeq(c, v)
    [] session.server = "echo_lfi_server_async" -> ServeAsync(c, v)
    [] session.server = "echo_lfi_server_async_auto" -> ServeAsyncAuto(c, v)
    [] session.server = "echo_lfi_server_async_tpool" -> ServeAsyncPool(c, v)
    [] OTHER -> UNCHANGED <<script, tasks>>

\* lfi_wait_any returns a message of client c, which is served: a disconnect
\* closes the connection, and the first message to a server of the bandwidth
\* test or of the simple example starts the work on the connection.
Dispatch(c, i) ==
  LET m == sent[c]["client"][i]
  IN  /\ session.server \in Dispatching
      /\ Idle(Echo) /\ stop # "joined"
      /\ Matchable(c, "client", i) /\ m.tag = DispatchTag(session.server)
      /\ Receives(c, "client", m) = 0
      /\ sent' = [sent EXCEPT ![c]["client"] = RemoveAt(@, i)]
      /\ pending' = Completed(pending, m.by, m.waits)
      /\ CASE session.server = "bw_lfi_any_comm_server" ->
                /\ script' = [script EXCEPT ![<<"conn", c>>] = BwAnyServer(c)]
                /\ UNCHANGED <<closed, tasks>>
           [] session.server = "simple_lfi_server_any_comm" ->
                Inline(SimpleServerAny(c)) /\ UNCHANGED closed
           [] session.server \in Stoppable /\ m.val = DISCONNECT ->
                /\ closed' = [closed EXCEPT ![c] = @ \cup {"server"}]
                /\ UNCHANGED <<script, tasks>>
           [] OTHER -> Serve(c, m.val) /\ UNCHANGED closed
      /\ UNCHANGED <<session, sizes, failed, posted, keyed, stop>>

\* A thread of the pool takes the oldest task.
TakeTask(w) ==
  /\ tasks # <<>> /\ Idle(<<"worker", w>>)
  /\ script' = [script EXCEPT ![<<"worker", w>>] = Head(tasks)]
  /\ tasks' = Tail(tasks)
  /\ UNCHANGED <<session, sizes, pending, failed, sent, posted, closed, keyed, stop>>

\* SIGINT closes the listening socket.  (It is taken after the trigger request
\* has been posted.)
Signal ==
  /\ session.signal /\ session.server \in Stoppable /\ stop = "no"
  /\ stop' = "signalled"
  /\ UNCHANGED <<session, sizes, script, pending, failed, sent, posted, closed, tasks, keyed>>

\* Mutant: the trigger request is forgotten.
CancelTriggerNot ==
  /\ stop = "signalled" /\ UNCHANGED vars

\* The main thread leaves its accept loop and cancels the trigger request of
\* the dispatching thread.
CancelTrigger ==
  /\ stop = "signalled" /\ stop' = "canceled"
  /\ UNCHANGED <<session, sizes, script, pending, failed, sent, posted, closed, tasks, keyed>>

\* The dispatching thread sees the cancellation and returns, which joins the
\* threads of the pool after their tasks; the main thread joins it.
Join ==
  /\ stop = "canceled" /\ Idle(Echo)
  /\ tasks = <<>>
  /\ \A w \in Workers : Idle(<<"worker", w>>)
  /\ stop' = "joined"
  /\ UNCHANGED <<session, sizes, script, pending, failed, sent, posted, closed, tasks, keyed>>

-----------------------------------------------------------------------------
Step(t) == Post(t) \/ Pass(t) \/ Again(t)

Next ==
  \/ \E t \in Threads : Step(t)
  \/ \E c \in Clients : \/ \E side \in Sides : \E i \in DOMAIN sent[c][side] : Deliver(c, side, i)
                        \/ \E i \in DOMAIN sent[c]["client"] : Dispatch(c, i)
  \/ \E w \in Workers : TakeTask(w)
  \/ Barrier \/ Signal \/ CancelTrigger \/ Join

Spec == Init /\ [][Next]_vars

\* The threads run, and the fabric delivers.
Fairness == WF_vars(Next)
FairSpec == Spec /\ Fairness

-----------------------------------------------------------------------------
(* Properties.                                                             *)

\* The pairs of programs whose calls the code does not make agree: bw_lfi_client
\* runs the first test once more than bw_lfi_server_tpool does, and two threads of
\* a pool may receive each other's message of a client that pushes.
WarmupUnanswered == session.client = "bw_lfi_client" /\ session.server = "bw_lfi_server_tpool"
PushedToPool ==
  /\ session.client \in {"echo_lfi_client_send", "echo_lfi_client_send_async"}
  /\ session.server \in {"echo_lfi_server", "echo_lfi_server_async_tpool"}

\* Both programs of a session agree on tags, sizes and order: no call fails, no
\* receive gets a message of another size and nobody uses a connection its own
\* side has closed (the checks after every call of the programs).  What may fail
\* is: a callback of two servers that posts its request again after the
\* dispatching thread has closed the connection; the receive of a client that has
\* been told "down", which its server does not learn of; and the pairs above, the
\* pushing clients only in the threads of the pool.
ExactExchange ==
  \A t \in failed :
    \/ /\ session.server \in {"echo_lfi_server_recv", "echo_lfi_server_send"}
       /\ t[1] = "conn" /\ "server" \in closed[t[2]]
    \/ /\ session.client = "echo_lfi_client_interval_recv"
       /\ t[1] = "client" /\ sizes[t[2]] # <<MaxSize, MaxSize>>
    \/ PushedToPool /\ t[1] = "worker"
    \/ WarmupUnanswered

\* A session of two programs ends: every client gets through its script, the
\* server has closed the connections it closes, and no message is left unread but
\* by a thread of the server that failed.
ClosesConnections == session.server # "echo_lfi_server_rma"
Over ==
  \A c \in session.clients :
    /\ Idle(<<"client", c>>)
    /\ ClosesConnections => closed[c] = Sides
    /\ ClosesConnections /\ (\A t \in failed : Side(t) = "client") => sent[c]["client"] = <<>>
SessionsEnd == ~session.signal /\ ~WarmupUnanswered => <>Over

\* A server that is told to stop does: the dispatching thread notices, and its
\* pool finishes, whatever the clients are at.
ServerStops == stop = "signalled" ~> stop = "joined"
=============================================================================
