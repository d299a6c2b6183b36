----------------------------- MODULE LdPreload -----------------------------
(***************************************************************************)
(* The socket interposition library (ld_preload/ld_preload.cpp): the POSIX *)
(* calls of two programs, one that connects and one that accepts, carried  *)
(* over LFI.  Each process has one application thread and the thread of    *)
(* thread_eventfd_loop, which is told of incoming data by a notification   *)
(* received from any communicator, looks up the socket, receives the data  *)
(* by tag, queues it and raises the eventfd the program polls.             *)
(*                                                                         *)
(* Bytes are numbered in the order in which they are written on their      *)
(* connection.  A connection has the same number on both sides.  A heap    *)
(* object lfi_socket is an index of obj[p] and is never used again.        *)
(***************************************************************************)
EXTENDS Integers, Sequences, FiniteSets, FiniteSetsExt, SequencesExt

CONSTANTS
    MaxConns,     \* bound on the sockets a program creates and on the connections
    MaxSends,     \* bound on the write calls of a process, on all connections together
    Writers,      \* the processes that write, "c" and "s"
    MaxFails,     \* bound on the failures of port, handshake and connect
    Iovs,         \* the vectors of lengths a program writes
    ReadLens,     \* the total lengths a program reads
    Setups,       \* [eager, waitsBy]: whether a send completes before it is received,
                  \* and how the programs wait for data, "epoll" or "poll"
    Buffered,     \* LFI_ld_preload_buffered
    TagSpace      \* 1000001, the number of tags of the data messages

ASSUME LdPreloadAssumption ==
    /\ MaxConns \in Nat \ {0} /\ MaxSends \in Nat /\ MaxFails \in Nat
    /\ Buffered \in Nat /\ TagSpace \in Nat \ {0}
    /\ ReadLens \subseteq Nat
    /\ Setups \subseteq [eager : BOOLEAN, waitsBy : {"epoll", "poll"}]
    /\ \A v \in Iovs : Len(v) \in 1 .. TagSpace /\ \A i \in DOMAIN v : v[i] \in Nat

VARIABLES
    app,      \* the application thread of each process
    loop,     \* the thread of thread_eventfd_loop
    obj,      \* the lfi_socket objects in order of creation
    sids,     \* socket_ids: object registered for an fd, 0 for none
    cmap,     \* m_map_comm_socket: fd registered for a comm, 0 for none
    comms,    \* the communicators of the library that are open
    open,     \* the fds the kernel holds for the program's sockets
    mapLock,  \* m_map_comm_socket_mutex is held by the application thread
    mutex,    \* m_mutex is held by the application thread (in poll)
    running,  \* m_thread_eventfd_is_running
    noti,     \* notifications on their way to a process
    data,     \* data messages on their way to a process
    counter,  \* static_counter of internal_sendmsg
    sent,     \* bytes written on a connection
    writes,   \* write calls made on a connection
    got,      \* bytes read from a connection
    nconn, nfail, eager, waitsBy

sockets == <<obj, sids, cmap, comms, open>>
locks   == <<mapLock, mutex>>
net     == <<noti, data, counter>>
streams == <<sent, writes, got>>
env     == <<running, nconn, nfail, eager, waitsBy>>
vars    == <<app, loop, sockets, locks, net, streams, env>>

Proc  == {"c", "s"}                    \* the one that connects, the one that accepts
Peer(p) == IF p = "c" THEN "s" ELSE "c"
Conns == 1 .. MaxConns
Fds   == 1 .. MaxConns + MaxFails
Idle  == [pc |-> "idle", fd |-> 0, k |-> 0, n |-> 0, msgs |-> <<>>]

\* lfi_socket: a fresh one has neither communicator nor eventfd
NewSocket == [comm |-> 0, efd |-> -1, buffers |-> <<>>, locked |-> FALSE]

Init ==
    /\ app  = [p \in Proc |-> Idle]
    /\ loop = [p \in Proc |-> [Idle EXCEPT !.pc = "start"]]
    /\ obj  = [p \in Proc |-> <<>>]
    /\ sids = [p \in Proc |-> [f \in Fds |-> 0]]
    /\ cmap = [p \in Proc |-> [n \in Conns |-> 0]]
    /\ comms = [p \in Proc |-> {}] /\ open = [p \in Proc |-> {}]
    /\ mapLock = [p \in Proc |-> FALSE] /\ mutex = [p \in Proc |-> FALSE]
    /\ running = [p \in Proc |-> TRUE]
    /\ noti = [p \in Proc |-> <<>>] /\ data = [p \in Proc |-> {}]
    /\ counter = [p \in Proc |-> 0]
    /\ sent = [p \in Proc |-> [n \in Conns |-> 0]]
    /\ writes = [p \in Proc |-> [n \in Conns |-> 0]]
    /\ got  = [p \in Proc |-> [n \in Conns |-> <<>>]]
    /\ nconn = 0 /\ nfail = 0
    /\ \E u \in Setups : eager = u.eager /\ waitsBy = u.waitsBy

NextFd(p) == Min(Fds \ open[p])           \* the kernel hands out the lowest free number
Freed(p, k) == \A f \in Fds : sids[p][f] # k
Socket(p, f) == obj[p][sids[p][f]]        \* *socket_ids[f]
Crashed(p) == app[p].pc = "crashed"

---------------------------------------------------------------------------
(* socket, connect, accept, accept4                                        *)

\* socket: every stream socket gets an lfi_socket
SocketCall(p) ==
    /\ p = "c" /\ app[p].pc = "idle" /\ ~mutex[p]
    /\ open[p] = {} /\ Len(obj[p]) < MaxConns
    /\ open' = [open EXCEPT ![p] = @ \cup {NextFd(p)}]
    /\ obj'  = [obj EXCEPT ![p] = Append(@, NewSocket)]
    /\ sids' = [sids EXCEPT ![p][NextFd(p)] = Len(obj[p]) + 1]
    /\ UNCHANGED <<app, loop, cmap, comms, locks, net, streams, env>>

\* connect: the TCP connection is made, or fails and nothing has changed
Connect(p) ==
    /\ p = "c" /\ app[p].pc = "idle" /\ ~mutex[p] /\ nconn < MaxConns
    /\ \E f \in open[p] :
        /\ sids[p][f] # 0 /\ Socket(p, f).comm = 0
        /\ \/ app' = [app EXCEPT ![p] = [Idle EXCEPT !.pc = "tcp", !.fd = f]]
              /\ app["s"].pc \notin {"exited", "crashed"} /\ UNCHANGED nfail
           \/ nfail < MaxFails /\ nfail' = nfail + 1 /\ UNCHANGED app
    /\ UNCHANGED <<loop, sockets, locks, net, streams, running, nconn, eager, waitsBy>>

\* accept4: takes the TCP connection and opens the port of LFI; when the port is
\* taken the call fails and leaves the accepted fd open, outside socket_ids
Accept(p) ==
    /\ p = "s" /\ app[p].pc = "idle" /\ app["c"].pc = "tcp"
    /\ open' = [open EXCEPT ![p] = @ \cup {NextFd(p)}]
    /\ \/ app' = [app EXCEPT ![p] = [Idle EXCEPT !.pc = "tcp", !.fd = NextFd(p)]] /\ UNCHANGED nfail
       \/ /\ nfail < MaxFails /\ nfail' = nfail + 1
          /\ app' = [app EXCEPT !["c"].pc = "waiting"]
    /\ UNCHANGED <<loop, obj, sids, cmap, comms, locks, net, streams, running, nconn, eager, waitsBy>>

\* the exchange of the ping and of the address, client_init and accept: each side
\* blocks until the other one has done its part
Exchange ==
    /\ \A p \in Proc : app[p].pc = "tcp"
    /\ app' = [p \in Proc |-> [app[p] EXCEPT !.pc = "lock"]]
    /\ UNCHANGED <<loop, sockets, locks, net, streams, env>>

LockMap(p) ==
    /\ app[p].pc = "lock" /\ ~mapLock[p]
    /\ mapLock' = [mapLock EXCEPT ![p] = TRUE]
    /\ app' = [app EXCEPT ![p].pc = "init"]
    /\ UNCHANGED <<loop, sockets, mutex, net, streams, env>>

\* reserve_comm, init_client and init_server (module Connection), which succeed or
\* fail on both sides
Handshake ==
    /\ \A p \in Proc : app[p].pc = "init"
    /\ nconn' = nconn + 1
    /\ \/ /\ comms' = [p \in Proc |-> comms[p] \cup {nconn + 1}]
          /\ app' = [p \in Proc |-> [app[p] EXCEPT !.pc = "register", !.n = nconn + 1]]
          /\ UNCHANGED nfail
       \/ /\ nfail < MaxFails /\ nfail' = nfail + 1
          /\ app' = [p \in Proc |-> [app[p] EXCEPT !.pc = "failed", !.n = nconn + 1]]
          /\ UNCHANGED comms
    /\ UNCHANGED <<loop, obj, sids, cmap, open, locks, net, streams, running, eager, waitsBy>>

\* both maps are filled and the eventfd created while m_map_comm_socket_mutex is held.
\* connect has its object; accept4 makes one, unless the fd is still registered
Register(p) ==
    LET f == app[p].fd
        n == app[p].n
        k == IF sids[p][f] # 0 THEN sids[p][f] ELSE Len(obj[p]) + 1
        o == IF sids[p][f] # 0 THEN obj[p][k] ELSE NewSocket
    IN  /\ app[p].pc = "register" /\ ~mutex[p]
        /\ obj' = [obj EXCEPT ![p] = [i \in 1 .. Max({k, Len(@)}) |->
                       IF i = k THEN [o EXCEPT !.comm = n, !.efd = 0] ELSE @[i]]]
        /\ sids' = [sids EXCEPT ![p][f] = k]
        /\ cmap' = [cmap EXCEPT ![p][n] = f]
        /\ app' = [app EXCEPT ![p].pc = "hello"]
        /\ UNCHANGED <<loop, comms, open, locks, net, streams, env>>

\* the error return: connect has stored the communicator in the socket; the fd that
\* accept4 has accepted stays open in the kernel
RegisterFail(p) ==
    /\ app[p].pc = "failed" /\ ~mutex[p]
    /\ obj' = IF p = "c" THEN [obj EXCEPT ![p][sids[p][app[p].fd]].comm = app[p].n] ELSE obj
    /\ mapLock' = [mapLock EXCEPT ![p] = FALSE]
    /\ app' = [app EXCEPT ![p] = Idle]
    /\ UNCHANGED <<loop, sids, cmap, comms, open, mutex, net, streams, env>>

\* ten rounds of Hello, with the mutex held
Hello ==
    /\ \A p \in Proc : app[p].pc = "hello"
    /\ app' = [p \in Proc |-> [app[p] EXCEPT !.pc = "return"]]
    /\ UNCHANGED <<loop, sockets, locks, net, streams, env>>

Return(p) ==
    /\ app[p].pc = "return"
    /\ mapLock' = [mapLock EXCEPT ![p] = FALSE]
    /\ app' = [app EXCEPT ![p] = Idle]
    /\ UNCHANGED <<loop, sockets, mutex, net, streams, env>>

---------------------------------------------------------------------------
(* write, writev, send, sendmsg: internal_sendmsg                          *)

\* the lengths of the messages: vectors are joined while they fit in a buffer
Groups(iov) ==
    FoldLeft(LAMBDA gs, len :
                 IF Last(gs) # 0 /\ Last(gs) + len > Buffered THEN Append(gs, len)
                 ELSE [gs EXCEPT ![Len(gs)] = @ + len], <<0>>, iov)

Total(lens) == FoldLeft(LAMBDA a, b : a + b, 0, lens)

\* the messages of a call, numbered from byte `from` on and tagged in turn
Messages(p, n, from, lens) ==
    [i \in DOMAIN lens |->
        [comm |-> n, seq |-> counter[p] + i, tag |-> (counter[p] + i - 1) % TagSpace,
         bytes |-> [j \in 1 .. lens[i] |-> from + Total(SubSeq(lens, 1, i - 1)) + j]]]

\* sockets without a communicator, or with one that is gone, return an error
Sendable(p, f) == sids[p][f] # 0 /\ Socket(p, f).comm \in comms[p]

\* the lookup, the grouping and the notification, received from any communicator
SendNotify(p) ==
    \E f \in open[p], iov \in Iovs :
        LET n == Socket(p, f).comm
            ms == Messages(p, n, sent[p][n], Groups(iov))
        IN  /\ app[p].pc = "idle" /\ ~mutex[p] /\ p \in Writers
            /\ Sendable(p, f) /\ Total(writes[p]) < MaxSends
            /\ noti' = [noti EXCEPT ![Peer(p)] = Append(@, [comm |-> n,
                           msgs |-> [i \in DOMAIN ms |-> [tag |-> ms[i].tag, size |-> Len(ms[i].bytes)]]])]
            /\ counter' = [counter EXCEPT ![p] = @ + Len(ms)]
            /\ sent' = [sent EXCEPT ![p][n] = @ + Total(iov)]
            /\ writes' = [writes EXCEPT ![p][n] = @ + 1]
            /\ app' = [app EXCEPT ![p] = [pc |-> "data", fd |-> f, k |-> 0, n |-> n, msgs |-> ms]]
            /\ UNCHANGED <<loop, sockets, locks, data, got, env>>

SendData(p) ==
    /\ app[p].pc = "data"
    /\ data' = [data EXCEPT ![Peer(p)] = @ \cup Range(app[p].msgs)]
    /\ app' = [app EXCEPT ![p].pc = "sending"]
    /\ UNCHANGED <<loop, sockets, locks, noti, counter, streams, env>>

\* wait_num on all sends
SendDone(p) ==
    /\ app[p].pc = "sending"
    /\ eager \/ \A m \in Range(app[p].msgs) : m \notin data[Peer(p)]
    /\ app' = [app EXCEPT ![p] = Idle]
    /\ UNCHANGED <<loop, sockets, locks, net, streams, env>>

---------------------------------------------------------------------------
(* read, readv, recv, recvmsg: internal_recvmsg; epoll_ctl and poll        *)

\* MUTANT of Recv: a partial read does not advance `consumed`
RecvForgets(p) ==
    \E f \in open[p], len \in ReadLens :
        LET k == sids[p][f]
            front == Head(obj[p][k].buffers)
            copied == Min({len, Len(front)})
        IN  /\ app[p].pc \in {"idle", "told"} /\ ~mutex[p]
            /\ Sendable(p, f) /\ ~obj[p][k].locked /\ obj[p][k].buffers # <<>>
            /\ got' = [got EXCEPT ![p][obj[p][k].comm] = @ \o SubSeq(front, 1, copied)]
            /\ obj' = IF copied = Len(front)
                      THEN [obj EXCEPT ![p][k].buffers = Tail(@), ![p][k].efd = IF @ > 0 THEN @ - 1 ELSE @]
                      ELSE obj
            /\ app' = [app EXCEPT ![p] = Idle]
            /\ UNCHANGED <<loop, sids, cmap, comms, open, locks, net, sent, writes, env>>

\* MUTANT of Recv: a used up buffer leaves its count in the eventfd
RecvNoDrain(p) ==
    \E f \in open[p], len \in ReadLens :
        LET k == sids[p][f]
            front == Head(obj[p][k].buffers)
            copied == Min({len, Len(front)})
        IN  /\ app[p].pc \in {"idle", "told"} /\ ~mutex[p]
            /\ Sendable(p, f) /\ ~obj[p][k].locked /\ obj[p][k].buffers # <<>>
            /\ got' = [got EXCEPT ![p][obj[p][k].comm] = @ \o SubSeq(front, 1, copied)]
            /\ obj' = IF copied = Len(front)
                      THEN [obj EXCEPT ![p][k].buffers = Tail(@)]
                      ELSE [obj EXCEPT ![p][k].buffers[1] = SubSeq(@, copied + 1, Len(@))]
            /\ app' = [app EXCEPT ![p] = Idle]
            /\ UNCHANGED <<loop, sids, cmap, comms, open, locks, net, sent, writes, env>>

\* the front buffer is read; when it is used up it leaves the queue and takes one
\* count of the semaphore eventfd with it.  With an empty queue the call returns EAGAIN
Recv(p) ==
    \E f \in open[p], len \in ReadLens :
        LET k == sids[p][f]
            front == Head(obj[p][k].buffers)
            copied == Min({len, Len(front)})
        IN  /\ app[p].pc \in {"idle", "told"} /\ ~mutex[p]
            /\ Sendable(p, f) /\ ~obj[p][k].locked /\ obj[p][k].buffers # <<>>
            /\ got' = [got EXCEPT ![p][obj[p][k].comm] = @ \o SubSeq(front, 1, copied)]
            /\ obj' = IF copied = Len(front)
                      THEN [obj EXCEPT ![p][k].buffers = Tail(@), ![p][k].efd = IF @ > 0 THEN @ - 1 ELSE @]
                      ELSE [obj EXCEPT ![p][k].buffers[1] = SubSeq(@, copied + 1, Len(@))]
            /\ app' = [app EXCEPT ![p] = Idle]
            /\ UNCHANGED <<loop, sids, cmap, comms, open, locks, net, sent, writes, env>>

\* epoll_ctl registers the eventfd in place of the socket, poll passes it to the kernel
\* and keeps m_mutex for the whole call, which may end by its timeout
Poll(p) ==
    \E f \in open[p] :
        /\ app[p].pc = "idle" /\ ~mutex[p] /\ sids[p][f] # 0 /\ Socket(p, f).efd # -1
        /\ app' = [app EXCEPT ![p] = [Idle EXCEPT !.pc = "poll", !.fd = f, !.k = sids[p][f]]]
        /\ mutex' = [mutex EXCEPT ![p] = waitsBy = "poll"]
        /\ UNCHANGED <<loop, sockets, mapLock, net, streams, env>>

PollEnd(p) ==
    /\ app[p].pc = "poll"
    /\ mutex' = [mutex EXCEPT ![p] = FALSE]
    /\ \/ obj[p][app[p].k].efd > 0 /\ app' = [app EXCEPT ![p].pc = "told"]
       \/ obj[p][app[p].k].efd <= 0 /\ app' = [app EXCEPT ![p] = Idle]
    /\ UNCHANGED <<loop, sockets, mapLock, net, streams, env>>

---------------------------------------------------------------------------
(* close                                                                   *)

\* the real close comes first: the number may be handed out again at once
Close(p) ==
    \E f \in open[p] :
        /\ app[p].pc = "idle" /\ ~mutex[p]
        /\ open' = [open EXCEPT ![p] = @ \ {f}]
        /\ app' = [app EXCEPT ![p] =
               IF sids[p][f] = 0 THEN Idle
               ELSE [Idle EXCEPT !.pc = "closing", !.fd = f, !.k = sids[p][f]]]
        /\ UNCHANGED <<loop, obj, sids, cmap, comms, locks, net, streams, env>>

CloseComm(p) ==
    /\ app[p].pc = "closing"
    /\ comms' = [comms EXCEPT ![p] = @ \ {obj[p][app[p].k].comm}]
    /\ app' = [app EXCEPT ![p].pc = "unmap"]
    /\ UNCHANGED <<loop, obj, sids, cmap, open, locks, net, streams, env>>

\* MUTANT of CloseUnmap: the entry of the communicator is left behind
CloseUnmapNot(p) ==
    LET k == app[p].k
        n == obj[p][k].comm
    IN  /\ app[p].pc = "unmap" /\ ~mapLock[p]
        /\ UNCHANGED cmap
        /\ obj' = [obj EXCEPT ![p][k].efd = -1]
        /\ app' = [app EXCEPT ![p].pc = "erase"]
        /\ UNCHANGED <<loop, sids, comms, open, locks, net, streams, env>>

\* m_map_comm_socket.erase, then destroy_eventfd
CloseUnmap(p) ==
    LET k == app[p].k
        n == obj[p][k].comm
    IN  /\ app[p].pc = "unmap" /\ ~mapLock[p]
        /\ cmap' = IF n = 0 THEN cmap ELSE [cmap EXCEPT ![p][n] = 0]
        /\ obj' = [obj EXCEPT ![p][k].efd = -1]
        /\ app' = [app EXCEPT ![p].pc = "erase"]
        /\ UNCHANGED <<loop, sids, comms, open, locks, net, streams, env>>

CloseErase(p) ==
    /\ app[p].pc = "erase" /\ ~mutex[p]
    /\ sids' = [sids EXCEPT ![p][app[p].fd] = 0]
    /\ app' = [app EXCEPT ![p] = Idle]
    /\ UNCHANGED <<loop, obj, cmap, comms, open, locks, net, streams, env>>

---------------------------------------------------------------------------
(* thread_eventfd_loop                                                     *)

\* continue: the loop ends when the library stops
Again(p) == [Idle EXCEPT !.pc = IF running[p] THEN "wait" ELSE "end"]

\* the requests on ANY_COMM_SHM and ANY_COMM_PEER are created and posted
LoopStart(p) ==
    /\ loop[p].pc = "start"
    /\ loop' = [loop EXCEPT ![p] = Again(p)]
    /\ UNCHANGED <<app, sockets, locks, net, streams, env>>

\* wait_num returns a notification, the request is posted again
LoopNotified(p) ==
    /\ loop[p].pc = "wait" /\ running[p] /\ noti[p] # <<>>
    /\ loop' = [loop EXCEPT ![p] = [Idle EXCEPT !.pc = "map", !.n = Head(noti[p]).comm,
                                                !.msgs = Head(noti[p]).msgs]]
    /\ noti' = [noti EXCEPT ![p] = Tail(@)]
    /\ UNCHANGED <<app, sockets, locks, data, counter, streams, env>>

\* wait_num returns a cancelled request
LoopCanceled(p) ==
    /\ loop[p].pc = "wait" /\ ~running[p]
    /\ loop' = [loop EXCEPT ![p] = Again(p)]
    /\ UNCHANGED <<app, sockets, locks, net, streams, env>>

\* MUTANT of LoopFindFd: the mutex is tried, not taken
LoopFindFdTry(p) ==
    /\ loop[p].pc = "map"
    /\ loop' = [loop EXCEPT ![p] =
           IF mapLock[p] \/ cmap[p][@.n] = 0 THEN Again(p) ELSE [@ EXCEPT !.pc = "sock", !.fd = cmap[p][loop[p].n]]]
    /\ UNCHANGED <<app, sockets, locks, net, streams, env>>

\* the fd of the source, under m_map_comm_socket_mutex; a notification of a
\* connection that is not registered is dropped
LoopFindFd(p) ==
    /\ loop[p].pc = "map" /\ ~mapLock[p]
    /\ loop' = [loop EXCEPT ![p] =
           IF cmap[p][@.n] = 0 THEN Again(p) ELSE [@ EXCEPT !.pc = "sock", !.fd = cmap[p][loop[p].n]]]
    /\ UNCHANGED <<app, sockets, locks, net, streams, env>>

\* the object of that fd, under m_mutex: the pointer is used after the unlock
LoopFindSocket(p) ==
    /\ loop[p].pc = "sock" /\ ~mutex[p]
    /\ loop' = [loop EXCEPT ![p] =
           IF sids[p][@.fd] = 0 THEN Again(p) ELSE [@ EXCEPT !.pc = "comm", !.k = sids[p][loop[p].fd]]]
    /\ UNCHANGED <<app, sockets, locks, net, streams, env>>

\* get_comm of the communicator the object holds
LoopGetComm(p) ==
    /\ loop[p].pc = "comm"
    /\ loop' = [loop EXCEPT ![p] =
           IF obj[p][@.k].comm \notin comms[p] THEN Again(p)
           ELSE [@ EXCEPT !.pc = "recv"]]
    /\ UNCHANGED <<app, sockets, locks, net, streams, env>>

\* async_recv of every message of the notification by its tag, the first that was
\* sent with it, and the wait for all
Matches(p, m) == {d \in data[p] : d.comm = obj[p][loop[p].k].comm /\ d.tag = m.tag}

LoopRecv(p) ==
    LET picked == [j \in DOMAIN loop[p].msgs |->
                      CHOOSE d \in Matches(p, loop[p].msgs[j]) :
                          \A e \in Matches(p, loop[p].msgs[j]) : d.seq <= e.seq]
    IN  /\ loop[p].pc = "recv"
        /\ \A j \in DOMAIN loop[p].msgs : Matches(p, loop[p].msgs[j]) # {}
        /\ loop' = [loop EXCEPT ![p].pc = "push",
                       ![p].msgs = FlattenSeq([j \in DOMAIN picked |-> picked[j].bytes])]
        /\ data' = [data EXCEPT ![p] = @ \ Range(picked)]
        /\ UNCHANGED <<app, sockets, locks, noti, counter, streams, env>>

\* the buffer is queued with the mutex of the socket held ...
LoopPush(p) ==
    /\ loop[p].pc = "push" /\ ~obj[p][loop[p].k].locked
    /\ obj' = [obj EXCEPT ![p][loop[p].k].buffers = Append(@, loop[p].msgs), ![p][loop[p].k].locked = TRUE]
    /\ loop' = [loop EXCEPT ![p].pc = "raise"]
    /\ UNCHANGED <<app, sids, cmap, comms, open, locks, net, streams, env>>

\* ... and the eventfd is raised, unless it is closed
LoopRaise(p) ==
    /\ loop[p].pc = "raise"
    /\ obj' = [obj EXCEPT ![p][loop[p].k].efd = IF @ = -1 THEN @ ELSE @ + 1, ![p][loop[p].k].locked = FALSE]
    /\ loop' = [loop EXCEPT ![p] = Again(p)]
    /\ UNCHANGED <<app, sids, cmap, comms, open, locks, net, streams, env>>

\* the pointer may be that of a socket close has destroyed: the process may crash
LoopDangling(p) ==
    /\ loop[p].pc \in {"comm", "push", "raise"} /\ Freed(p, loop[p].k)
    /\ app' = [app EXCEPT ![p].pc = "crashed"]
    /\ loop' = [loop EXCEPT ![p].pc = "crashed"]
    /\ UNCHANGED <<sockets, locks, net, streams, env>>

LoopStep(p) ==
    \/ LoopStart(p) \/ LoopNotified(p) \/ LoopCanceled(p) \/ LoopFindFd(p) \/ LoopFindSocket(p)
    \/ LoopGetComm(p) \/ LoopRecv(p) \/ LoopPush(p) \/ LoopRaise(p)

---------------------------------------------------------------------------
(* the destructor: thread_eventfd_end and the end of the library           *)

\* the requests are cancelled, through null pointers when the thread has made none yet;
\* a program ends after its last connection attempt
End(p) ==
    /\ app[p].pc = "idle" /\ running[p] /\ nconn = MaxConns
    /\ running' = [running EXCEPT ![p] = FALSE]
    /\ app' = [app EXCEPT ![p].pc = IF loop[p].pc = "start" THEN "crashed" ELSE "join"]
    /\ loop' = [loop EXCEPT ![p].pc = IF @ = "start" THEN "crashed" ELSE @]
    /\ UNCHANGED <<sockets, locks, net, streams, nconn, nfail, eager, waitsBy>>

Join(p) ==
    /\ app[p].pc = "join" /\ loop[p].pc = "end"
    /\ app' = [app EXCEPT ![p].pc = "exited"]
    /\ comms' = [comms EXCEPT ![p] = {}]
    /\ UNCHANGED <<loop, obj, sids, cmap, open, locks, net, streams, env>>

\* the steps of a call that has begun
CallStep(p) ==
    \/ LockMap(p) \/ Register(p) \/ RegisterFail(p) \/ Return(p) \/ SendData(p) \/ SendDone(p)
    \/ CloseComm(p) \/ CloseUnmap(p) \/ CloseErase(p) \/ Join(p)

Next ==
    \/ Exchange \/ Handshake \/ Hello
    \/ \E p \in Proc :
        \/ SocketCall(p) \/ Connect(p) \/ Accept(p) \/ SendNotify(p) \/ Recv(p)
        \/ Poll(p) \/ PollEnd(p) \/ Close(p) \/ End(p)
        \/ CallStep(p) \/ LoopStep(p) \/ LoopDangling(p)

Fairness ==
    /\ WF_vars(Exchange) /\ WF_vars(Handshake) /\ WF_vars(Hello)
    /\ \A p \in Proc : WF_vars(CallStep(p)) /\ WF_vars(LoopStep(p))

Spec == Init /\ [][Next]_vars /\ Fairness

---------------------------------------------------------------------------
(* Properties                                                              *)

\* TCP semantics across grouping, tags and partial reads (internal_sendmsg,
\* thread_eventfd_loop, internal_recvmsg): a program reads the bytes its peer wrote on
\* the same connection, in order, none twice and none skipped
StreamIntact ==
    \A p \in Proc, n \in Conns :
        /\ got[p][n] = [i \in DOMAIN got[p][n] |-> i]
        /\ Len(got[p][n]) <= sent[Peer(p)][n]

\* a program that poll or epoll_wait has told of data finds some: the count of the
\* eventfd never runs ahead of the queue (thread_eventfd_loop queues, then raises)
ToldHasData ==
    \A p \in Proc : app[p].pc = "told" => obj[p][app[p].k].buffers # <<>>

\* outside the calls that change them, m_map_comm_socket and socket_ids describe the
\* same sockets, and a program with no socket left has no entry and no eventfd left
RegistersAgree ==
    \A p \in Proc : app[p].pc \in {"idle", "poll", "told", "data", "sending"} =>
        /\ \A n \in Conns : cmap[p][n] # 0 => /\ sids[p][cmap[p][n]] # 0
                                              /\ Socket(p, cmap[p][n]).comm = n
                                              /\ n \in comms[p]
        /\ \A f \in Fds : sids[p][f] # 0 => f \in open[p]
        /\ \A k \in DOMAIN obj[p] : Freed(p, k) => obj[p][k].efd = -1

\* the loop has looked up a number that has been given to another connection since:
\* it waits on that connection for messages that were sent on the old one
Astray(p) ==
    loop[p].pc = "recv" /\ obj[p][loop[p].k].comm # loop[p].n

\* byte i of connection n is read, or queued on a socket whose eventfd is raised
Arrived(p, n, i) ==
    \/ Len(got[p][n]) >= i
    \/ \E k \in DOMAIN obj[p] : /\ obj[p][k].comm = n /\ obj[p][k].efd > 0
                               /\ \E b \in Range(obj[p][k].buffers) : i \in Range(b)

\* what is written becomes readable while the connection stays open and the programs
\* wait with epoll: every notification finds its socket, every message its receive, and
\* the eventfd is raised
Delivered ==
    \A p \in Writers, n \in Conns :
        LET q == Peer(p)
        IN  (writes[p][n] > 0 /\ waitsBy = "epoll")
                ~> \/ \A i \in 1 .. sent[p][n] : Arrived(q, n, i)
                   \/ n \notin comms[q] \/ Astray(q) \/ ~running[q] \/ Crashed(q) \/ Crashed(p)
=============================================================================
