----------------------------- MODULE Connection -----------------------------
(***************************************************************************)
(* One connection between a server and a client process: the handshake that *)
(* brings it up (src/impl/connection.cpp, src/impl/address.cpp) over a TCP   *)
(* stream (src/impl/socket.cpp), the entry of each process in its table of   *)
(* communicators (src/impl/comm.cpp), and the application threads that look  *)
(* the entry up while the handshake is still running.                       *)
(*                                                                         *)
(* With LFI_async_connection, the default, lfi_client_create and            *)
(* lfi_server_accept (src/lfi.cpp) reserve an entry, start the handshake in  *)
(* a thread, keep its future in m_fut_comms and return.  The first lookup   *)
(* takes the future and waits for it; later ones wait on m_fut_wait_cv.     *)
(*                                                                         *)
(* Grain: one step per socket operation, per critical section and per       *)
(* atomic access.  m_comms_mutex is held shared across steps (readers); the *)
(* writers hold it for one step.  A size and the bytes that follow it are   *)
(* one message, and so are the two parts of the heartbeat; an id is the     *)
(* host, a rank the index of the entry, an address an endpoint of a side.   *)
(***************************************************************************)
EXTENDS Integers, Sequences, FiniteSets

CONSTANTS
  Users,          \* application threads
  Side,           \* [Users -> Sides]
  Rank,           \* [Sides -> Nat], comm_id of the entry
  Hosts,          \* the hosts a process may run on
  UseShm,         \* LFI_use_shm
  FT,             \* LFI_fault_tolerance
  Faults          \* whether fi_getname and the fabric may fail

Sides == {"server", "client"}
Other(s) == IF s = "server" THEN "client" ELSE "server"

ASSUME ConnectionAssumption ==
  /\ Side \in [Users -> Sides] /\ Rank \in [Sides -> Nat]
  /\ {UseShm, FT, Faults} \subseteq BOOLEAN

VARIABLES
  host,      \* the host of each process
  stream,    \* messages on their way to a side
  closed,    \* sides that have closed their socket
  fabric,    \* tags of the LFI messages sent
  at,        \* position of a side's handshake
  task,      \* the handshake thread: "none", "running", "done", "failed"
  fut,       \* its future: "none", "stored" in m_fut_comms, "taken"
  comm,      \* the entry: "absent", "reserved" or the status is_ready
  endpoint,  \* m_endpoint of the entry
  peer_id, rank_self_in_peer, fi_addr, heartbeat,  \* what the handshake has learnt
  readers,   \* threads that hold m_comms_mutex shared
  pc, op,    \* control state of a thread and whether it uses or closes the entry
  uninserted, early  \* history: see below

(* History variables.  uninserted holds the sides on which fi_av_insert      *)
(* inserted no address and reported no error either; early, those on which  *)
(* the application has closed the connection under itself: while it was     *)
(* coming up or one of its threads waited for it, or, if it had failed,     *)
(* while another of its threads used it.                                    *)

hsVars == <<stream, closed, fabric, at, task>>
entryVars == <<comm, endpoint, peer_id, rank_self_in_peer, fi_addr, heartbeat, uninserted>>
userVars == <<readers, pc, op, early>>
vars == <<host, hsVars, fut, entryVars, userVars>>

Unknown == "unknown"
NoRank == -1                    \* not yet written
NoAddr == <<Unknown, Unknown>>  \* FI_ADDR_UNSPEC
Ready == {"READY_INTERNAL", "READY"}
Statuses == {"NOT_READY"} \cup Ready

Init ==
  /\ host \in [Sides -> Hosts]
  /\ stream = [s \in Sides |-> <<>>]
  /\ closed = {} /\ fabric = {}
  /\ at = [s \in Sides |-> 1]
  /\ task = [s \in Sides |-> "none"]
  /\ fut = [s \in Sides |-> "none"]
  /\ comm = [s \in Sides |-> "absent"]
  /\ endpoint = [s \in Sides |-> Unknown]
  /\ peer_id = [s \in Sides |-> Unknown]
  /\ rank_self_in_peer = [s \in Sides |-> NoRank]
  /\ fi_addr = [s \in Sides |-> NoAddr]
  /\ heartbeat = [s \in Sides |-> FALSE]
  /\ readers = {}
  /\ pc = [t \in Users |-> "idle"]
  /\ op = [t \in Users |-> "use"]
  /\ uninserted = {} /\ early = {}

-----------------------------------------------------------------------------
(* The handshake.                                                          *)

HeartbeatIf(steps) == IF FT THEN steps ELSE <<>>

\* The order of init_server.
ServerSteps ==
  <<"send_id", "recv_id", "init_comm", "recv_rank", "send_rank", "recv_addr",
    "send_addr", "internal">>
  \o HeartbeatIf(<<"send_heartbeat", "recv_heartbeat">>)
  \o <<"fi_send", "fi_recv", "ready", "close">>

\* Mutant: the client sends its address after it has received the server's.
ClientStepsAddrLate ==
  <<"recv_id", "send_id", "init_comm", "send_rank", "recv_rank", "recv_addr",
    "send_addr", "internal">>
  \o HeartbeatIf(<<"recv_heartbeat", "send_heartbeat">>)
  \o <<"fi_recv", "fi_send", "ready", "close">>

\* Mutant: the client sends the address before the rank.
ClientStepsSwapped ==
  <<"recv_id", "send_id", "init_comm", "send_addr", "send_rank", "recv_rank",
    "recv_addr", "internal">>
  \o HeartbeatIf(<<"recv_heartbeat", "send_heartbeat">>)
  \o <<"fi_recv", "fi_send", "ready", "close">>

\* The order of init_client.
ClientSteps ==
  <<"recv_id", "send_id", "init_comm", "send_rank", "recv_rank", "send_addr",
    "recv_addr", "internal">>
  \o HeartbeatIf(<<"recv_heartbeat", "send_heartbeat">>)
  \o <<"fi_recv", "fi_send", "ready", "close">>

Steps(s) == IF s = "server" THEN ServerSteps ELSE ClientSteps

Sends == [send_id |-> "id", send_rank |-> "rank", send_addr |-> "addr",
          send_heartbeat |-> "heartbeat"]
Recvs == [recv_id |-> "id", recv_rank |-> "rank", recv_heartbeat |-> "heartbeat"]

\* The handshake of s is at one of these steps.  If the entry has been erased,
\* what its thread does is undefined, and the model leaves it there.
AtStep(s, S) == task[s] = "running" /\ comm[s] # "absent" /\ Steps(s)[at[s]] \in S

Advance(s) == at' = [at EXCEPT ![s] = @ + 1]

\* init_server and init_client return an error, the lambda closes the socket.
Fail(s) ==
  /\ task' = [task EXCEPT ![s] = "failed"]
  /\ closed' = closed \cup {s}

\* lfi_client_create_t and lfi_server_accept_t: reserve the entry, start the
\* handshake, keep its future.  The id is not known to anyone before that.
Create(s) ==
  /\ task[s] = "none"
  /\ comm' = [comm EXCEPT ![s] = "reserved"]
  /\ fut' = [fut EXCEPT ![s] = "stored"]
  /\ task' = [task EXCEPT ![s] = "running"]
  /\ UNCHANGED <<host, stream, closed, fabric, at, endpoint, peer_id, rank_self_in_peer,
                 fi_addr, heartbeat, uninserted, userVars>>

Value(s, kind) ==
  CASE kind = "id" -> host[s]
    [] kind = "rank" -> Rank[s]
    [] kind = "addr" -> <<s, endpoint[s]>>
    [] kind = "heartbeat" -> TRUE

SockSend(s) ==
  /\ AtStep(s, DOMAIN Sends)
  /\ LET kind == Sends[Steps(s)[at[s]]]
     IN  stream' = [stream EXCEPT ![Other(s)] = Append(@, [kind |-> kind, val |-> Value(s, kind)])]
  /\ Advance(s)
  /\ UNCHANGED <<host, closed, fabric, task, fut, entryVars, userVars>>

\* The bytes go where this side expects them, whatever the peer meant.
SockRecv(s) ==
  /\ AtStep(s, DOMAIN Recvs)
  /\ stream[s] # <<>>
  /\ LET kind == Recvs[Steps(s)[at[s]]]
         val == Head(stream[s]).val
         Take(field, k) == IF kind = k THEN [field EXCEPT ![s] = val] ELSE field
     IN  /\ peer_id' = Take(peer_id, "id")
         /\ rank_self_in_peer' = Take(rank_self_in_peer, "rank")
         /\ heartbeat' = Take(heartbeat, "heartbeat")
  /\ stream' = [stream EXCEPT ![s] = Tail(@)]
  /\ Advance(s)
  /\ UNCHANGED <<host, closed, fabric, task, fut, comm, endpoint, fi_addr, uninserted,
                 userVars>>

\* The peer's address is received and registered.  register_addr returns what
\* fi_av_insert does, and only a negative number is an error to its caller.
RecvAddr(s) ==
  /\ AtStep(s, {"recv_addr"})
  /\ stream[s] # <<>>
  /\ stream' = [stream EXCEPT ![s] = Tail(@)]
  /\ \E n \in {1, 0, -1} :
       /\ IF n < 0 THEN Fail(s) /\ UNCHANGED at ELSE Advance(s) /\ UNCHANGED <<task, closed>>
       /\ fi_addr' = IF n = 1 THEN [fi_addr EXCEPT ![s] = Head(stream[s]).val] ELSE fi_addr
       /\ uninserted' = IF n = 0 THEN uninserted \cup {s} ELSE uninserted
  /\ UNCHANGED <<host, fabric, fut, comm, endpoint, peer_id, rank_self_in_peer, heartbeat,
                 userVars>>

\* The peer has closed its end: a send fails, and so may a receive.  A receive
\* that reads the end of the stream does not: socket::recv tries again for ever.
SockBroken(s) ==
  /\ Other(s) \in closed
  /\ \/ AtStep(s, DOMAIN Sends)
     \/ AtStep(s, DOMAIN Recvs \cup {"recv_addr"}) /\ stream[s] = <<>>
  /\ Fail(s)
  /\ UNCHANGED <<host, stream, fabric, at, fut, entryVars, userVars>>

\* get_addr fails, or the first message over the fabric does.
Fault(s) ==
  /\ Faults
  /\ AtStep(s, {"send_addr", "fi_send", "fi_recv"})
  /\ Fail(s)
  /\ UNCHANGED <<host, stream, fabric, at, fut, entryVars, userVars>>

NoReader(s) == \A t \in readers : Side[t] # s

\* Mutant: the endpoint is chosen by the setting alone.
InitCommAlwaysShm(s) ==
  /\ AtStep(s, {"init_comm"})
  /\ comm[s] = "reserved"
  /\ NoReader(s)
  /\ comm' = [comm EXCEPT ![s] = "NOT_READY"]
  /\ endpoint' = [endpoint EXCEPT ![s] = IF UseShm THEN "shm" ELSE "peer"]
  /\ Advance(s)
  /\ UNCHANGED <<host, stream, closed, fabric, task, fut, peer_id, rank_self_in_peer,
                 fi_addr, heartbeat, uninserted, userVars>>

\* The communicator is created in the entry, under the exclusive lock.
InitComm(s) ==
  /\ AtStep(s, {"init_comm"})
  /\ comm[s] = "reserved"
  /\ NoReader(s)
  /\ comm' = [comm EXCEPT ![s] = "NOT_READY"]
  /\ endpoint' = [endpoint EXCEPT ![s] = IF UseShm /\ host[s] = peer_id[s] THEN "shm" ELSE "peer"]
  /\ Advance(s)
  /\ UNCHANGED <<host, stream, closed, fabric, task, fut, peer_id, rank_self_in_peer,
                 fi_addr, heartbeat, uninserted, userVars>>

\* is_ready = READY_INTERNAL: the communicator can be used from now on.
Internal(s) ==
  /\ AtStep(s, {"internal"})
  /\ comm' = [comm EXCEPT ![s] = "READY_INTERNAL"]
  /\ Advance(s)
  /\ UNCHANGED <<host, stream, closed, fabric, task, fut, endpoint, peer_id,
                 rank_self_in_peer, fi_addr, heartbeat, uninserted, userVars>>

\* LFI::send and LFI::recv of the initial messages.
FiSend(s) ==
  /\ AtStep(s, {"fi_send"})
  /\ fabric' = fabric \cup {s}
  /\ Advance(s)
  /\ UNCHANGED <<host, stream, closed, task, fut, entryVars, userVars>>

FiRecv(s) ==
  /\ AtStep(s, {"fi_recv"})
  /\ Other(s) \in fabric
  /\ Advance(s)
  /\ UNCHANGED <<host, stream, closed, fabric, task, fut, entryVars, userVars>>

\* is_ready = READY ...
BecomeReady(s) ==
  /\ AtStep(s, {"ready"})
  /\ comm' = [comm EXCEPT ![s] = "READY"]
  /\ Advance(s)
  /\ UNCHANGED <<host, stream, closed, fabric, task, fut, endpoint, peer_id,
                 rank_self_in_peer, fi_addr, heartbeat, uninserted, userVars>>

\* ... and the lambda closes the socket and ends, which resolves the future.
CloseSocket(s) ==
  /\ task[s] = "running" /\ Steps(s)[at[s]] = "close"
  /\ closed' = closed \cup {s}
  /\ task' = [task EXCEPT ![s] = "done"]
  /\ UNCHANGED <<host, stream, fabric, at, fut, entryVars, userVars>>

HandshakeStep(s) ==
  \/ SockSend(s) \/ SockRecv(s) \/ RecvAddr(s) \/ InitComm(s) \/ Internal(s)
  \/ FiSend(s) \/ FiRecv(s) \/ BecomeReady(s) \/ CloseSocket(s)

-----------------------------------------------------------------------------
(* The threads of the application.                                         *)

Goto(t, l) == pc' = [pc EXCEPT ![t] = l]
Lock(t) == readers' = readers \cup {t}
Unlock(t) == readers' = readers \ {t}

\* The thread waits, inside get_comm_internal, for the connection to come up.
WaitingPcs == {"extract", "await", "resolved", "check", "drowsy", "asleep", "woken"}

Busy(s, t) == \E u \in Users \ {t} : Side[u] = s /\ pc[u] # "idle"
Closing(s) == \E u \in Users : Side[u] = s /\ pc[u] # "idle" /\ op[u] = "close"

\* A call that uses the connection.
BeginUse(t) ==
  LET s == Side[t]
  IN  /\ pc[t] = "idle" /\ task[s] # "none"
      /\ early' = IF task[s] = "failed" /\ Closing(s) THEN early \cup {s} ELSE early
      /\ op' = [op EXCEPT ![t] = "use"]
      /\ Goto(t, "lookup")
      /\ UNCHANGED <<host, hsVars, fut, entryVars, readers>>

\* The connection has come up and no thread of its side is still waiting for it,
\* or it has failed and no other thread uses it.
Settled(s, t) ==
  \/ task[s] = "done" /\ \A u \in Users : Side[u] = s => pc[u] \notin WaitingPcs
  \/ task[s] = "failed" /\ ~Busy(s, t)

\* lfi_client_close: nothing keeps the application from closing a connection that
\* is still coming up or that other threads wait for.
BeginClose(t) ==
  LET s == Side[t]
  IN  /\ pc[t] = "idle" /\ task[s] # "none"
      /\ early' = IF Settled(s, t) THEN early ELSE early \cup {s}
      /\ op' = [op EXCEPT ![t] = "close"]
      /\ Goto(t, "lookup")
      /\ UNCHANGED <<host, hsVars, fut, entryVars, readers>>

\* The lookup ends with this result: the caller goes on with the communicator,
\* under the shared lock, or returns -LFI_COMM_NOT_FOUND.
Return(t, status) ==
  IF status \in {"reserved", "absent"}
  THEN Goto(t, "idle") /\ Unlock(t) ELSE Goto(t, "using") /\ Lock(t)

\* Mutant: a communicator is returned as soon as it exists.
LookupAnyStatus(t) ==
  LET status == comm[Side[t]]
  IN  /\ pc[t] = "lookup"
      /\ IF status \in Statuses \cup {"absent"} THEN Return(t, status)
         ELSE Goto(t, "extract") /\ Lock(t)
      /\ UNCHANGED <<host, hsVars, fut, entryVars, op, early>>

\* Under the shared lock: no entry, a usable entry, or one to wait for.
Lookup(t) ==
  LET status == comm[Side[t]]
  IN  /\ pc[t] = "lookup"
      /\ IF status \in Ready \cup {"absent"} THEN Return(t, status)
         ELSE Goto(t, "extract") /\ Lock(t)
      /\ UNCHANGED <<host, hsVars, fut, entryVars, op, early>>

\* The first to come takes the future and releases the lock to wait for it.
Extract(t) ==
  /\ pc[t] = "extract"
  /\ IF fut[Side[t]] = "stored"
     THEN fut' = [fut EXCEPT ![Side[t]] = "taken"] /\ Goto(t, "await") /\ Unlock(t)
     ELSE Goto(t, "check") /\ UNCHANGED <<fut, readers>>
  /\ UNCHANGED <<host, hsVars, entryVars, op, early>>

\* The others evaluate the predicate of m_fut_wait_cv, the shared lock held ...
Check(t) ==
  /\ pc[t] = "check"
  /\ IF comm[Side[t]] = "READY" THEN Return(t, "READY")
     ELSE Goto(t, "drowsy") /\ UNCHANGED readers
  /\ UNCHANGED <<host, hsVars, fut, entryVars, op, early>>

\* ... and release the lock to sleep, a step later.
Sleep(t) ==
  /\ pc[t] = "drowsy"
  /\ Goto(t, "asleep")
  /\ Unlock(t)
  /\ UNCHANGED <<host, hsVars, fut, entryVars, op, early>>

WakeUp(t) ==
  /\ pc[t] = "woken"
  /\ Goto(t, "check")
  /\ Lock(t)
  /\ UNCHANGED <<host, hsVars, fut, entryVars, op, early>>

\* The condition variable is one for all communicators: the end of another
\* connection wakes the thread up as well, and so may nothing at all.
Disturb(t) ==
  /\ pc[t] = "asleep"
  /\ Goto(t, "woken")
  /\ UNCHANGED <<host, hsVars, fut, entryVars, readers, op, early>>

\* The handshake is over, well or not: take the lock again ...
Await(t) ==
  /\ pc[t] = "await"
  /\ task[Side[t]] \in {"done", "failed"}
  /\ Goto(t, "resolved")
  /\ Lock(t)
  /\ UNCHANGED <<host, hsVars, fut, entryVars, op, early>>

\* ... wake the others, and return what is in the entry now.
NotifyAll(t) ==
  LET status == comm[Side[t]]
      Woken(u) == Side[u] = Side[t] /\ pc[u] = "asleep"
      null == status \in {"reserved", "absent"}
  IN  /\ pc[t] = "resolved"
      /\ pc' = [u \in Users |-> IF u = t THEN IF null THEN "idle" ELSE "using"
                                ELSE IF Woken(u) THEN "woken" ELSE pc[u]]
      /\ IF null THEN Unlock(t) ELSE UNCHANGED readers
      /\ UNCHANGED <<host, hsVars, fut, entryVars, op, early>>

\* The caller posts its operation and drops the lock; close_comm removes the
\* address and drops the lock before it erases the entry.
Release(t) ==
  /\ pc[t] = "using"
  /\ Goto(t, IF op[t] = "close" THEN "erase" ELSE "idle")
  /\ fi_addr' = IF op[t] = "close" THEN [fi_addr EXCEPT ![Side[t]] = NoAddr] ELSE fi_addr
  /\ Unlock(t)
  /\ UNCHANGED <<host, hsVars, fut, comm, endpoint, peer_id, rank_self_in_peer, heartbeat,
                 uninserted, op, early>>

\* Mutant: the entry is erased without the exclusive lock.
EraseUnlocked(t) ==
  /\ pc[t] = "erase"
  /\ comm' = [comm EXCEPT ![Side[t]] = "absent"]
  /\ Goto(t, "idle")
  /\ UNCHANGED <<host, hsVars, fut, endpoint, peer_id, rank_self_in_peer, fi_addr,
                 heartbeat, uninserted, readers, op, early>>

Erase(t) ==
  /\ pc[t] = "erase"
  /\ NoReader(Side[t])
  /\ comm' = [comm EXCEPT ![Side[t]] = "absent"]
  /\ Goto(t, "idle")
  /\ UNCHANGED <<host, hsVars, fut, endpoint, peer_id, rank_self_in_peer, fi_addr,
                 heartbeat, uninserted, readers, op, early>>

UserStep(t) ==
  \/ Lookup(t) \/ Extract(t) \/ Check(t) \/ Sleep(t) \/ WakeUp(t) \/ Await(t)
  \/ NotifyAll(t) \/ Release(t) \/ Erase(t)

Next ==
  \/ \E s \in Sides : Create(s) \/ HandshakeStep(s) \/ SockBroken(s) \/ Fault(s)
  \/ \E t \in Users : BeginUse(t) \/ BeginClose(t) \/ Disturb(t) \/ UserStep(t)

Spec == Init /\ [][Next]_vars

(* Fairness: both processes call create or accept, their threads run (SF    *)
(* where they compete for m_comms_mutex), nobody has to use the connection.  *)
Fairness ==
  /\ \A s \in Sides : WF_vars(Create(s)) /\ SF_vars(HandshakeStep(s))
  /\ \A t \in Users : SF_vars(UserStep(t))

FairSpec == Spec /\ Fairness

-----------------------------------------------------------------------------
(* Properties.                                                             *)

\* Each read of the handshake finds the message it is meant for at the head of
\* the stream: init_server and init_client agree on the order, heartbeats or not.
FramesMatch ==
  \A s \in Sides : stream[s] # <<>> =>
    LET kind == Head(stream[s]).kind
    IN  /\ AtStep(s, DOMAIN Recvs) => kind = Recvs[Steps(s)[at[s]]]
        /\ AtStep(s, {"recv_addr"}) => kind = "addr"

\* A communicator that may be used knows its rank in the peer's table and the
\* peer's address on the same kind of endpoint as its own, in shared memory only
\* on one host; one that is READY knows the peer's heartbeat as well.  The
\* address is missing only where fi_av_insert has inserted none, which
\* register_addr reports as 0 and its callers take for success, and while a
\* close removes it.
AgreeWhenReady ==
  \A s \in Sides : comm[s] \in Ready =>
    /\ rank_self_in_peer[s] = Rank[Other(s)]
    /\ \/ fi_addr[s] = <<Other(s), endpoint[s]>>
       \/ s \in uninserted
       \/ \E t \in Users : Side[t] = s /\ pc[t] = "erase"
    /\ endpoint[s] = "shm" => host["server"] = host["client"]
    /\ FT /\ comm[s] = "READY" => heartbeat[s]

\* A lookup hands out a communicator only when it may be used, unless the
\* handshake has failed: the thread that waited for the future does not look
\* at what it says.
UsableOnReturn ==
  \A t \in Users : pc[t] = "using" =>
    comm[Side[t]] \in Ready \/ task[Side[t]] = "failed"

\* An entry is never erased under a thread that uses it, whoever closes the
\* connection and when (close_comm takes the exclusive lock).  Nor is it erased
\* under a thread that waits for it or sets it up, unless the application has
\* closed the connection early: get_comm_internal and the handshake keep their
\* pointers to the entry without the lock.
CommOutlivesUse ==
  \A s \in Sides : comm[s] = "absent" =>
    /\ \A t \in Users : Side[t] = s => pc[t] # "using"
    /\ s \notin early =>
         task[s] # "running" /\ \A t \in Users : Side[t] = s => pc[t] \notin WaitingPcs

\* If neither side fails, and neither closes the connection early, both handshakes
\* end and the thread that waits for the future returns.
ConnectionComesUp ==
  []((\A s \in Sides : task[s] # "failed") /\ early = {}) =>
    /\ \A s \in Sides : task[s] = "running" ~> task[s] = "done"
    /\ \A t \in Users : pc[t] = "await" ~> pc[t] = "using"

\* "Wait the fut, next wake up the other threads": every lookup returns, at least
\* when neither side fails.  The code does not guarantee it, no run assumes it, and
\* README.md says how it fails.
LookupReturns ==
  []((\A s \in Sides : task[s] # "failed") /\ early = {}) =>
    \A t \in Users : pc[t] = "lookup" ~> pc[t] \in {"idle", "using"}
=============================================================================
