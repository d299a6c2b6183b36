-------------------------- MODULE Connection_proofs --------------------------
(***************************************************************************)
(* Proofs about the handshake and the table of communicators (module        *)
(* Connection) for any number of application threads on either side, any    *)
(* hosts, with and without shared memory, heartbeats and faults.            *)
(***************************************************************************)
EXTENDS Connection, TLAPS

-----------------------------------------------------------------------------
(* The inductive invariant.                                                *)

\* The position of the step "close", and what a side has sent and received
\* when it is at position a.
Last == IF FT THEN 14 ELSE 12
Sent(s, a) ==
  IF s = "server"
  THEN IF a >= 10 /\ FT THEN 4 ELSE IF a >= 8 THEN 3 ELSE IF a >= 6 THEN 2
       ELSE IF a >= 2 THEN 1 ELSE 0
  ELSE IF a >= 11 /\ FT THEN 4 ELSE IF a >= 7 THEN 3 ELSE IF a >= 5 THEN 2
       ELSE IF a >= 3 THEN 1 ELSE 0
Recvd(s, a) ==
  IF s = "server"
  THEN IF a >= 11 /\ FT THEN 4 ELSE IF a >= 7 THEN 3 ELSE IF a >= 5 THEN 2
       ELSE IF a >= 3 THEN 1 ELSE 0
  ELSE IF a >= 10 /\ FT THEN 4 ELSE IF a >= 8 THEN 3 ELSE IF a >= 6 THEN 2
       ELSE IF a >= 2 THEN 1 ELSE 0

\* The n-th message of side s, on host h and with endpoint e: the order is that
\* of both sides.
Kind(n) == IF n = 1 THEN "id" ELSE IF n = 2 THEN "rank" ELSE IF n = 3 THEN "addr" ELSE "heartbeat"
Message(s, h, e, n) ==
  [kind |-> Kind(n), val |-> IF n = 1 THEN h ELSE IF n = 2 THEN Rank[s]
                             ELSE IF n = 3 THEN <<s, e>> ELSE TRUE]

Messages ==
  [kind : {"id"}, val : Hosts] \cup [kind : {"rank"}, val : Nat] \cup [kind : {"heartbeat"}, val : {TRUE}]
  \cup [kind : {"addr"}, val : Sides \X {Unknown, "shm", "peer"}]

UserPcs == {"idle", "lookup", "using", "erase"} \cup WaitingPcs
HoldingPcs == {"extract", "check", "drowsy", "resolved", "using"}

TypeOK ==
  /\ host \in [Sides -> Hosts]
  /\ stream \in [Sides -> Seq(Messages)] /\ endpoint \in [Sides -> {Unknown, "shm", "peer"}]
  /\ peer_id = [s \in Sides |-> peer_id[s]] /\ fi_addr = [s \in Sides |-> fi_addr[s]]
  /\ rank_self_in_peer = [s \in Sides |-> rank_self_in_peer[s]]
  /\ heartbeat = [s \in Sides |-> heartbeat[s]]
  /\ closed \subseteq Sides /\ fabric \subseteq Sides
  /\ at \in [Sides -> 1..Last]
  /\ task \in [Sides -> {"none", "running", "done", "failed"}]
  /\ fut \in [Sides -> {"none", "stored", "taken"}]
  /\ comm \in [Sides -> {"absent", "reserved"} \cup Statuses]
  /\ readers \subseteq Users
  /\ pc \in [Users -> UserPcs] /\ op \in [Users -> {"use", "close"}]
  /\ uninserted \subseteq Sides /\ early \subseteq Sides

\* The status of an entry that has not been erased says how far the handshake is.
StatusAt(a) ==
  IF a <= 3 THEN "reserved" ELSE IF a <= 8 THEN "NOT_READY"
  ELSE IF a < Last THEN "READY_INTERNAL" ELSE "READY"
HandshakeExact ==
  \A s \in Sides :
    /\ task[s] = "none" => comm[s] = "absent" /\ at[s] = 1
    /\ comm[s] # "absent" => comm[s] = StatusAt(at[s])
    /\ task[s] = "done" => at[s] = Last

\* A stream holds, in order, what the peer has sent and this side has not read.
StreamExact ==
  \A s \in Sides : task[s] # "failed" =>
    /\ Len(stream[s]) = Sent(Other(s), at[Other(s)]) - Recvd(s, at[s])
    /\ \A k \in 1..Len(stream[s]) :
         stream[s][k] = Message(Other(s), host[Other(s)], endpoint[Other(s)], Recvd(s, at[s]) + k)

\* What has been read has been stored, and the endpoint was chosen by the hosts.
LearntExact ==
  \A s \in Sides :
    /\ Recvd(s, at[s]) >= 1 => peer_id[s] = host[Other(s)]
    /\ Recvd(s, at[s]) >= 2 => rank_self_in_peer[s] = Rank[Other(s)]
    /\ Recvd(s, at[s]) >= 4 => heartbeat[s]
    /\ at[s] >= 4 =>
         endpoint[s] = IF UseShm /\ host["server"] = host["client"] THEN "shm" ELSE "peer"

\* The peer's address is registered from its arrival until the entry is closed,
\* unless it has not been inserted.
AddrExact ==
  \A s \in Sides :
    \/ Recvd(s, at[s]) < 3
    \/ task[s] = "failed" /\ comm[s] = "NOT_READY"
    \/ comm[s] = "absent"
    \/ fi_addr[s] = <<Other(s), endpoint[s]>>
    \/ s \in uninserted
    \/ \E t \in Users : Side[t] = s /\ pc[t] = "erase"

\* The shared lock, and where a thread of each kind can be.
UsersExact ==
  /\ readers = {t \in Users : pc[t] \in HoldingPcs}
  /\ \A t \in Users :
       /\ task[Side[t]] = "none" => pc[t] = "idle"
       /\ pc[t] = "resolved" => task[Side[t]] \in {"done", "failed"}
       /\ pc[t] = "erase" => op[t] = "close"

\* Where the application has not closed early, a thread that closes still finds
\* the connection settled.
CloseExact ==
  /\ CommOutlivesUse
  /\ \A t \in Users : pc[t] # "idle" /\ op[t] = "close" /\ Side[t] \notin early =>
       Settled(Side[t], t)

IInv ==
  /\ TypeOK /\ HandshakeExact /\ StreamExact /\ LearntExact /\ AddrExact
  /\ UsersExact /\ UsableOnReturn /\ CloseExact

-----------------------------------------------------------------------------
(* The two orders of steps.                                                *)

\* The step at each position, with and without the heartbeats.
LEMMA ServerStepsTable ==
  /\ FT =>
       /\ ServerSteps[1] = "send_id" /\ ServerSteps[2] = "recv_id" /\ ServerSteps[3] = "init_comm"
       /\ ServerSteps[4] = "recv_rank" /\ ServerSteps[5] = "send_rank" /\ ServerSteps[6] = "recv_addr"
       /\ ServerSteps[7] = "send_addr" /\ ServerSteps[8] = "internal" /\ ServerSteps[9] = "send_heartbeat"
       /\ ServerSteps[10] = "recv_heartbeat" /\ ServerSteps[11] = "fi_send" /\ ServerSteps[12] = "fi_recv"
       /\ ServerSteps[13] = "ready" /\ ServerSteps[14] = "close"
  /\ ~FT =>
       /\ ServerSteps[1] = "send_id" /\ ServerSteps[2] = "recv_id" /\ ServerSteps[3] = "init_comm"
       /\ ServerSteps[4] = "recv_rank" /\ ServerSteps[5] = "send_rank" /\ ServerSteps[6] = "recv_addr"
       /\ ServerSteps[7] = "send_addr" /\ ServerSteps[8] = "internal" /\ ServerSteps[9] = "fi_send"
       /\ ServerSteps[10] = "fi_recv" /\ ServerSteps[11] = "ready" /\ ServerSteps[12] = "close"
<1>1. CASE FT
  BY <1>1 DEF ServerSteps, HeartbeatIf
<1>2. CASE ~FT
  BY <1>2 DEF ServerSteps, HeartbeatIf
<1> QED BY <1>1, <1>2

LEMMA ClientStepsTable ==
  /\ FT =>
       /\ ClientSteps[1] = "recv_id" /\ ClientSteps[2] = "send_id" /\ ClientSteps[3] = "init_comm"
       /\ ClientSteps[4] = "send_rank" /\ ClientSteps[5] = "recv_rank" /\ ClientSteps[6] = "send_addr"
       /\ ClientSteps[7] = "recv_addr" /\ ClientSteps[8] = "internal" /\ ClientSteps[9] = "recv_heartbeat"
       /\ ClientSteps[10] = "send_heartbeat" /\ ClientSteps[11] = "fi_recv" /\ ClientSteps[12] = "fi_send"
       /\ ClientSteps[13] = "ready" /\ ClientSteps[14] = "close"
  /\ ~FT =>
       /\ ClientSteps[1] = "recv_id" /\ ClientSteps[2] = "send_id" /\ ClientSteps[3] = "init_comm"
       /\ ClientSteps[4] = "send_rank" /\ ClientSteps[5] = "recv_rank" /\ ClientSteps[6] = "send_addr"
       /\ ClientSteps[7] = "recv_addr" /\ ClientSteps[8] = "internal" /\ ClientSteps[9] = "fi_recv"
       /\ ClientSteps[10] = "fi_send" /\ ClientSteps[11] = "ready" /\ ClientSteps[12] = "close"
<1>1. CASE FT
  BY <1>1 DEF ClientSteps, HeartbeatIf
<1>2. CASE ~FT
  BY <1>2 DEF ClientSteps, HeartbeatIf
<1> QED BY <1>1, <1>2

\* What the kind of a step says about the position and the counts of messages.
LEMMA Positions ==
  ASSUME NEW s \in Sides, NEW a \in 1..Last
  PROVE  /\ Steps(s)[a] = "close" <=> a = Last
         /\ Steps(s)[a] = "init_comm" => a = 3
         /\ Steps(s)[a] = "internal" => a = 8
         /\ Steps(s)[a] = "ready" => a = Last - 1
         /\ Steps(s)[a] \in {"fi_send", "fi_recv"} => a > 8 /\ a < Last - 1
         /\ Steps(s)[a] \in DOMAIN Sends =>
              /\ a < Last - 1 /\ a # 3 /\ a # 8
              /\ Sent(s, a + 1) = Sent(s, a) + 1 /\ Recvd(s, a + 1) = Recvd(s, a)
              /\ Sends[Steps(s)[a]] = Kind(Sent(s, a) + 1)
         /\ Steps(s)[a] \in DOMAIN Recvs =>
              /\ a < Last - 1 /\ a # 3 /\ a # 8
              /\ Sent(s, a + 1) = Sent(s, a) /\ Recvd(s, a + 1) = Recvd(s, a) + 1
              /\ Recvs[Steps(s)[a]] = Kind(Recvd(s, a) + 1)
              /\ Recvd(s, a) # 2
         /\ Steps(s)[a] = "recv_addr" =>
              /\ a < 8 /\ a > 3
              /\ Sent(s, a + 1) = Sent(s, a) /\ Recvd(s, a) = 2 /\ Recvd(s, a + 1) = 3
         /\ Steps(s)[a] \in {"init_comm", "internal", "fi_send", "fi_recv", "ready"} =>
              Sent(s, a + 1) = Sent(s, a) /\ Recvd(s, a + 1) = Recvd(s, a)
         /\ Sent(s, a) \in 0..4 /\ Recvd(s, a) \in 0..4
         /\ a = 3 => Sent(s, a) = 1 /\ Recvd(s, a) = 1
         /\ a <= 3 => Recvd(s, a) <= 1
         /\ Sent(s, a) >= 3 => a >= 4
         /\ a >= 8 => Recvd(s, a) >= 3
         /\ FT /\ a = Last => Recvd(s, a) = 4
<1> USE DEF Sends, Recvs, Kind, Sent, Recvd, Last, Steps, Sides
<1>1. CASE FT /\ s = "server"
  BY <1>1, ServerStepsTable
<1>2. CASE FT /\ s = "client"
  BY <1>2, ClientStepsTable
<1>3. CASE ~FT /\ s = "server"
  BY <1>3, ServerStepsTable
<1>4. CASE ~FT /\ s = "client"
  BY <1>4, ClientStepsTable
<1> QED BY <1>1, <1>2, <1>3, <1>4

\* A step that neither sends nor receives, and changes no message under way,
\* keeps the streams exact.
LEMMA StreamSame ==
  ASSUME StreamExact, stream' = stream, host' = host,
         \A x \in Sides : /\ Sent(x, at'[x]) = Sent(x, at[x]) /\ Recvd(x, at'[x]) = Recvd(x, at[x])
                          /\ Sent(x, at[x]) \in 0..4 /\ Recvd(x, at[x]) \in 0..4
                          /\ task'[x] # "failed" => task[x] # "failed"
                          /\ Sent(x, at[x]) >= 3 => endpoint'[x] = endpoint[x]
  PROVE  StreamExact'
<1> SUFFICES ASSUME NEW s \in Sides, task'[s] # "failed"
             PROVE  /\ Len(stream[s]) = Sent(Other(s), at'[Other(s)]) - Recvd(s, at'[s])
                    /\ \A k \in 1..Len(stream[s]) : stream[s][k] =
                         Message(Other(s), host[Other(s)], endpoint'[Other(s)], Recvd(s, at'[s]) + k)
  BY DEF StreamExact
<1>1. Other(s) \in Sides
  BY DEF Other, Sides
<1>2. /\ Len(stream[s]) = Sent(Other(s), at[Other(s)]) - Recvd(s, at[s])
      /\ \A k \in 1..Len(stream[s]) : stream[s][k] =
           Message(Other(s), host[Other(s)], endpoint[Other(s)], Recvd(s, at[s]) + k)
  BY DEF StreamExact
<1>3. ASSUME NEW k \in 1..Len(stream[s])
      PROVE  Recvd(s, at[s]) + k \in 1..4 /\ Recvd(s, at[s]) + k <= Sent(Other(s), at[Other(s)])
  BY <1>1, <1>2
<1>4. ASSUME NEW k \in 1..4, k <= Sent(Other(s), at[Other(s)])
      PROVE  Message(Other(s), host[Other(s)], endpoint'[Other(s)], k) =
               Message(Other(s), host[Other(s)], endpoint[Other(s)], k)
  BY <1>1, <1>4 DEF Message
<1> QED BY <1>1, <1>2, <1>3, <1>4

\* The threads of the application leave the handshake alone.
LEMMA HandshakeKept ==
  ASSUME IInv, UNCHANGED <<host, stream, at, task, endpoint, peer_id, rank_self_in_peer, heartbeat>>
  PROVE  StreamExact' /\ LearntExact'
<1>1. StreamExact'
  <2>1. \A x \in Sides : Sent(x, at[x]) \in 0..4 /\ Recvd(x, at[x]) \in 0..4
    BY Positions DEF IInv, TypeOK
  <2> QED BY <2>1, StreamSame DEF IInv, TypeOK
<1>2. LearntExact'
  BY DEF IInv, LearntExact
<1> QED BY <1>1, <1>2

LEMMA InitIInv == Init => IInv
<1> SUFFICES ASSUME Init PROVE IInv
  OBVIOUS
<1>1. TypeOK
  BY ConnectionAssumption DEF Init, TypeOK, Last, UserPcs, Sides, NoAddr
<1>2. \A s \in Sides : Sent(s, 1) = 0 /\ Recvd(s, 1) = 0 /\ Other(s) \in Sides
  BY DEF Sent, Recvd, Sides, Other
<1> QED BY <1>1, <1>2, ConnectionAssumption DEF Init, IInv, HandshakeExact, StreamExact, LearntExact,
     AddrExact, UsersExact, UsableOnReturn, CloseExact, CommOutlivesUse, HoldingPcs, WaitingPcs,
     Last

\* Every action keeps the invariant.
LEMMA StepIInv == IInv /\ [Next]_vars => IInv'
<1> SUFFICES ASSUME IInv, [Next]_vars PROVE IInv'
  OBVIOUS
<1>0. /\ Side \in [Users -> Sides] /\ Rank \in [Sides -> Nat]
      /\ \A s \in Sides : Other(s) \in Sides /\ Other(s) # s /\ Other(Other(s)) = s
      /\ \A s \in Sides : at[s] \in 1..Last
      /\ Last \in {12, 14}
  BY ConnectionAssumption DEF Other, Sides, IInv, TypeOK, Last
<1>a. \A s \in Sides : Sent(s, at[s]) \in 0..4 /\ Recvd(s, at[s]) \in 0..4
  BY <1>0, Positions
<1>1. ASSUME NEW s \in Sides, Create(s) PROVE IInv'
  <2>a. at[s] = 1 /\ Recvd(s, at[s]) < 3
    BY <1>0, <1>1, Positions DEF Create, IInv, HandshakeExact
  <2>1. TypeOK'
    BY <1>0, <1>1, <2>a DEF IInv, TypeOK, UserPcs, WaitingPcs, Statuses, Ready, Create, userVars
  <2>2. HandshakeExact'
    BY <1>0, <1>1, <2>a DEF IInv, TypeOK, HandshakeExact, StatusAt, Create, userVars
  <2>3. StreamExact'
    BY <1>0, <1>a, <1>1, StreamSame DEF IInv, TypeOK, Create
  <2>4. LearntExact'
    BY <1>0, <1>1, <2>a DEF IInv, TypeOK, LearntExact, Create, userVars
  <2>5. AddrExact'
    BY <1>0, <1>1, <2>a DEF IInv, TypeOK, AddrExact, Create, userVars
  <2>6. UsersExact'
    BY <1>0, <1>1, <2>a DEF IInv, TypeOK, UsersExact, HoldingPcs, Create, userVars
  <2>7. UsableOnReturn'
    BY <1>0, <1>1, <2>a DEF IInv, TypeOK, UsableOnReturn, UsersExact, HoldingPcs, Create, userVars
  <2>8. CloseExact'
    BY <1>0, <1>1, <2>a DEF IInv, TypeOK, CloseExact, CommOutlivesUse, Settled, Busy, WaitingPcs, Create, userVars, UsersExact
  <2> QED BY <2>1, <2>2, <2>3, <2>4, <2>5, <2>6, <2>7, <2>8 DEF IInv
<1>2. ASSUME NEW s \in Sides, SockSend(s) PROVE IInv'
  <2>a. /\ at[s] \in 1..Last /\ at[s] < Last - 1 /\ at[s] # 3 /\ at[s] # 8
        /\ task[s] = "running" /\ comm[s] # "absent"
        /\ at' = [at EXCEPT ![s] = at[s] + 1]
        /\ Sent(s, at[s] + 1) = Sent(s, at[s]) + 1 /\ Recvd(s, at[s] + 1) = Recvd(s, at[s])
    BY <1>0, <1>2, Positions DEF SockSend, AtStep, Advance
  <2>b. Sent(s, at[s]) + 1 \in 1..4 /\ Steps(s)[at[s]] \in DOMAIN Sends
        /\ Sends[Steps(s)[at[s]]] = Kind(Sent(s, at[s]) + 1)
    <3>1. at[s] + 1 \in 1..Last /\ Steps(s)[at[s]] \in DOMAIN Sends
      BY <1>0, <2>a, <1>2 DEF SockSend, AtStep
    <3> QED BY <1>0, <1>a, <2>a, <3>1, Positions
  <2>c. [kind |-> Kind(Sent(s, at[s]) + 1), val |-> Value(s, Kind(Sent(s, at[s]) + 1))] =
          Message(s, host[s], endpoint[s], Sent(s, at[s]) + 1)
    BY <2>b DEF Message, Kind, Value
  <2>d. stream' = [stream EXCEPT ![Other(s)] =
                     Append(stream[Other(s)], Message(s, host[s], endpoint[s], Sent(s, at[s]) + 1))]
    BY <2>b, <2>c, <1>2 DEF SockSend
  <2>e. Message(s, host[s], endpoint[s], Sent(s, at[s]) + 1) \in Messages
    BY <1>0, <2>b DEF IInv, TypeOK, Message, Messages, Kind
  <2>1. TypeOK'
    <3>3. stream' \in [Sides -> Seq(Messages)]
      BY <1>0, <2>d, <2>e DEF IInv, TypeOK
    <3>4. at' \in [Sides -> 1..Last]
      BY <1>0, <2>a DEF IInv, TypeOK
    <3>5. UNCHANGED <<host, closed, fabric, task, fut, entryVars, userVars>>
      BY <1>2 DEF SockSend
    <3> QED BY <3>3, <3>4, <3>5 DEF IInv, TypeOK, entryVars, userVars
  <2>2. HandshakeExact'
    <3>1. comm' = comm /\ task' = task /\ StatusAt(at[s] + 1) = StatusAt(at[s])
      BY <1>0, <1>2, <2>a DEF StatusAt, SockSend, entryVars
    <3> QED BY <1>0, <2>a, <3>1 DEF IInv, TypeOK, HandshakeExact
  <2>3. StreamExact'
    <3>2. host' = host /\ endpoint' = endpoint /\ task' = task /\ DOMAIN stream = Sides
          /\ \A x \in Sides : stream[x] \in Seq(Messages)
      BY <1>2 DEF SockSend, entryVars, IInv, TypeOK
    <3>3. ASSUME NEW x \in Sides, task[x] # "failed"
          PROVE  /\ Len(stream'[x]) = Sent(Other(x), at'[Other(x)]) - Recvd(x, at'[x])
                 /\ \A k \in 1..Len(stream'[x]) : stream'[x][k] =
                      Message(Other(x), host[Other(x)], endpoint[Other(x)], Recvd(x, at'[x]) + k)
      <4>1. /\ Len(stream[x]) = Sent(Other(x), at[Other(x)]) - Recvd(x, at[x])
            /\ \A k \in 1..Len(stream[x]) : stream[x][k] =
                 Message(Other(x), host[Other(x)], endpoint[Other(x)], Recvd(x, at[x]) + k)
        BY <3>3 DEF IInv, StreamExact
      <4>2. CASE x = s
        <5>1. stream'[x] = stream[x] /\ Recvd(x, at'[x]) = Recvd(x, at[x]) /\ at'[Other(x)] = at[Other(x)]
          BY <1>0, <2>a, <2>d, <3>2, <4>2 DEF IInv, TypeOK
        <5> QED BY <4>1, <5>1
      <4>3. CASE x # s
        <5>1. x = Other(s) /\ Other(x) = s
          BY <1>0, <4>3 DEF Sides, Other
        <5>2. /\ stream'[x] = Append(stream[x], Message(s, host[s], endpoint[s], Sent(s, at[s]) + 1))
              /\ at'[x] = at[x] /\ at'[s] = at[s] + 1
          BY <1>0, <2>a, <2>d, <3>2, <4>3, <5>1 DEF IInv, TypeOK
        <5>4. /\ Len(stream'[x]) = Len(stream[x]) + 1 /\ Len(stream[x]) \in Nat
              /\ \A k \in 1..Len(stream[x]) : stream'[x][k] = stream[x][k]
              /\ stream'[x][Len(stream[x]) + 1] = Message(s, host[s], endpoint[s], Sent(s, at[s]) + 1)
          BY <3>2, <5>2, <2>e
        <5>5. Sent(s, at'[s]) = Sent(s, at[s]) + 1 /\ Recvd(x, at'[x]) = Recvd(x, at[x])
          BY <2>a, <5>2
        <5>6. ASSUME NEW k \in 1..Len(stream'[x])
              PROVE  stream'[x][k] = Message(s, host[s], endpoint[s], Recvd(x, at[x]) + k)
          <6>1. CASE k \in 1..Len(stream[x])
            BY <4>1, <5>1, <5>4, <6>1
          <6>2. CASE k = Len(stream[x]) + 1
            <7>0. Sent(s, at[s]) \in Int /\ Recvd(x, at[x]) \in Int
              BY <1>a
            <7>1. Recvd(x, at[x]) + k = Sent(s, at[s]) + 1
              BY <7>0, <4>1, <5>1, <6>2
            <7> QED BY <5>4, <6>2, <7>1
          <6> QED BY <5>4, <6>1, <6>2
        <5>7. Sent(s, at[s]) \in Int /\ Recvd(x, at[x]) \in Int
          BY <1>a
        <5>8. Len(stream'[x]) = Sent(Other(x), at'[Other(x)]) - Recvd(x, at'[x])
          BY <4>1, <5>1, <5>4, <5>5, <5>7
        <5> QED BY <5>1, <5>5, <5>6, <5>8
      <4> QED BY <4>2, <4>3
    <3> QED BY <3>2, <3>3 DEF StreamExact
  <2>4. LearntExact'
    <3>1. UNCHANGED <<host, peer_id, rank_self_in_peer, heartbeat, endpoint>>
      BY <1>2 DEF SockSend, entryVars
    <3>2. ASSUME NEW x \in Sides
          PROVE  Recvd(x, at'[x]) = Recvd(x, at[x]) /\ (at'[x] >= 4 => at[x] >= 4)
      <4>1. CASE x = s
        BY <1>0, <2>a, <4>1 DEF IInv, TypeOK
      <4>2. CASE x # s
        BY <1>0, <2>a, <4>2 DEF IInv, TypeOK
      <4> QED BY <4>1, <4>2
    <3> QED BY <1>0, <3>1, <3>2 DEF IInv, LearntExact
  <2>5. AddrExact'
    <3>1. UNCHANGED <<host, fi_addr, comm, endpoint, task, pc, uninserted>>
      BY <1>2 DEF SockSend, entryVars, userVars
    <3>2. ASSUME NEW x \in Sides PROVE Recvd(x, at'[x]) = Recvd(x, at[x])
      <4>1. CASE x = s
        BY <1>0, <2>a, <4>1 DEF IInv, TypeOK
      <4>2. CASE x # s
        BY <1>0, <2>a, <4>2 DEF IInv, TypeOK
      <4> QED BY <4>1, <4>2
    <3> QED BY <1>0, <3>1, <3>2 DEF IInv, AddrExact
  <2>6. UsersExact'
    BY <1>0, <1>2, <1>a, <2>a DEF IInv, TypeOK, UsersExact, HoldingPcs, SockSend, userVars, entryVars
  <2>7. UsableOnReturn'
    BY <1>0, <1>2, <1>a, <2>a DEF IInv, TypeOK, UsableOnReturn, UsersExact, HoldingPcs, SockSend, userVars, entryVars, Ready
  <2>8. CloseExact'
    BY <1>0, <1>2, <1>a, <2>a DEF IInv, TypeOK, CloseExact, CommOutlivesUse, Settled, Busy, WaitingPcs, SockSend, userVars, entryVars, HandshakeExact
  <2> QED BY <2>1, <2>2, <2>3, <2>4, <2>5, <2>6, <2>7, <2>8 DEF IInv
<1>3. ASSUME NEW s \in Sides, SockRecv(s) PROVE IInv'
  <2>a. /\ at[s] \in 1..Last /\ at[s] < Last - 1 /\ at[s] # 3 /\ at[s] # 8
        /\ task[s] = "running" /\ comm[s] # "absent"
        /\ at' = [at EXCEPT ![s] = at[s] + 1]
        /\ Sent(s, at[s] + 1) = Sent(s, at[s]) /\ Recvd(s, at[s] + 1) = Recvd(s, at[s]) + 1
        /\ Recvd(s, at[s]) # 2 /\ Recvs[Steps(s)[at[s]]] = Kind(Recvd(s, at[s]) + 1)
    BY <1>0, <1>3, Positions DEF SockRecv, AtStep, Advance
  <2>b. /\ stream[s] \in Seq(Messages) /\ stream[s] # <<>> /\ Len(stream[s]) \in Nat \ {0}
        /\ stream' = [stream EXCEPT ![s] = Tail(stream[s])]
        /\ Head(stream[s]) = stream[s][1] /\ Tail(stream[s]) \in Seq(Messages)
        /\ Len(Tail(stream[s])) = Len(stream[s]) - 1
        /\ \A k \in 1..(Len(stream[s]) - 1) : Tail(stream[s])[k] = stream[s][k + 1]
    <3>1. /\ stream[s] \in Seq(Messages) /\ stream[s] # <<>>
          /\ stream' = [stream EXCEPT ![s] = Tail(stream[s])]
      BY <1>0, <1>3 DEF IInv, TypeOK, SockRecv
    <3> QED BY <3>1
  <2>c. Head(stream[s]) = Message(Other(s), host[Other(s)], endpoint[Other(s)], Recvd(s, at[s]) + 1)
    <3>1. \A k \in 1..Len(stream[s]) :
            stream[s][k] = Message(Other(s), host[Other(s)], endpoint[Other(s)], Recvd(s, at[s]) + k)
      BY <2>a DEF IInv, StreamExact
    <3>2. 1 \in 1..Len(stream[s])
      BY <2>b
    <3> QED BY <2>b, <3>1, <3>2
  <2>d. Recvd(s, at[s]) \in {0, 1, 3}
    BY <1>a, <2>a DEF Recvd
  <2>e. /\ peer_id' = IF Recvd(s, at[s]) = 0 THEN [peer_id EXCEPT ![s] = host[Other(s)]] ELSE peer_id
        /\ rank_self_in_peer' = IF Recvd(s, at[s]) = 1
              THEN [rank_self_in_peer EXCEPT ![s] = Rank[Other(s)]] ELSE rank_self_in_peer
        /\ heartbeat' = IF Recvd(s, at[s]) = 3 THEN [heartbeat EXCEPT ![s] = TRUE] ELSE heartbeat
    <3>1. /\ Kind(Recvd(s, at[s]) + 1) = "id" <=> Recvd(s, at[s]) = 0
          /\ Kind(Recvd(s, at[s]) + 1) = "rank" <=> Recvd(s, at[s]) = 1
          /\ Kind(Recvd(s, at[s]) + 1) = "heartbeat" <=> Recvd(s, at[s]) = 3
      BY <2>d DEF Kind
    <3>a. /\ Recvd(s, at[s]) = 0 => Head(stream[s]).val = host[Other(s)]
          /\ Recvd(s, at[s]) = 1 => Head(stream[s]).val = Rank[Other(s)]
      <4>1. /\ Recvd(s, at[s]) = 0 => Recvd(s, at[s]) + 1 = 1
            /\ Recvd(s, at[s]) = 1 => Recvd(s, at[s]) + 1 = 2
        BY <2>d
      <4>2. \A x, h, e : Message(x, h, e, 1).val = h
        BY Zenon DEF Message
      <4>3. \A x, h, e : Message(x, h, e, 2).val = Rank[x]
        BY DEF Message
      <4> QED BY <2>c, <4>1, <4>2, <4>3
    <3>b. Recvd(s, at[s]) = 3 => Head(stream[s]).val = TRUE
      BY <2>c, <2>d DEF Message
    <3>2. peer_id' = IF Recvd(s, at[s]) = 0 THEN [peer_id EXCEPT ![s] = host[Other(s)]] ELSE peer_id
      BY <1>3, <2>a, <3>1, <3>a DEF SockRecv
    <3>3. rank_self_in_peer' = IF Recvd(s, at[s]) = 1
            THEN [rank_self_in_peer EXCEPT ![s] = Rank[Other(s)]] ELSE rank_self_in_peer
      BY <1>3, <2>a, <2>d, <3>1, <3>a DEF SockRecv
    <3>4. heartbeat' = IF Recvd(s, at[s]) = 3 THEN [heartbeat EXCEPT ![s] = TRUE] ELSE heartbeat
      BY <1>3, <2>a, <2>d, <3>1, <3>b DEF SockRecv
    <3> QED BY <3>2, <3>3, <3>4
  <2>1. TypeOK'
    <3>1. stream' \in [Sides -> Seq(Messages)]
      BY <1>0, <2>b DEF IInv, TypeOK
    <3>2. at' \in [Sides -> 1..Last]
      BY <1>0, <2>a DEF IInv, TypeOK
    <3>3. peer_id' = [x \in Sides |-> peer_id'[x]]
      BY <2>e, <2>d DEF IInv, TypeOK
    <3>4. rank_self_in_peer' = [x \in Sides |-> rank_self_in_peer'[x]]
      BY <2>e, <2>d DEF IInv, TypeOK
    <3>5. heartbeat' = [x \in Sides |-> heartbeat'[x]]
      BY <2>e, <2>d DEF IInv, TypeOK
    <3> QED BY <1>3, <3>1, <3>2, <3>3, <3>4, <3>5 DEF IInv, TypeOK, SockRecv, userVars
  <2>2. HandshakeExact'
    <3>1. comm' = comm /\ task' = task /\ StatusAt(at[s] + 1) = StatusAt(at[s])
      BY <1>0, <1>3, <2>a DEF StatusAt, SockRecv, entryVars
    <3> QED BY <1>0, <2>a, <3>1 DEF IInv, TypeOK, HandshakeExact
  <2>3. StreamExact'
    <3>2. host' = host /\ endpoint' = endpoint /\ DOMAIN stream = Sides
      BY <1>3 DEF SockRecv, IInv, TypeOK
    <3>3. ASSUME NEW x \in Sides, task'[x] # "failed"
          PROVE  /\ Len(stream'[x]) = Sent(Other(x), at'[Other(x)]) - Recvd(x, at'[x])
                 /\ \A k \in 1..Len(stream'[x]) : stream'[x][k] =
                      Message(Other(x), host[Other(x)], endpoint[Other(x)], Recvd(x, at'[x]) + k)
      <4>0. task[x] # "failed"
        BY <2>a, <3>3, <1>3 DEF IInv, TypeOK, SockRecv, Fail
      <4>1. /\ Len(stream[x]) = Sent(Other(x), at[Other(x)]) - Recvd(x, at[x])
            /\ \A k \in 1..Len(stream[x]) : stream[x][k] =
                 Message(Other(x), host[Other(x)], endpoint[Other(x)], Recvd(x, at[x]) + k)
        BY <4>0 DEF IInv, StreamExact
      <4>2. CASE x # s
        <5>1. x = Other(s) /\ Other(x) = s
          BY <1>0, <4>2 DEF Sides, Other
        <5>2. /\ stream'[x] = stream[x] /\ at'[x] = at[x]
              /\ Sent(s, at'[s]) = Sent(s, at[s])
          BY <1>0, <2>a, <2>b, <3>2, <4>2, <5>1 DEF IInv, TypeOK
        <5> QED BY <4>1, <5>1, <5>2
      <4>3. CASE x = s
        <5>1. /\ stream'[x] = Tail(stream[x]) /\ at'[Other(x)] = at[Other(x)]
              /\ Recvd(x, at'[x]) = Recvd(x, at[x]) + 1
          BY <1>0, <2>a, <2>b, <3>2, <3>3, <4>3 DEF IInv, TypeOK
        <5>2. /\ Len(stream'[x]) = Len(stream[x]) - 1
              /\ \A k \in 1..Len(stream'[x]) : stream'[x][k] = stream[x][k + 1]
          BY <2>b, <4>3, <5>1
        <5>3. ASSUME NEW k \in 1..Len(stream'[x])
              PROVE  k + 1 \in 1..Len(stream[x]) /\ Recvd(x, at[x]) + (k + 1) = Recvd(x, at'[x]) + k
          BY <1>a, <2>b, <4>3, <5>1, <5>2
        <5>4. Sent(Other(x), at[Other(x)]) \in Int /\ Recvd(x, at[x]) \in Int
          BY <1>0, <1>a
        <5>5. Len(stream'[x]) = Sent(Other(x), at'[Other(x)]) - Recvd(x, at'[x])
          BY <4>1, <5>1, <5>2, <5>4
        <5>6. ASSUME NEW k \in 1..Len(stream'[x])
              PROVE  stream'[x][k] =
                       Message(Other(x), host[Other(x)], endpoint[Other(x)], Recvd(x, at'[x]) + k)
          BY <4>1, <5>2, <5>3
        <5> QED BY <5>5, <5>6
      <4> QED BY <4>2, <4>3
    <3> QED BY <3>2, <3>3 DEF StreamExact
  <2>4. LearntExact'
    <3>1. \A x \in Sides : x # s =>
            /\ peer_id'[x] = peer_id[x] /\ rank_self_in_peer'[x] = rank_self_in_peer[x]
            /\ heartbeat'[x] = heartbeat[x] /\ at'[x] = at[x]
      BY <2>a, <2>d, <2>e DEF IInv, TypeOK
    <3>2. host' = host /\ endpoint' = endpoint /\ at'[s] = at[s] + 1
      BY <2>a, <1>3 DEF SockRecv, IInv, TypeOK
    <3>3. ASSUME NEW x \in Sides, x # s
          PROVE  /\ Recvd(x, at'[x]) >= 1 => peer_id'[x] = host[Other(x)]
                 /\ Recvd(x, at'[x]) >= 2 => rank_self_in_peer'[x] = Rank[Other(x)]
                 /\ Recvd(x, at'[x]) >= 4 => heartbeat'[x]
                 /\ at'[x] >= 4 => endpoint[x] =
                      IF UseShm /\ host["server"] = host["client"] THEN "shm" ELSE "peer"
      BY <3>1, <3>3 DEF IInv, LearntExact
    <3>4. /\ Recvd(s, at'[s]) >= 1 => peer_id'[s] = host[Other(s)]
          /\ Recvd(s, at'[s]) >= 2 => rank_self_in_peer'[s] = Rank[Other(s)]
          /\ at'[s] >= 4 => endpoint[s] =
               IF UseShm /\ host["server"] = host["client"] THEN "shm" ELSE "peer"
      BY <1>0, <1>a, <2>a, <2>d, <2>e, <3>2 DEF IInv, TypeOK, LearntExact
    <3>5. Recvd(s, at'[s]) >= 4 => heartbeat'[s]
      BY <1>0, <1>a, <2>a, <2>d, <2>e, <3>2 DEF IInv, TypeOK, LearntExact
    <3> QED BY <3>2, <3>3, <3>4, <3>5 DEF LearntExact
  <2>5. AddrExact'
    <3>1. /\ fi_addr' = fi_addr /\ endpoint' = endpoint /\ comm' = comm /\ pc' = pc /\ task' = task /\ uninserted' = uninserted
      BY <1>3 DEF SockRecv, userVars
    <3>2. ASSUME NEW x \in Sides PROVE ~(Recvd(x, at'[x]) < 3) => ~(Recvd(x, at[x]) < 3)
      <4>1. CASE x = s
        BY <1>a, <2>a, <2>d, <4>1 DEF IInv, TypeOK
      <4>2. CASE x # s
        BY <2>a, <4>2 DEF IInv, TypeOK
      <4> QED BY <4>1, <4>2
    <3> QED BY <3>1, <3>2 DEF IInv, AddrExact
  <2>6. UsersExact'
    BY <1>0, <1>3, <1>a, <2>a DEF IInv, TypeOK, UsersExact, HoldingPcs, SockRecv, userVars, entryVars
  <2>7. UsableOnReturn'
    BY <1>0, <1>3, <1>a, <2>a DEF IInv, TypeOK, UsableOnReturn, UsersExact, HoldingPcs, SockRecv, userVars, entryVars, Ready
  <2>8. CloseExact'
    BY <1>0, <1>3, <1>a, <2>a DEF IInv, TypeOK, CloseExact, CommOutlivesUse, Settled, Busy, WaitingPcs, SockRecv, userVars, entryVars, HandshakeExact
  <2> QED BY <2>1, <2>2, <2>3, <2>4, <2>5, <2>6, <2>7, <2>8 DEF IInv
<1>4. ASSUME NEW s \in Sides, RecvAddr(s) PROVE IInv'
  <2>a. /\ at[s] \in 1..Last /\ at[s] > 3 /\ at[s] < 8
        /\ task[s] = "running" /\ comm[s] # "absent"
        /\ \/ at' = [at EXCEPT ![s] = at[s] + 1] /\ task' = task
           \/ at' = at /\ task' = [task EXCEPT ![s] = "failed"]
        /\ Sent(s, at[s] + 1) = Sent(s, at[s]) /\ Recvd(s, at[s]) = 2 /\ Recvd(s, at[s] + 1) = 3
    BY <1>0, <1>4, Positions DEF RecvAddr, AtStep, Advance, Fail
  <2>b. /\ stream[s] \in Seq(Messages) /\ stream[s] # <<>> /\ Len(stream[s]) \in Nat \ {0}
        /\ stream' = [stream EXCEPT ![s] = Tail(stream[s])]
        /\ Head(stream[s]) = stream[s][1] /\ Tail(stream[s]) \in Seq(Messages)
        /\ Len(Tail(stream[s])) = Len(stream[s]) - 1
        /\ \A k \in 1..(Len(stream[s]) - 1) : Tail(stream[s])[k] = stream[s][k + 1]
    <3>1. /\ stream[s] \in Seq(Messages) /\ stream[s] # <<>>
          /\ stream' = [stream EXCEPT ![s] = Tail(stream[s])]
      BY <1>0, <1>4 DEF IInv, TypeOK, RecvAddr
    <3> QED BY <3>1
  <2>c. Head(stream[s]) = Message(Other(s), host[Other(s)], endpoint[Other(s)], Recvd(s, at[s]) + 1)
    <3>1. \A k \in 1..Len(stream[s]) :
            stream[s][k] = Message(Other(s), host[Other(s)], endpoint[Other(s)], Recvd(s, at[s]) + k)
      BY <2>a DEF IInv, StreamExact
    <3>2. 1 \in 1..Len(stream[s])
      BY <2>b
    <3> QED BY <2>b, <3>1, <3>2
  <2>1. TypeOK'
    <3>1. stream' \in [Sides -> Seq(Messages)]
      BY <1>0, <2>b DEF IInv, TypeOK
    <3>2. at' \in [Sides -> 1..Last]
      <4>1. at[s] + 1 \in 1..Last /\ at \in [Sides -> 1..Last]
        BY <1>0, <2>a DEF IInv, TypeOK
      <4> QED BY <2>a, <4>1
    <3>3. task' \in [Sides -> {"none", "running", "done", "failed"}]
      <4>1. task' = task \/ task' = [task EXCEPT ![s] = "failed"]
        BY <2>a
      <4> QED BY <4>1 DEF IInv, TypeOK
    <3>4. fi_addr' = [x \in Sides |-> fi_addr'[x]]
      <4>1. fi_addr' = fi_addr \/ fi_addr' = [fi_addr EXCEPT ![s] = Head(stream[s]).val]
        BY <1>4 DEF RecvAddr
      <4> QED BY <4>1 DEF IInv, TypeOK
    <3>5. closed' \subseteq Sides
      <4>1. closed' = closed \/ closed' = closed \cup {s}
        BY <1>4 DEF RecvAddr, Fail
      <4> QED BY <4>1 DEF IInv, TypeOK
    <3> QED BY <1>4, <3>1, <3>2, <3>3, <3>4, <3>5 DEF IInv, TypeOK, RecvAddr, userVars
  <2>2. HandshakeExact'
    BY <1>0, <1>4, <1>a, <2>a, <2>b DEF IInv, TypeOK, HandshakeExact, StatusAt, RecvAddr, userVars, Fail, Advance
  <2>3. StreamExact'
    <3>2. host' = host /\ endpoint' = endpoint /\ DOMAIN stream = Sides
      BY <1>4 DEF RecvAddr, IInv, TypeOK
    <3>3. ASSUME NEW x \in Sides, task'[x] # "failed"
          PROVE  /\ Len(stream'[x]) = Sent(Other(x), at'[Other(x)]) - Recvd(x, at'[x])
                 /\ \A k \in 1..Len(stream'[x]) : stream'[x][k] =
                      Message(Other(x), host[Other(x)], endpoint[Other(x)], Recvd(x, at'[x]) + k)
      <4>0. task[x] # "failed"
        BY <2>a, <3>3, <1>4 DEF IInv, TypeOK, RecvAddr, Fail
      <4>1. /\ Len(stream[x]) = Sent(Other(x), at[Other(x)]) - Recvd(x, at[x])
            /\ \A k \in 1..Len(stream[x]) : stream[x][k] =
                 Message(Other(x), host[Other(x)], endpoint[Other(x)], Recvd(x, at[x]) + k)
        BY <4>0 DEF IInv, StreamExact
      <4>2. CASE x # s
        <5>1. x = Other(s) /\ Other(x) = s
          BY <1>0, <4>2 DEF Sides, Other
        <5>2. /\ stream'[x] = stream[x] /\ at'[x] = at[x]
              /\ Sent(s, at'[s]) = Sent(s, at[s])
          BY <1>0, <2>a, <2>b, <3>2, <4>2, <5>1 DEF IInv, TypeOK
        <5> QED BY <4>1, <5>1, <5>2
      <4>3. CASE x = s
        <5>1. /\ stream'[x] = Tail(stream[x]) /\ at'[Other(x)] = at[Other(x)]
              /\ Recvd(x, at'[x]) = Recvd(x, at[x]) + 1
          BY <1>0, <2>a, <2>b, <3>2, <3>3, <4>3 DEF IInv, TypeOK
        <5>2. /\ Len(stream'[x]) = Len(stream[x]) - 1
              /\ \A k \in 1..Len(stream'[x]) : stream'[x][k] = stream[x][k + 1]
          BY <2>b, <4>3, <5>1
        <5>3. ASSUME NEW k \in 1..Len(stream'[x])
              PROVE  k + 1 \in 1..Len(stream[x]) /\ Recvd(x, at[x]) + (k + 1) = Recvd(x, at'[x]) + k
          BY <1>a, <2>b, <4>3, <5>1, <5>2
        <5>4. Sent(Other(x), at[Other(x)]) \in Int /\ Recvd(x, at[x]) \in Int
          BY <1>0, <1>a
        <5>5. Len(stream'[x]) = Sent(Other(x), at'[Other(x)]) - Recvd(x, at'[x])
          BY <4>1, <5>1, <5>2, <5>4
        <5>6. ASSUME NEW k \in 1..Len(stream'[x])
              PROVE  stream'[x][k] =
                       Message(Other(x), host[Other(x)], endpoint[Other(x)], Recvd(x, at'[x]) + k)
          BY <4>1, <5>2, <5>3
        <5> QED BY <5>5, <5>6
      <4> QED BY <4>2, <4>3
    <3> QED BY <3>2, <3>3 DEF StreamExact
  <2>4. LearntExact'
    <3>1. /\ UNCHANGED <<host, peer_id, rank_self_in_peer, heartbeat, endpoint>>
          /\ \A x \in Sides : x # s => at'[x] = at[x]
          /\ at'[s] = at[s] \/ at'[s] = at[s] + 1
      BY <2>a, <1>4 DEF RecvAddr, IInv, TypeOK
    <3>2. \A x \in Sides : /\ Recvd(x, at'[x]) >= 1 => Recvd(x, at[x]) >= 1
                           /\ Recvd(x, at'[x]) >= 2 => Recvd(x, at[x]) >= 2
                           /\ Recvd(x, at'[x]) >= 4 => Recvd(x, at[x]) >= 4
                           /\ at'[x] >= 4 => at[x] >= 4
      BY <1>a, <2>a, <3>1
    <3> QED BY <3>1, <3>2 DEF IInv, LearntExact
  <2>5. AddrExact'
    <3> SUFFICES ASSUME NEW x \in Sides, x \notin uninserted', ~(Recvd(x, at'[x]) < 3),
                        ~(task'[x] = "failed" /\ comm'[x] = "NOT_READY"), comm'[x] # "absent",
                        ~\E t \in Users : Side[t] = x /\ pc'[t] = "erase"
                 PROVE  fi_addr'[x] = <<Other(x), endpoint'[x]>>
      BY DEF AddrExact
    <3>0. UNCHANGED <<endpoint, comm, pc>> /\ \A y \in Sides : y # s => fi_addr'[y] = fi_addr[y]
          /\ uninserted \subseteq uninserted'
      BY <1>4 DEF RecvAddr, userVars, IInv, TypeOK
    <3>1. CASE x # s
      <4>1. at'[x] = at[x] /\ task'[x] = task[x]
        BY <2>a, <3>1 DEF IInv, TypeOK
      <4> QED BY <3>0, <3>1, <4>1 DEF IInv, AddrExact
    <3>2. CASE x = s
      <4>0. at' # at
        BY <2>a, <3>2
      <4>1. fi_addr' = [fi_addr EXCEPT ![s] = Head(stream[s]).val]
        <5>1. PICK n \in {1, 0, -1} :
                /\ n < 0 => UNCHANGED at
                /\ n = 0 => s \in uninserted'
                /\ fi_addr' = IF n = 1 THEN [fi_addr EXCEPT ![s] = Head(stream[s]).val] ELSE fi_addr
          BY <1>4 DEF RecvAddr
        <5>2. n = 1
          BY <1>0, <3>2, <4>0, <5>1
        <5> QED BY <5>1, <5>2
      <4>2. Head(stream[s]).val = <<Other(s), endpoint[Other(s)]>>
        BY <2>a, <2>c DEF Message
      <4>3. endpoint[Other(s)] = endpoint[s] /\ endpoint' = endpoint
        <5>0. Sent(Other(s), at[Other(s)]) \in Int /\ Recvd(s, at[s]) = 2
              /\ Len(stream[s]) = Sent(Other(s), at[Other(s)]) - Recvd(s, at[s])
          BY <1>0, <1>a, <2>a DEF IInv, StreamExact
        <5>1. Sent(Other(s), at[Other(s)]) >= 3
          BY <2>b, <5>0
        <5>2. at[Other(s)] >= 4
          BY <1>0, <5>1, Positions
        <5> QED BY <1>0, <2>a, <5>2, <3>0 DEF IInv, LearntExact
      <4> QED BY <3>2, <4>1, <4>2, <4>3 DEF IInv, TypeOK
    <3> QED BY <3>1, <3>2
  <2>6. UsersExact'
    BY <1>0, <1>4, <1>a, <2>a, <2>b DEF IInv, TypeOK, UsersExact, HoldingPcs, RecvAddr, userVars, Fail
  <2>7. UsableOnReturn'
    BY <1>0, <1>4, <1>a, <2>a, <2>b DEF IInv, TypeOK, UsableOnReturn, UsersExact, HoldingPcs, RecvAddr, userVars, Fail
  <2>8. CloseExact'
    <3>0. CommOutlivesUse /\ \A u \in Users : pc[u] # "idle" /\ op[u] = "close" /\ Side[u] \notin early =>
            \/ task[Side[u]] = "done" /\ \A v \in Users : Side[v] = Side[u] => pc[v] \notin WaitingPcs
            \/ task[Side[u]] = "failed" /\ ~Busy(Side[u], u)
      BY DEF IInv, CloseExact, Settled
    <3>1. UNCHANGED <<comm, pc, op, early>>
      BY <1>4 DEF RecvAddr, userVars
    <3>2. \A x \in Sides : task'[x] = task[x] \/ (x = s /\ task[x] = "running" /\ task'[x] = "failed")
      BY <2>a DEF IInv, TypeOK
    <3>3. CommOutlivesUse'
      BY <1>0, <3>0, <3>1, <3>2 DEF CommOutlivesUse
    <3>4. ASSUME NEW u \in Users, pc[u] # "idle", op[u] = "close", Side[u] \notin early
          PROVE  task'[Side[u]] = task[Side[u]]
      BY <1>0, <3>0, <3>2, <3>4
    <3> QED BY <1>0, <3>0, <3>1, <3>3, <3>4 DEF CloseExact, Settled, Busy
  <2> QED BY <2>1, <2>2, <2>3, <2>4, <2>5, <2>6, <2>7, <2>8 DEF IInv
<1>5. ASSUME NEW s \in Sides, SockBroken(s) PROVE IInv'
  <2>1. TypeOK'
    BY <1>0, <1>5 DEF IInv, TypeOK, UserPcs, WaitingPcs, Statuses, Ready, SockBroken, AtStep, Fail, entryVars, userVars
  <2>2. HandshakeExact'
    BY <1>0, <1>5 DEF IInv, TypeOK, HandshakeExact, StatusAt, SockBroken, AtStep, Fail, entryVars, userVars
  <2>3. StreamExact'
    BY <1>0, <1>a, <1>5, StreamSame DEF IInv, TypeOK, SockBroken, Fail, entryVars
  <2>4. LearntExact'
    BY <1>0, <1>5 DEF IInv, TypeOK, LearntExact, SockBroken, AtStep, Fail, entryVars, userVars
  <2>5. AddrExact'
    BY <1>0, <1>5 DEF IInv, TypeOK, AddrExact, SockBroken, AtStep, Fail, entryVars, userVars
  <2>6. UsersExact'
    BY <1>0, <1>5 DEF IInv, TypeOK, UsersExact, HoldingPcs, SockBroken, AtStep, Fail, entryVars, userVars
  <2>7. UsableOnReturn'
    BY <1>0, <1>5 DEF IInv, TypeOK, UsableOnReturn, UsersExact, HoldingPcs, SockBroken, AtStep, Fail, entryVars, userVars
  <2>8. CloseExact'
    BY <1>0, <1>5 DEF IInv, TypeOK, CloseExact, CommOutlivesUse, Settled, Busy, WaitingPcs, SockBroken, AtStep, Fail, entryVars, userVars
  <2> QED BY <2>1, <2>2, <2>3, <2>4, <2>5, <2>6, <2>7, <2>8 DEF IInv
<1>6. ASSUME NEW s \in Sides, Fault(s) PROVE IInv'
  <2>1. TypeOK'
    BY <1>0, <1>6 DEF IInv, TypeOK, UserPcs, WaitingPcs, Statuses, Ready, Fault, AtStep, Fail, entryVars, userVars
  <2>2. HandshakeExact'
    BY <1>0, <1>6 DEF IInv, TypeOK, HandshakeExact, StatusAt, Fault, AtStep, Fail, entryVars, userVars
  <2>3. StreamExact'
    BY <1>0, <1>a, <1>6, StreamSame DEF IInv, TypeOK, Fault, Fail, entryVars
  <2>4. LearntExact'
    BY <1>0, <1>6 DEF IInv, TypeOK, LearntExact, Fault, AtStep, Fail, entryVars, userVars
  <2>5. AddrExact'
    BY <1>0, <1>6 DEF IInv, TypeOK, AddrExact, Fault, AtStep, Fail, entryVars, userVars
  <2>6. UsersExact'
    BY <1>0, <1>6 DEF IInv, TypeOK, UsersExact, HoldingPcs, Fault, AtStep, Fail, entryVars, userVars
  <2>7. UsableOnReturn'
    BY <1>0, <1>6 DEF IInv, TypeOK, UsableOnReturn, UsersExact, HoldingPcs, Fault, AtStep, Fail, entryVars, userVars
  <2>8. CloseExact'
    BY <1>0, <1>6 DEF IInv, TypeOK, CloseExact, CommOutlivesUse, Settled, Busy, WaitingPcs, Fault, AtStep, Fail, entryVars, userVars
  <2> QED BY <2>1, <2>2, <2>3, <2>4, <2>5, <2>6, <2>7, <2>8 DEF IInv
<1>7. ASSUME NEW s \in Sides, InitComm(s) PROVE IInv'
  <2>a. /\ at[s] \in 1..Last /\ at[s] = 3
        /\ task[s] = "running" /\ comm[s] # "absent"
        /\ at' = [at EXCEPT ![s] = at[s] + 1]
        /\ Sent(s, at[s] + 1) = Sent(s, at[s]) /\ Recvd(s, at[s] + 1) = Recvd(s, at[s]) /\ Recvd(s, at[s]) = 1 /\ Sent(s, at[s]) = 1
    BY <1>0, <1>7, Positions DEF InitComm, AtStep, Advance
  <2>1. TypeOK'
    <3>1. /\ UNCHANGED <<host, stream, closed, fabric, task, fut, peer_id, rank_self_in_peer>>
          /\ UNCHANGED <<fi_addr, heartbeat, readers, pc, op, uninserted, early>>
      BY <1>7 DEF InitComm, userVars
    <3>2. at' \in [Sides -> 1..Last]
      BY <1>0, <2>a DEF IInv, TypeOK
    <3>3. comm' \in [Sides -> {"absent", "reserved"} \cup Statuses]
      BY <1>0, <1>7 DEF IInv, TypeOK, InitComm, Statuses, Ready
    <3>4. endpoint' \in [Sides -> {Unknown, "shm", "peer"}]
      BY <1>0, <1>7 DEF IInv, TypeOK, InitComm
    <3> QED BY <1>0, <3>1, <3>2, <3>3, <3>4 DEF IInv, TypeOK
  <2>2. HandshakeExact'
    BY <1>0, <1>7, <2>a DEF IInv, TypeOK, HandshakeExact, StatusAt, InitComm, entryVars
  <2>3. StreamExact'
    BY <1>0, <1>a, <1>7, <2>a, StreamSame, Positions DEF IInv, TypeOK, InitComm, entryVars
  <2>4. LearntExact'
    <3>1. peer_id[s] = host[Other(s)] /\ {s, Other(s)} = Sides
      BY <1>0, <2>a DEF IInv, LearntExact, Sides, Other
    <3>2. endpoint'[s] = IF UseShm /\ host["server"] = host["client"] THEN "shm" ELSE "peer"
      BY <1>0, <3>1, <1>7 DEF IInv, TypeOK, InitComm, Sides, Other
    <3> QED BY <1>0, <1>a, <2>a, <3>2, <1>7 DEF IInv, TypeOK, LearntExact, InitComm
  <2>5. AddrExact'
    BY <1>0, <1>7, <1>a, <2>a DEF IInv, TypeOK, AddrExact, InitComm, userVars, entryVars, HandshakeExact, StatusAt
  <2>6. UsersExact'
    BY <1>0, <1>7, <1>a, <2>a DEF IInv, TypeOK, UsersExact, HoldingPcs, InitComm, userVars, entryVars
  <2>7. UsableOnReturn'
    BY <1>0, <1>7, <1>a, <2>a DEF IInv, TypeOK, UsableOnReturn, UsersExact, HoldingPcs, InitComm, userVars, entryVars, Ready
  <2>8. CloseExact'
    BY <1>0, <1>7, <1>a, <2>a DEF IInv, TypeOK, CloseExact, CommOutlivesUse, Settled, Busy, WaitingPcs, InitComm, userVars, entryVars, HandshakeExact
  <2> QED BY <2>1, <2>2, <2>3, <2>4, <2>5, <2>6, <2>7, <2>8 DEF IInv
<1>8. ASSUME NEW s \in Sides, Internal(s) PROVE IInv'
  <2>a. /\ at[s] \in 1..Last /\ at[s] = 8
        /\ task[s] = "running" /\ comm[s] # "absent"
        /\ at' = [at EXCEPT ![s] = at[s] + 1]
        /\ Sent(s, at[s] + 1) = Sent(s, at[s]) /\ Recvd(s, at[s] + 1) = Recvd(s, at[s])
    BY <1>0, <1>8, Positions DEF Internal, AtStep, Advance
  <2>1. TypeOK'
    BY <1>0, <1>8, <1>a, <2>a DEF IInv, TypeOK, UserPcs, WaitingPcs, Statuses, Ready, Internal, userVars, entryVars
  <2>2. HandshakeExact'
    BY <1>0, <1>8, <2>a DEF IInv, TypeOK, HandshakeExact, StatusAt, Internal, entryVars
  <2>3. StreamExact'
    BY <1>0, <1>a, <1>8, <2>a, StreamSame, Positions DEF IInv, TypeOK, Internal, entryVars
  <2>4. LearntExact'
    BY <1>0, <1>8, <1>a, <2>a DEF IInv, TypeOK, LearntExact, Internal, userVars, entryVars
  <2>5. AddrExact'
    BY <1>0, <1>8, <1>a, <2>a DEF IInv, TypeOK, AddrExact, Internal, userVars, entryVars, HandshakeExact, StatusAt
  <2>6. UsersExact'
    BY <1>0, <1>8, <1>a, <2>a DEF IInv, TypeOK, UsersExact, HoldingPcs, Internal, userVars, entryVars
  <2>7. UsableOnReturn'
    BY <1>0, <1>8, <1>a, <2>a DEF IInv, TypeOK, UsableOnReturn, UsersExact, HoldingPcs, Internal, userVars, entryVars, Ready
  <2>8. CloseExact'
    BY <1>0, <1>8, <1>a, <2>a DEF IInv, TypeOK, CloseExact, CommOutlivesUse, Settled, Busy, WaitingPcs, Internal, userVars, entryVars, HandshakeExact
  <2> QED BY <2>1, <2>2, <2>3, <2>4, <2>5, <2>6, <2>7, <2>8 DEF IInv
<1>9. ASSUME NEW s \in Sides, FiSend(s) PROVE IInv'
  <2>a. /\ at[s] \in 1..Last /\ at[s] < Last - 1 /\ at[s] > 8
        /\ task[s] = "running" /\ comm[s] # "absent"
        /\ at' = [at EXCEPT ![s] = at[s] + 1]
        /\ Sent(s, at[s] + 1) = Sent(s, at[s]) /\ Recvd(s, at[s] + 1) = Recvd(s, at[s])
    BY <1>0, <1>9, Positions DEF FiSend, AtStep, Advance
  <2>1. TypeOK'
    BY <1>0, <1>9, <1>a, <2>a DEF IInv, TypeOK, UserPcs, WaitingPcs, Statuses, Ready, FiSend, userVars, entryVars
  <2>2. HandshakeExact'
    <3>1. comm' = comm /\ task' = task /\ StatusAt(at[s] + 1) = StatusAt(at[s])
      BY <1>0, <1>9, <2>a DEF StatusAt, FiSend, entryVars
    <3> QED BY <1>0, <2>a, <3>1 DEF IInv, TypeOK, HandshakeExact
  <2>3. StreamExact'
    BY <1>0, <1>a, <1>9, <2>a, StreamSame, Positions DEF IInv, TypeOK, FiSend, entryVars
  <2>4. LearntExact'
    BY <1>0, <1>9, <1>a, <2>a DEF IInv, TypeOK, LearntExact, FiSend, userVars, entryVars
  <2>5. AddrExact'
    BY <1>0, <1>9, <1>a, <2>a DEF IInv, TypeOK, AddrExact, FiSend, userVars, entryVars, HandshakeExact, StatusAt
  <2>6. UsersExact'
    BY <1>0, <1>9, <1>a, <2>a DEF IInv, TypeOK, UsersExact, HoldingPcs, FiSend, userVars, entryVars
  <2>7. UsableOnReturn'
    BY <1>0, <1>9, <1>a, <2>a DEF IInv, TypeOK, UsableOnReturn, UsersExact, HoldingPcs, FiSend, userVars, entryVars, Ready
  <2>8. CloseExact'
    BY <1>0, <1>9, <1>a, <2>a DEF IInv, TypeOK, CloseExact, CommOutlivesUse, Settled, Busy, WaitingPcs, FiSend, userVars, entryVars, HandshakeExact
  <2> QED BY <2>1, <2>2, <2>3, <2>4, <2>5, <2>6, <2>7, <2>8 DEF IInv
<1>10. ASSUME NEW s \in Sides, FiRecv(s) PROVE IInv'
  <2>a. /\ at[s] \in 1..Last /\ at[s] < Last - 1 /\ at[s] > 8
        /\ task[s] = "running" /\ comm[s] # "absent"
        /\ at' = [at EXCEPT ![s] = at[s] + 1]
        /\ Sent(s, at[s] + 1) = Sent(s, at[s]) /\ Recvd(s, at[s] + 1) = Recvd(s, at[s])
    BY <1>0, <1>10, Positions DEF FiRecv, AtStep, Advance
  <2>1. TypeOK'
    <3>1. UNCHANGED <<host, stream, closed, fabric, task, fut, entryVars, userVars>>
      BY <1>10 DEF FiRecv
    <3>2. at' \in [Sides -> 1..Last]
      BY <1>0, <2>a DEF IInv, TypeOK
    <3> QED BY <1>0, <3>1, <3>2 DEF IInv, TypeOK, userVars, entryVars
  <2>2. HandshakeExact'
    <3>1. comm' = comm /\ task' = task /\ StatusAt(at[s] + 1) = StatusAt(at[s])
      BY <1>0, <1>10, <2>a DEF StatusAt, FiRecv, entryVars
    <3> QED BY <1>0, <2>a, <3>1 DEF IInv, TypeOK, HandshakeExact
  <2>3. StreamExact'
    BY <1>0, <1>a, <1>10, <2>a, StreamSame, Positions DEF IInv, TypeOK, FiRecv, entryVars
  <2>4. LearntExact'
    BY <1>0, <1>10, <1>a, <2>a DEF IInv, TypeOK, LearntExact, FiRecv, userVars, entryVars
  <2>5. AddrExact'
    BY <1>0, <1>10, <1>a, <2>a DEF IInv, TypeOK, AddrExact, FiRecv, userVars, entryVars, HandshakeExact, StatusAt
  <2>6. UsersExact'
    BY <1>0, <1>10, <1>a, <2>a DEF IInv, TypeOK, UsersExact, HoldingPcs, FiRecv, userVars, entryVars
  <2>7. UsableOnReturn'
    BY <1>0, <1>10, <1>a, <2>a DEF IInv, TypeOK, UsableOnReturn, UsersExact, HoldingPcs, FiRecv, userVars, entryVars, Ready
  <2>8. CloseExact'
    BY <1>0, <1>10, <1>a, <2>a DEF IInv, TypeOK, CloseExact, CommOutlivesUse, Settled, Busy, WaitingPcs, FiRecv, userVars, entryVars, HandshakeExact
  <2> QED BY <2>1, <2>2, <2>3, <2>4, <2>5, <2>6, <2>7, <2>8 DEF IInv
<1>11. ASSUME NEW s \in Sides, BecomeReady(s) PROVE IInv'
  <2>a. /\ at[s] \in 1..Last /\ at[s] = Last - 1
        /\ task[s] = "running" /\ comm[s] # "absent"
        /\ at' = [at EXCEPT ![s] = at[s] + 1]
        /\ Sent(s, at[s] + 1) = Sent(s, at[s]) /\ Recvd(s, at[s] + 1) = Recvd(s, at[s])
    BY <1>0, <1>11, Positions DEF BecomeReady, AtStep, Advance
  <2>1. TypeOK'
    BY <1>0, <1>11, <1>a, <2>a DEF IInv, TypeOK, UserPcs, WaitingPcs, Statuses, Ready, BecomeReady, userVars, entryVars
  <2>2. HandshakeExact'
    BY <1>0, <1>11, <2>a DEF IInv, TypeOK, HandshakeExact, StatusAt, BecomeReady, entryVars
  <2>3. StreamExact'
    BY <1>0, <1>a, <1>11, <2>a, StreamSame, Positions DEF IInv, TypeOK, BecomeReady, entryVars
  <2>4. LearntExact'
    BY <1>0, <1>11, <1>a, <2>a DEF IInv, TypeOK, LearntExact, BecomeReady, userVars, entryVars
  <2>5. AddrExact'
    BY <1>0, <1>11, <1>a, <2>a DEF IInv, TypeOK, AddrExact, BecomeReady, userVars, entryVars, HandshakeExact, StatusAt
  <2>6. UsersExact'
    BY <1>0, <1>11, <1>a, <2>a DEF IInv, TypeOK, UsersExact, HoldingPcs, BecomeReady, userVars, entryVars
  <2>7. UsableOnReturn'
    BY <1>0, <1>11, <1>a, <2>a DEF IInv, TypeOK, UsableOnReturn, UsersExact, HoldingPcs, BecomeReady, userVars, entryVars, Ready
  <2>8. CloseExact'
    BY <1>0, <1>11, <1>a, <2>a DEF IInv, TypeOK, CloseExact, CommOutlivesUse, Settled, Busy, WaitingPcs, BecomeReady, userVars, entryVars, HandshakeExact
  <2> QED BY <2>1, <2>2, <2>3, <2>4, <2>5, <2>6, <2>7, <2>8 DEF IInv
<1>12. ASSUME NEW s \in Sides, CloseSocket(s) PROVE IInv'
  <2>a. at[s] = Last
    BY <1>0, <1>12, Positions DEF CloseSocket
  <2>1. TypeOK'
    BY <1>0, <1>12, <2>a DEF IInv, TypeOK, UserPcs, WaitingPcs, Statuses, Ready, CloseSocket, userVars, entryVars
  <2>2. HandshakeExact'
    BY <1>0, <1>12, <2>a DEF IInv, TypeOK, HandshakeExact, StatusAt, CloseSocket, userVars, entryVars
  <2>3. StreamExact'
    BY <1>0, <1>a, <1>12, StreamSame DEF IInv, TypeOK, CloseSocket, entryVars
  <2>4. LearntExact'
    BY <1>0, <1>12, <2>a DEF IInv, TypeOK, LearntExact, CloseSocket, userVars, entryVars
  <2>5. AddrExact'
    BY <1>0, <1>12, <2>a DEF IInv, TypeOK, AddrExact, CloseSocket, userVars, entryVars
  <2>6. UsersExact'
    BY <1>0, <1>12, <2>a DEF IInv, TypeOK, UsersExact, HoldingPcs, CloseSocket, userVars, entryVars
  <2>7. UsableOnReturn'
    BY <1>0, <1>12, <2>a DEF IInv, TypeOK, UsableOnReturn, UsersExact, HoldingPcs, CloseSocket, userVars, entryVars
  <2>8. CloseExact'
    BY <1>0, <1>12, <2>a DEF IInv, TypeOK, CloseExact, CommOutlivesUse, Settled, Busy, WaitingPcs, CloseSocket, userVars, entryVars
  <2> QED BY <2>1, <2>2, <2>3, <2>4, <2>5, <2>6, <2>7, <2>8 DEF IInv
<1>13. ASSUME NEW t \in Users, BeginUse(t) PROVE IInv'
  <2>a. /\ UNCHANGED <<host, stream, at, task, endpoint, peer_id, rank_self_in_peer, heartbeat>>
        /\ \A u \in Users : pc[u] = "erase" /\ pc'[u] # "erase" => comm'[Side[u]] = "absent"
    BY <1>0, <1>13 DEF IInv, TypeOK, BeginUse, Goto, hsVars, entryVars
  <2>1. TypeOK'
    <3>1. pc' \in [Users -> UserPcs] /\ op' \in [Users -> {"use", "close"}]
      <4>1. \E l \in UserPcs : pc' = [pc EXCEPT ![t] = l]
        BY <1>13 DEF UserPcs, WaitingPcs, BeginUse, Goto
      <4>2. op' \in [Users -> {"use", "close"}]
        BY <1>13 DEF IInv, TypeOK, BeginUse
      <4> QED BY <4>1, <4>2 DEF IInv, TypeOK
    <3>2. readers' \subseteq Users
      BY <1>13 DEF IInv, TypeOK, BeginUse, Lock, Unlock
    <3>3. /\ fut' \in [Sides -> {"none", "stored", "taken"}] /\ fi_addr' = [x \in Sides |-> fi_addr'[x]]
          /\ comm' \in [Sides -> {"absent", "reserved"} \cup Statuses]
      BY <1>0, <1>13 DEF IInv, TypeOK, BeginUse, entryVars
    <3>4. early' \subseteq Sides
      BY <1>0, <1>13, ConnectionAssumption DEF IInv, TypeOK, BeginUse
    <3> QED BY <1>13, <2>a, <3>1, <3>2, <3>3, <3>4 DEF IInv, TypeOK, hsVars, entryVars, BeginUse
  <2>2. HandshakeExact'
    BY <1>0, <1>13, <2>a DEF IInv, TypeOK, HandshakeExact, StatusAt, BeginUse, Goto, Lock, Unlock, hsVars, entryVars
  <2>3. StreamExact'
    BY <2>a, HandshakeKept
  <2>4. LearntExact'
    BY <2>a, HandshakeKept
  <2>5. AddrExact'
    BY <1>0, <1>13, <2>a DEF IInv, TypeOK, AddrExact, BeginUse, Goto, Lock, Unlock, hsVars, entryVars
  <2>6. UsersExact'
    BY <1>0, <1>13, <2>a DEF IInv, TypeOK, UsersExact, HoldingPcs, BeginUse, Goto, Lock, Unlock, hsVars, entryVars
  <2>7. UsableOnReturn'
    BY <1>0, <1>13, <2>a DEF IInv, TypeOK, UsableOnReturn, UsersExact, HoldingPcs, BeginUse, Goto, Lock, Unlock, hsVars, entryVars, Ready, HandshakeExact, StatusAt, Statuses, NoReader
  <2>8. CloseExact'
    BY <1>0, <1>13, <2>a DEF IInv, TypeOK, CloseExact, CommOutlivesUse, Settled, Busy, WaitingPcs, BeginUse, Goto, Lock, Unlock, hsVars, entryVars, UsersExact, HoldingPcs, HandshakeExact, StatusAt, NoReader, Closing, Ready, Statuses
  <2> QED BY <2>1, <2>2, <2>3, <2>4, <2>5, <2>6, <2>7, <2>8 DEF IInv
<1>14. ASSUME NEW t \in Users, BeginClose(t) PROVE IInv'
  <2>a. /\ UNCHANGED <<host, stream, at, task, endpoint, peer_id, rank_self_in_peer, heartbeat>>
        /\ \A u \in Users : pc[u] = "erase" /\ pc'[u] # "erase" => comm'[Side[u]] = "absent"
    BY <1>0, <1>14 DEF IInv, TypeOK, BeginClose, Goto, hsVars, entryVars
  <2>1. TypeOK'
    <3>1. pc' \in [Users -> UserPcs] /\ op' \in [Users -> {"use", "close"}]
      <4>1. \E l \in UserPcs : pc' = [pc EXCEPT ![t] = l]
        BY <1>14 DEF UserPcs, WaitingPcs, BeginClose, Goto
      <4>2. op' \in [Users -> {"use", "close"}]
        BY <1>14 DEF IInv, TypeOK, BeginClose
      <4> QED BY <4>1, <4>2 DEF IInv, TypeOK
    <3>2. readers' \subseteq Users
      BY <1>14 DEF IInv, TypeOK, BeginClose, Lock, Unlock
    <3>3. /\ fut' \in [Sides -> {"none", "stored", "taken"}] /\ fi_addr' = [x \in Sides |-> fi_addr'[x]]
          /\ comm' \in [Sides -> {"absent", "reserved"} \cup Statuses]
      BY <1>0, <1>14 DEF IInv, TypeOK, BeginClose, entryVars
    <3>4. early' \subseteq Sides
      BY <1>0, <1>14, ConnectionAssumption DEF IInv, TypeOK, BeginClose
    <3> QED BY <1>14, <2>a, <3>1, <3>2, <3>3, <3>4 DEF IInv, TypeOK, hsVars, entryVars, BeginClose
  <2>2. HandshakeExact'
    BY <1>0, <1>14, <2>a DEF IInv, TypeOK, HandshakeExact, StatusAt, BeginClose, Goto, Lock, Unlock, hsVars, entryVars
  <2>3. StreamExact'
    BY <2>a, HandshakeKept
  <2>4. LearntExact'
    BY <2>a, HandshakeKept
  <2>5. AddrExact'
    BY <1>0, <1>14, <2>a DEF IInv, TypeOK, AddrExact, BeginClose, Goto, Lock, Unlock, hsVars, entryVars
  <2>6. UsersExact'
    BY <1>0, <1>14, <2>a DEF IInv, TypeOK, UsersExact, HoldingPcs, BeginClose, Goto, Lock, Unlock, hsVars, entryVars
  <2>7. UsableOnReturn'
    BY <1>0, <1>14, <2>a DEF IInv, TypeOK, UsableOnReturn, UsersExact, HoldingPcs, BeginClose, Goto, Lock, Unlock, hsVars, entryVars, Ready, HandshakeExact, StatusAt, Statuses, NoReader
  <2>8. CloseExact'
    BY <1>0, <1>14, <2>a DEF IInv, TypeOK, CloseExact, CommOutlivesUse, Settled, Busy, WaitingPcs, BeginClose, Goto, Lock, Unlock, hsVars, entryVars, UsersExact, HoldingPcs, HandshakeExact, StatusAt, NoReader, Closing, Ready, Statuses
  <2> QED BY <2>1, <2>2, <2>3, <2>4, <2>5, <2>6, <2>7, <2>8 DEF IInv
<1>15. ASSUME NEW t \in Users, Lookup(t) PROVE IInv'
  <2>a. /\ UNCHANGED <<host, stream, at, task, endpoint, peer_id, rank_self_in_peer, heartbeat>>
        /\ \A u \in Users : pc[u] = "erase" /\ pc'[u] # "erase" => comm'[Side[u]] = "absent"
    BY <1>0, <1>15 DEF IInv, TypeOK, Lookup, Goto, hsVars, Return, entryVars
  <2>1. TypeOK'
    <3>1. pc' \in [Users -> UserPcs] /\ op' \in [Users -> {"use", "close"}]
      <4>1. \E l \in UserPcs : pc' = [pc EXCEPT ![t] = l]
        BY <1>15 DEF UserPcs, WaitingPcs, Lookup, Goto, Return
      <4>2. op' \in [Users -> {"use", "close"}]
        BY <1>15 DEF IInv, TypeOK, Lookup
      <4> QED BY <4>1, <4>2 DEF IInv, TypeOK
    <3>2. readers' \subseteq Users
      BY <1>15 DEF IInv, TypeOK, Lookup, Lock, Unlock, Return
    <3>3. /\ fut' \in [Sides -> {"none", "stored", "taken"}] /\ fi_addr' = [x \in Sides |-> fi_addr'[x]]
          /\ comm' \in [Sides -> {"absent", "reserved"} \cup Statuses]
      BY <1>0, <1>15 DEF IInv, TypeOK, Lookup, entryVars
    <3> QED BY <1>15, <2>a, <3>1, <3>2, <3>3 DEF IInv, TypeOK, hsVars, entryVars, Lookup
  <2>2. HandshakeExact'
    BY <1>0, <1>15, <2>a DEF IInv, TypeOK, HandshakeExact, StatusAt, Lookup, Goto, Lock, Unlock, hsVars, entryVars, Return
  <2>3. StreamExact'
    BY <2>a, HandshakeKept
  <2>4. LearntExact'
    BY <2>a, HandshakeKept
  <2>5. AddrExact'
    BY <1>0, <1>15, <2>a DEF IInv, TypeOK, AddrExact, Lookup, Goto, Lock, Unlock, hsVars, entryVars, Return
  <2>6. UsersExact'
    BY <1>0, <1>15, <2>a DEF IInv, TypeOK, UsersExact, HoldingPcs, Lookup, Goto, Lock, Unlock, hsVars, entryVars, Return
  <2>7. UsableOnReturn'
    BY <1>0, <1>15, <2>a DEF IInv, TypeOK, UsableOnReturn, UsersExact, HoldingPcs, Lookup, Goto, Lock, Unlock, hsVars, entryVars, Return, Ready, HandshakeExact, StatusAt, Statuses, NoReader
  <2>8. CloseExact'
    BY <1>0, <1>15, <2>a DEF IInv, TypeOK, CloseExact, CommOutlivesUse, Settled, Busy, WaitingPcs, Lookup, Goto, Lock, Unlock, hsVars, entryVars, Return, UsersExact, HoldingPcs, HandshakeExact, StatusAt, NoReader, Closing, Ready, Statuses
  <2> QED BY <2>1, <2>2, <2>3, <2>4, <2>5, <2>6, <2>7, <2>8 DEF IInv
<1>16. ASSUME NEW t \in Users, Extract(t) PROVE IInv'
  <2>a. /\ UNCHANGED <<host, stream, at, task, endpoint, peer_id, rank_self_in_peer, heartbeat>>
        /\ \A u \in Users : pc[u] = "erase" /\ pc'[u] # "erase" => comm'[Side[u]] = "absent"
    BY <1>0, <1>16 DEF IInv, TypeOK, Extract, Goto, hsVars, entryVars
  <2>1. TypeOK'
    <3>1. pc' \in [Users -> UserPcs] /\ op' \in [Users -> {"use", "close"}]
      <4>1. \E l \in UserPcs : pc' = [pc EXCEPT ![t] = l]
        BY <1>16 DEF UserPcs, WaitingPcs, Extract, Goto
      <4>2. op' \in [Users -> {"use", "close"}]
        BY <1>16 DEF IInv, TypeOK, Extract
      <4> QED BY <4>1, <4>2 DEF IInv, TypeOK
    <3>2. readers' \subseteq Users
      BY <1>16 DEF IInv, TypeOK, Extract, Lock, Unlock
    <3>3. /\ fut' \in [Sides -> {"none", "stored", "taken"}] /\ fi_addr' = [x \in Sides |-> fi_addr'[x]]
          /\ comm' \in [Sides -> {"absent", "reserved"} \cup Statuses]
      <4>1. fi_addr' = fi_addr /\ comm' = comm
        BY <1>16 DEF Extract, entryVars
      <4>2. fut' = fut \/ fut' = [fut EXCEPT ![Side[t]] = "taken"]
        BY <1>16 DEF Extract
      <4>3. fut' \in [Sides -> {"none", "stored", "taken"}]
        BY <1>0, <4>2 DEF IInv, TypeOK
      <4> QED BY <1>0, <4>1, <4>3 DEF IInv, TypeOK
    <3> QED BY <1>16, <2>a, <3>1, <3>2, <3>3 DEF IInv, TypeOK, hsVars, entryVars, Extract
  <2>2. HandshakeExact'
    BY <1>0, <1>16, <2>a DEF IInv, TypeOK, HandshakeExact, StatusAt, Extract, Goto, Lock, Unlock, hsVars, entryVars
  <2>3. StreamExact'
    BY <2>a, HandshakeKept
  <2>4. LearntExact'
    BY <2>a, HandshakeKept
  <2>5. AddrExact'
    BY <1>0, <1>16, <2>a DEF IInv, TypeOK, AddrExact, Extract, Goto, Lock, Unlock, hsVars, entryVars
  <2>6. UsersExact'
    <3>1. /\ pc[t] = "extract" /\ task' = task /\ op' = op
          /\ \/ pc' = [pc EXCEPT ![t] = "await"] /\ readers' = readers \ {t}
             \/ pc' = [pc EXCEPT ![t] = "check"] /\ readers' = readers
      BY <1>16, <2>a DEF Extract, Goto, Unlock
    <3>2. readers' = {u \in Users : pc'[u] \in HoldingPcs}
      <4>1. CASE pc' = [pc EXCEPT ![t] = "await"] /\ readers' = readers \ {t}
        BY <4>1 DEF IInv, TypeOK, UsersExact, HoldingPcs
      <4>2. CASE pc' = [pc EXCEPT ![t] = "check"] /\ readers' = readers
        BY <3>1, <4>2 DEF IInv, TypeOK, UsersExact, HoldingPcs
      <4> QED BY <3>1, <4>1, <4>2
    <3>3. \A u \in Users : u # t => pc'[u] = pc[u]
      BY <3>1 DEF IInv, TypeOK
    <3>4. pc'[t] \in {"await", "check"}
      BY <3>1 DEF IInv, TypeOK
    <3> QED BY <3>1, <3>2, <3>3, <3>4 DEF IInv, UsersExact
  <2>7. UsableOnReturn'
    BY <1>0, <1>16, <2>a DEF IInv, TypeOK, UsableOnReturn, UsersExact, HoldingPcs, Extract, Goto, Lock, Unlock, hsVars, entryVars, Ready, HandshakeExact, StatusAt, Statuses, NoReader
  <2>8. CloseExact'
    BY <1>0, <1>16, <2>a DEF IInv, TypeOK, CloseExact, CommOutlivesUse, Settled, Busy, WaitingPcs, Extract, Goto, Lock, Unlock, hsVars, entryVars, UsersExact, HoldingPcs, HandshakeExact, StatusAt, NoReader, Closing, Ready, Statuses
  <2> QED BY <2>1, <2>2, <2>3, <2>4, <2>5, <2>6, <2>7, <2>8 DEF IInv
<1>17. ASSUME NEW t \in Users, Check(t) PROVE IInv'
  <2>a. /\ UNCHANGED <<host, stream, at, task, endpoint, peer_id, rank_self_in_peer, heartbeat>>
        /\ \A u \in Users : pc[u] = "erase" /\ pc'[u] # "erase" => comm'[Side[u]] = "absent"
    BY <1>0, <1>17 DEF IInv, TypeOK, Check, Goto, hsVars, Return, entryVars
  <2>1. TypeOK'
    <3>1. pc' \in [Users -> UserPcs] /\ op' \in [Users -> {"use", "close"}]
      <4>1. \E l \in UserPcs : pc' = [pc EXCEPT ![t] = l]
        BY <1>17 DEF UserPcs, WaitingPcs, Check, Goto, Return
      <4>2. op' \in [Users -> {"use", "close"}]
        BY <1>17 DEF IInv, TypeOK, Check
      <4> QED BY <4>1, <4>2 DEF IInv, TypeOK
    <3>2. readers' \subseteq Users
      BY <1>17 DEF IInv, TypeOK, Check, Lock, Unlock, Return
    <3>3. /\ fut' \in [Sides -> {"none", "stored", "taken"}] /\ fi_addr' = [x \in Sides |-> fi_addr'[x]]
          /\ comm' \in [Sides -> {"absent", "reserved"} \cup Statuses]
      BY <1>0, <1>17 DEF IInv, TypeOK, Check, entryVars
    <3> QED BY <1>17, <2>a, <3>1, <3>2, <3>3 DEF IInv, TypeOK, hsVars, entryVars, Check
  <2>2. HandshakeExact'
    BY <1>0, <1>17, <2>a DEF IInv, TypeOK, HandshakeExact, StatusAt, Check, Goto, Lock, Unlock, hsVars, entryVars, Return
  <2>3. StreamExact'
    BY <2>a, HandshakeKept
  <2>4. LearntExact'
    BY <2>a, HandshakeKept
  <2>5. AddrExact'
    BY <1>0, <1>17, <2>a DEF IInv, TypeOK, AddrExact, Check, Goto, Lock, Unlock, hsVars, entryVars, Return
  <2>6. UsersExact'
    BY <1>0, <1>17, <2>a DEF IInv, TypeOK, UsersExact, HoldingPcs, Check, Goto, Lock, Unlock, hsVars, entryVars, Return
  <2>7. UsableOnReturn'
    BY <1>0, <1>17, <2>a DEF IInv, TypeOK, UsableOnReturn, UsersExact, HoldingPcs, Check, Goto, Lock, Unlock, hsVars, entryVars, Return, Ready, HandshakeExact, StatusAt, Statuses, NoReader
  <2>8. CloseExact'
    <3>0. CommOutlivesUse /\ \A u \in Users : pc[u] # "idle" /\ op[u] = "close" /\ Side[u] \notin early =>
            \/ task[Side[u]] = "done" /\ \A v \in Users : Side[v] = Side[u] => pc[v] \notin WaitingPcs
            \/ task[Side[u]] = "failed" /\ ~Busy(Side[u], u)
      BY DEF IInv, CloseExact, Settled
    <3>1. /\ UNCHANGED <<comm, op, task, early>> /\ pc[t] = "check"
          /\ \/ pc' = [pc EXCEPT ![t] = "using"]
             \/ pc' = [pc EXCEPT ![t] = "drowsy"]
      BY <1>17, <2>a DEF Check, Return, Goto, entryVars
    <3>2. /\ \A u \in Users : pc'[u] \in WaitingPcs \cup {"using"} => pc[u] \in WaitingPcs \cup {"using"}
          /\ \A u \in Users : pc'[u] \in WaitingPcs => pc[u] \in WaitingPcs
          /\ \A u \in Users : pc'[u] = "idle" <=> pc[u] = "idle"
      BY <3>1 DEF IInv, TypeOK, WaitingPcs
    <3>3. \A u \in Users : pc'[u] = "using" /\ pc[u] # "using" => comm[Side[u]] = "READY"
      BY <1>17 DEF IInv, TypeOK, Check, Return, Goto
    <3>4. CommOutlivesUse'
      BY <3>0, <3>1, <3>2, <3>3 DEF CommOutlivesUse
    <3> QED BY <3>0, <3>1, <3>2, <3>4 DEF CloseExact, Settled, Busy
  <2> QED BY <2>1, <2>2, <2>3, <2>4, <2>5, <2>6, <2>7, <2>8 DEF IInv
<1>18. ASSUME NEW t \in Users, Sleep(t) PROVE IInv'
  <2>a. /\ UNCHANGED <<host, stream, at, task, endpoint, peer_id, rank_self_in_peer, heartbeat>>
        /\ \A u \in Users : pc[u] = "erase" /\ pc'[u] # "erase" => comm'[Side[u]] = "absent"
    BY <1>0, <1>18 DEF IInv, TypeOK, Sleep, Goto, hsVars, entryVars
  <2>1. TypeOK'
    <3>1. pc' \in [Users -> UserPcs] /\ op' \in [Users -> {"use", "close"}]
      <4>1. \E l \in UserPcs : pc' = [pc EXCEPT ![t] = l]
        BY <1>18 DEF UserPcs, WaitingPcs, Sleep, Goto
      <4>2. op' \in [Users -> {"use", "close"}]
        BY <1>18 DEF IInv, TypeOK, Sleep
      <4> QED BY <4>1, <4>2 DEF IInv, TypeOK
    <3>2. readers' \subseteq Users
      BY <1>18 DEF IInv, TypeOK, Sleep, Lock, Unlock
    <3>3. /\ fut' \in [Sides -> {"none", "stored", "taken"}] /\ fi_addr' = [x \in Sides |-> fi_addr'[x]]
          /\ comm' \in [Sides -> {"absent", "reserved"} \cup Statuses]
      BY <1>0, <1>18 DEF IInv, TypeOK, Sleep, entryVars
    <3> QED BY <1>18, <2>a, <3>1, <3>2, <3>3 DEF IInv, TypeOK, hsVars, entryVars, Sleep
  <2>2. HandshakeExact'
    BY <1>0, <1>18, <2>a DEF IInv, TypeOK, HandshakeExact, StatusAt, Sleep, Goto, Lock, Unlock, hsVars, entryVars
  <2>3. StreamExact'
    BY <2>a, HandshakeKept
  <2>4. LearntExact'
    BY <2>a, HandshakeKept
  <2>5. AddrExact'
    BY <1>0, <1>18, <2>a DEF IInv, TypeOK, AddrExact, Sleep, Goto, Lock, Unlock, hsVars, entryVars
  <2>6. UsersExact'
    BY <1>0, <1>18, <2>a DEF IInv, TypeOK, UsersExact, HoldingPcs, Sleep, Goto, Lock, Unlock, hsVars, entryVars
  <2>7. UsableOnReturn'
    BY <1>0, <1>18, <2>a DEF IInv, TypeOK, UsableOnReturn, UsersExact, HoldingPcs, Sleep, Goto, Lock, Unlock, hsVars, entryVars, Ready, HandshakeExact, StatusAt, Statuses, NoReader
  <2>8. CloseExact'
    BY <1>0, <1>18, <2>a DEF IInv, TypeOK, CloseExact, CommOutlivesUse, Settled, Busy, WaitingPcs, Sleep, Goto, Lock, Unlock, hsVars, entryVars, UsersExact, HoldingPcs, HandshakeExact, StatusAt, NoReader, Closing, Ready, Statuses
  <2> QED BY <2>1, <2>2, <2>3, <2>4, <2>5, <2>6, <2>7, <2>8 DEF IInv
<1>19. ASSUME NEW t \in Users, WakeUp(t) PROVE IInv'
  <2>a. /\ UNCHANGED <<host, stream, at, task, endpoint, peer_id, rank_self_in_peer, heartbeat>>
        /\ \A u \in Users : pc[u] = "erase" /\ pc'[u] # "erase" => comm'[Side[u]] = "absent"
    BY <1>0, <1>19 DEF IInv, TypeOK, WakeUp, Goto, hsVars, entryVars
  <2>1. TypeOK'
    <3>1. pc' \in [Users -> UserPcs] /\ op' \in [Users -> {"use", "close"}]
      <4>1. \E l \in UserPcs : pc' = [pc EXCEPT ![t] = l]
        BY <1>19 DEF UserPcs, WaitingPcs, WakeUp, Goto
      <4>2. op' \in [Users -> {"use", "close"}]
        BY <1>19 DEF IInv, TypeOK, WakeUp
      <4> QED BY <4>1, <4>2 DEF IInv, TypeOK
    <3>2. readers' \subseteq Users
      BY <1>19 DEF IInv, TypeOK, WakeUp, Lock, Unlock
    <3>3. /\ fut' \in [Sides -> {"none", "stored", "taken"}] /\ fi_addr' = [x \in Sides |-> fi_addr'[x]]
          /\ comm' \in [Sides -> {"absent", "reserved"} \cup Statuses]
      BY <1>0, <1>19 DEF IInv, TypeOK, WakeUp, entryVars
    <3> QED BY <1>19, <2>a, <3>1, <3>2, <3>3 DEF IInv, TypeOK, hsVars, entryVars, WakeUp
  <2>2. HandshakeExact'
    BY <1>0, <1>19, <2>a DEF IInv, TypeOK, HandshakeExact, StatusAt, WakeUp, Goto, Lock, Unlock, hsVars, entryVars
  <2>3. StreamExact'
    BY <2>a, HandshakeKept
  <2>4. LearntExact'
    BY <2>a, HandshakeKept
  <2>5. AddrExact'
    BY <1>0, <1>19, <2>a DEF IInv, TypeOK, AddrExact, WakeUp, Goto, Lock, Unlock, hsVars, entryVars
  <2>6. UsersExact'
    BY <1>0, <1>19, <2>a DEF IInv, TypeOK, UsersExact, HoldingPcs, WakeUp, Goto, Lock, Unlock, hsVars, entryVars
  <2>7. UsableOnReturn'
    BY <1>0, <1>19, <2>a DEF IInv, TypeOK, UsableOnReturn, UsersExact, HoldingPcs, WakeUp, Goto, Lock, Unlock, hsVars, entryVars, Ready, HandshakeExact, StatusAt, Statuses, NoReader
  <2>8. CloseExact'
    BY <1>0, <1>19, <2>a DEF IInv, TypeOK, CloseExact, CommOutlivesUse, Settled, Busy, WaitingPcs, WakeUp, Goto, Lock, Unlock, hsVars, entryVars, UsersExact, HoldingPcs, HandshakeExact, StatusAt, NoReader, Closing, Ready, Statuses
  <2> QED BY <2>1, <2>2, <2>3, <2>4, <2>5, <2>6, <2>7, <2>8 DEF IInv
<1>20. ASSUME NEW t \in Users, Disturb(t) PROVE IInv'
  <2>a. /\ UNCHANGED <<host, stream, at, task, endpoint, peer_id, rank_self_in_peer, heartbeat>>
        /\ \A u \in Users : pc[u] = "erase" /\ pc'[u] # "erase" => comm'[Side[u]] = "absent"
    BY <1>0, <1>20 DEF IInv, TypeOK, Disturb, Goto, hsVars, entryVars
  <2>1. TypeOK'
    <3>1. pc' \in [Users -> UserPcs] /\ op' \in [Users -> {"use", "close"}]
      <4>1. \E l \in UserPcs : pc' = [pc EXCEPT ![t] = l]
        BY <1>20 DEF UserPcs, WaitingPcs, Disturb, Goto
      <4>2. op' \in [Users -> {"use", "close"}]
        BY <1>20 DEF IInv, TypeOK, Disturb
      <4> QED BY <4>1, <4>2 DEF IInv, TypeOK
    <3>2. readers' \subseteq Users
      BY <1>20 DEF IInv, TypeOK, Disturb, Lock, Unlock
    <3>3. /\ fut' \in [Sides -> {"none", "stored", "taken"}] /\ fi_addr' = [x \in Sides |-> fi_addr'[x]]
          /\ comm' \in [Sides -> {"absent", "reserved"} \cup Statuses]
      BY <1>0, <1>20 DEF IInv, TypeOK, Disturb, entryVars
    <3> QED BY <1>20, <2>a, <3>1, <3>2, <3>3 DEF IInv, TypeOK, hsVars, entryVars, Disturb
  <2>2. HandshakeExact'
    BY <1>0, <1>20, <2>a DEF IInv, TypeOK, HandshakeExact, StatusAt, Disturb, Goto, Lock, Unlock, hsVars, entryVars
  <2>3. StreamExact'
    BY <2>a, HandshakeKept
  <2>4. LearntExact'
    BY <2>a, HandshakeKept
  <2>5. AddrExact'
    BY <1>0, <1>20, <2>a DEF IInv, TypeOK, AddrExact, Disturb, Goto, Lock, Unlock, hsVars, entryVars
  <2>6. UsersExact'
    BY <1>0, <1>20, <2>a DEF IInv, TypeOK, UsersExact, HoldingPcs, Disturb, Goto, Lock, Unlock, hsVars, entryVars
  <2>7. UsableOnReturn'
    BY <1>0, <1>20, <2>a DEF IInv, TypeOK, UsableOnReturn, UsersExact, HoldingPcs, Disturb, Goto, Lock, Unlock, hsVars, entryVars, Ready, HandshakeExact, StatusAt, Statuses, NoReader
  <2>8. CloseExact'
    BY <1>0, <1>20, <2>a DEF IInv, TypeOK, CloseExact, CommOutlivesUse, Settled, Busy, WaitingPcs, Disturb, Goto, Lock, Unlock, hsVars, entryVars, UsersExact, HoldingPcs, HandshakeExact, StatusAt, NoReader, Closing, Ready, Statuses
  <2> QED BY <2>1, <2>2, <2>3, <2>4, <2>5, <2>6, <2>7, <2>8 DEF IInv
<1>21. ASSUME NEW t \in Users, Await(t) PROVE IInv'
  <2>a. /\ UNCHANGED <<host, stream, at, task, endpoint, peer_id, rank_self_in_peer, heartbeat>>
        /\ \A u \in Users : pc[u] = "erase" /\ pc'[u] # "erase" => comm'[Side[u]] = "absent"
    BY <1>0, <1>21 DEF IInv, TypeOK, Await, Goto, hsVars, entryVars
  <2>1. TypeOK'
    <3>1. pc' \in [Users -> UserPcs] /\ op' \in [Users -> {"use", "close"}]
      <4>1. \E l \in UserPcs : pc' = [pc EXCEPT ![t] = l]
        BY <1>21 DEF UserPcs, WaitingPcs, Await, Goto
      <4>2. op' \in [Users -> {"use", "close"}]
        BY <1>21 DEF IInv, TypeOK, Await
      <4> QED BY <4>1, <4>2 DEF IInv, TypeOK
    <3>2. readers' \subseteq Users
      BY <1>21 DEF IInv, TypeOK, Await, Lock, Unlock
    <3>3. /\ fut' \in [Sides -> {"none", "stored", "taken"}] /\ fi_addr' = [x \in Sides |-> fi_addr'[x]]
          /\ comm' \in [Sides -> {"absent", "reserved"} \cup Statuses]
      BY <1>0, <1>21 DEF IInv, TypeOK, Await, entryVars
    <3> QED BY <1>21, <2>a, <3>1, <3>2, <3>3 DEF IInv, TypeOK, hsVars, entryVars, Await
  <2>2. HandshakeExact'
    BY <1>0, <1>21, <2>a DEF IInv, TypeOK, HandshakeExact, StatusAt, Await, Goto, Lock, Unlock, hsVars, entryVars
  <2>3. StreamExact'
    BY <2>a, HandshakeKept
  <2>4. LearntExact'
    BY <2>a, HandshakeKept
  <2>5. AddrExact'
    BY <1>0, <1>21, <2>a DEF IInv, TypeOK, AddrExact, Await, Goto, Lock, Unlock, hsVars, entryVars
  <2>6. UsersExact'
    BY <1>0, <1>21, <2>a DEF IInv, TypeOK, UsersExact, HoldingPcs, Await, Goto, Lock, Unlock, hsVars, entryVars
  <2>7. UsableOnReturn'
    BY <1>0, <1>21, <2>a DEF IInv, TypeOK, UsableOnReturn, UsersExact, HoldingPcs, Await, Goto, Lock, Unlock, hsVars, entryVars, Ready, HandshakeExact, StatusAt, Statuses, NoReader
  <2>8. CloseExact'
    BY <1>0, <1>21, <2>a DEF IInv, TypeOK, CloseExact, CommOutlivesUse, Settled, Busy, WaitingPcs, Await, Goto, Lock, Unlock, hsVars, entryVars, UsersExact, HoldingPcs, HandshakeExact, StatusAt, NoReader, Closing, Ready, Statuses
  <2> QED BY <2>1, <2>2, <2>3, <2>4, <2>5, <2>6, <2>7, <2>8 DEF IInv
<1>22. ASSUME NEW t \in Users, NotifyAll(t) PROVE IInv'
  <2>a. /\ UNCHANGED <<host, stream, at, task, endpoint, peer_id, rank_self_in_peer, heartbeat>>
        /\ \A u \in Users : pc[u] = "erase" /\ pc'[u] # "erase" => comm'[Side[u]] = "absent"
    BY <1>0, <1>22 DEF IInv, TypeOK, NotifyAll, Goto, hsVars, entryVars
  <2>1. TypeOK'
    <3>1. pc' \in [Users -> UserPcs] /\ op' \in [Users -> {"use", "close"}]
      BY <1>22 DEF IInv, TypeOK, UserPcs, WaitingPcs, NotifyAll
    <3>2. readers' \subseteq Users
      BY <1>22 DEF IInv, TypeOK, NotifyAll, Lock, Unlock
    <3>3. /\ fut' \in [Sides -> {"none", "stored", "taken"}] /\ fi_addr' = [x \in Sides |-> fi_addr'[x]]
          /\ comm' \in [Sides -> {"absent", "reserved"} \cup Statuses]
      BY <1>0, <1>22 DEF IInv, TypeOK, NotifyAll, entryVars
    <3> QED BY <1>22, <2>a, <3>1, <3>2, <3>3 DEF IInv, TypeOK, hsVars, entryVars, NotifyAll
  <2>2. HandshakeExact'
    BY <1>0, <1>22, <2>a DEF IInv, TypeOK, HandshakeExact, StatusAt, NotifyAll, Goto, Lock, Unlock, hsVars, entryVars
  <2>3. StreamExact'
    BY <2>a, HandshakeKept
  <2>4. LearntExact'
    BY <2>a, HandshakeKept
  <2>5. AddrExact'
    BY <1>0, <1>22, <2>a DEF IInv, TypeOK, AddrExact, NotifyAll, Goto, Lock, Unlock, hsVars, entryVars
  <2>6. UsersExact'
    BY <1>0, <1>22, <2>a DEF IInv, TypeOK, UsersExact, HoldingPcs, NotifyAll, Goto, Lock, Unlock, hsVars, entryVars
  <2>7. UsableOnReturn'
    BY <1>0, <1>22, <2>a DEF IInv, TypeOK, UsableOnReturn, UsersExact, HoldingPcs, NotifyAll, Goto, Lock, Unlock, hsVars, entryVars, Ready, HandshakeExact, StatusAt, Statuses, NoReader
  <2>8. CloseExact'
    BY <1>0, <1>22, <2>a DEF IInv, TypeOK, CloseExact, CommOutlivesUse, Settled, Busy, WaitingPcs, NotifyAll, Goto, Lock, Unlock, hsVars, entryVars, UsersExact, HoldingPcs, HandshakeExact, StatusAt, NoReader, Closing, Ready, Statuses
  <2> QED BY <2>1, <2>2, <2>3, <2>4, <2>5, <2>6, <2>7, <2>8 DEF IInv
<1>23. ASSUME NEW t \in Users, Release(t) PROVE IInv'
  <2>a. /\ UNCHANGED <<host, stream, at, task, endpoint, peer_id, rank_self_in_peer, heartbeat>>
        /\ \A u \in Users : pc[u] = "erase" /\ pc'[u] # "erase" => comm'[Side[u]] = "absent"
    BY <1>0, <1>23 DEF IInv, TypeOK, Release, Goto, hsVars
  <2>1. TypeOK'
    <3>1. pc' \in [Users -> UserPcs] /\ op' \in [Users -> {"use", "close"}]
      <4>1. \E l \in UserPcs : pc' = [pc EXCEPT ![t] = l]
        BY <1>23 DEF UserPcs, WaitingPcs, Release, Goto
      <4>2. op' \in [Users -> {"use", "close"}]
        BY <1>23 DEF IInv, TypeOK, Release
      <4> QED BY <4>1, <4>2 DEF IInv, TypeOK
    <3>2. readers' \subseteq Users
      BY <1>23 DEF IInv, TypeOK, Release, Lock, Unlock
    <3>3. /\ fut' \in [Sides -> {"none", "stored", "taken"}] /\ fi_addr' = [x \in Sides |-> fi_addr'[x]]
          /\ comm' \in [Sides -> {"absent", "reserved"} \cup Statuses]
      BY <1>0, <1>23 DEF IInv, TypeOK, Release
    <3> QED BY <1>23, <2>a, <3>1, <3>2, <3>3 DEF IInv, TypeOK, hsVars, entryVars, Release
  <2>2. HandshakeExact'
    BY <1>0, <1>23, <2>a DEF IInv, TypeOK, HandshakeExact, StatusAt, Release, Goto, Lock, Unlock, hsVars
  <2>3. StreamExact'
    BY <2>a, HandshakeKept
  <2>4. LearntExact'
    BY <2>a, HandshakeKept
  <2>5. AddrExact'
    BY <1>0, <1>23, <2>a DEF IInv, TypeOK, AddrExact, Release, Goto, Lock, Unlock, hsVars, UsableOnReturn, Ready
  <2>6. UsersExact'
    BY <1>0, <1>23, <2>a DEF IInv, TypeOK, UsersExact, HoldingPcs, Release, Goto, Lock, Unlock, hsVars
  <2>7. UsableOnReturn'
    BY <1>0, <1>23, <2>a DEF IInv, TypeOK, UsableOnReturn, UsersExact, HoldingPcs, Release, Goto, Lock, Unlock, hsVars, Ready, HandshakeExact, StatusAt, Statuses, NoReader
  <2>8. CloseExact'
    BY <1>0, <1>23, <2>a DEF IInv, TypeOK, CloseExact, CommOutlivesUse, Settled, Busy, WaitingPcs, Release, Goto, Lock, Unlock, hsVars, UsersExact, HoldingPcs, HandshakeExact, StatusAt, NoReader, Closing, Ready, Statuses
  <2> QED BY <2>1, <2>2, <2>3, <2>4, <2>5, <2>6, <2>7, <2>8 DEF IInv
<1>24. ASSUME NEW t \in Users, Erase(t) PROVE IInv'
  <2>a. /\ UNCHANGED <<host, stream, at, task, endpoint, peer_id, rank_self_in_peer, heartbeat>>
        /\ \A u \in Users : pc[u] = "erase" /\ pc'[u] # "erase" => comm'[Side[u]] = "absent"
    BY <1>0, <1>24 DEF IInv, TypeOK, Erase, Goto, hsVars
  <2>1. TypeOK'
    <3>1. pc' \in [Users -> UserPcs] /\ op' \in [Users -> {"use", "close"}]
      <4>1. \E l \in UserPcs : pc' = [pc EXCEPT ![t] = l]
        BY <1>24 DEF UserPcs, WaitingPcs, Erase, Goto
      <4>2. op' \in [Users -> {"use", "close"}]
        BY <1>24 DEF IInv, TypeOK, Erase
      <4> QED BY <4>1, <4>2 DEF IInv, TypeOK
    <3>2. readers' \subseteq Users
      BY <1>24 DEF IInv, TypeOK, Erase, Lock, Unlock
    <3>3. /\ fut' \in [Sides -> {"none", "stored", "taken"}] /\ fi_addr' = [x \in Sides |-> fi_addr'[x]]
          /\ comm' \in [Sides -> {"absent", "reserved"} \cup Statuses]
      BY <1>0, <1>24 DEF IInv, TypeOK, Erase
    <3> QED BY <1>24, <2>a, <3>1, <3>2, <3>3 DEF IInv, TypeOK, hsVars, entryVars, Erase
  <2>2. HandshakeExact'
    BY <1>0, <1>24, <2>a DEF IInv, TypeOK, HandshakeExact, StatusAt, Erase, Goto, Lock, Unlock, hsVars
  <2>3. StreamExact'
    BY <2>a, HandshakeKept
  <2>4. LearntExact'
    BY <2>a, HandshakeKept
  <2>5. AddrExact'
    BY <1>0, <1>24, <2>a DEF IInv, TypeOK, AddrExact, Erase, Goto, Lock, Unlock, hsVars
  <2>6. UsersExact'
    BY <1>0, <1>24, <2>a DEF IInv, TypeOK, UsersExact, HoldingPcs, Erase, Goto, Lock, Unlock, hsVars
  <2>7. UsableOnReturn'
    BY <1>0, <1>24, <2>a DEF IInv, TypeOK, UsableOnReturn, UsersExact, HoldingPcs, Erase, Goto, Lock, Unlock, hsVars, Ready, HandshakeExact, StatusAt, Statuses, NoReader
  <2>8. CloseExact'
    <3>0. CommOutlivesUse /\ \A u \in Users : pc[u] # "idle" /\ op[u] = "close" /\ Side[u] \notin early =>
            \/ task[Side[u]] = "done" /\ \A v \in Users : Side[v] = Side[u] => pc[v] \notin WaitingPcs
            \/ task[Side[u]] = "failed" /\ ~Busy(Side[u], u)
      BY DEF IInv, CloseExact, Settled
    <3>1. /\ UNCHANGED <<op, task, early>> /\ pc[t] = "erase" /\ op[t] = "close"
          /\ pc' = [pc EXCEPT ![t] = "idle"] /\ comm' = [comm EXCEPT ![Side[t]] = "absent"]
          /\ \A u \in readers : Side[u] # Side[t]
      BY <1>24, <2>a DEF Erase, Goto, NoReader, IInv, UsersExact
    <3>2. ASSUME NEW u \in Users, Side[u] = Side[t]
          PROVE  /\ pc'[u] # "using"
                 /\ Side[t] \notin early => pc'[u] \notin WaitingPcs /\ task[Side[t]] # "running"
      <4>1. pc[u] # "using"
        BY <3>1, <3>2 DEF IInv, UsersExact, HoldingPcs
      <4>2. CASE u = t
        BY <3>0, <3>1, <4>2 DEF IInv, TypeOK, WaitingPcs
      <4>3. CASE u # t
        <5>1. pc'[u] = pc[u] /\ pc[t] # "idle"
          BY <3>1, <4>3 DEF IInv, TypeOK
        <5>2. Side[t] \notin early => pc[u] \notin WaitingPcs /\ task[Side[t]] # "running"
          BY <3>0, <3>1, <3>2, <4>3, <5>1 DEF Busy, WaitingPcs
        <5> QED BY <4>1, <5>1, <5>2
      <4> QED BY <4>2, <4>3
    <3>3. CommOutlivesUse'
      <4>1. ASSUME NEW x \in Sides, comm'[x] = "absent", x # Side[t]
            PROVE  /\ \A u \in Users : Side[u] = x => pc'[u] # "using"
                   /\ x \notin early =>
                        task'[x] # "running" /\ \A u \in Users : Side[u] = x => pc'[u] \notin WaitingPcs
        BY <1>0, <3>0, <3>1, <4>1 DEF IInv, TypeOK, CommOutlivesUse
      <4>2. Side[t] \notin early => task'[Side[t]] # "running"
        BY <3>1, <3>2
      <4> QED BY <3>1, <3>2, <4>1, <4>2 DEF CommOutlivesUse
    <3>4. /\ \A u \in Users : pc'[u] \in WaitingPcs => pc[u] \in WaitingPcs
          /\ \A u \in Users : pc'[u] # "idle" => pc[u] # "idle"
      BY <3>1 DEF IInv, TypeOK, WaitingPcs
    <3> QED BY <3>0, <3>1, <3>3, <3>4 DEF CloseExact, Settled, Busy
  <2> QED BY <2>1, <2>2, <2>3, <2>4, <2>5, <2>6, <2>7, <2>8 DEF IInv
<1>25. ASSUME UNCHANGED vars PROVE IInv'
  <2>1. TypeOK'
    BY <1>0, <1>25 DEF IInv, TypeOK, UserPcs, WaitingPcs, Statuses, Ready, vars, hsVars, entryVars, userVars
  <2>2. HandshakeExact'
    BY <1>0, <1>25 DEF IInv, TypeOK, HandshakeExact, StatusAt, vars, hsVars, entryVars, userVars
  <2>3. StreamExact'
    BY <1>25, HandshakeKept DEF vars, hsVars, entryVars
  <2>4. LearntExact'
    BY <1>0, <1>25 DEF IInv, TypeOK, LearntExact, vars, hsVars, entryVars, userVars
  <2>5. AddrExact'
    BY <1>0, <1>25 DEF IInv, TypeOK, AddrExact, vars, hsVars, entryVars, userVars
  <2>6. UsersExact'
    BY <1>0, <1>25 DEF IInv, TypeOK, UsersExact, HoldingPcs, vars, hsVars, entryVars, userVars
  <2>7. UsableOnReturn'
    BY <1>0, <1>25 DEF IInv, TypeOK, UsableOnReturn, UsersExact, HoldingPcs, vars, hsVars, entryVars, userVars
  <2>8. CloseExact'
    BY <1>0, <1>25 DEF IInv, TypeOK, CloseExact, CommOutlivesUse, Settled, Busy, WaitingPcs, vars, hsVars, entryVars, userVars
  <2> QED BY <2>1, <2>2, <2>3, <2>4, <2>5, <2>6, <2>7, <2>8 DEF IInv
<1> QED BY <1>1, <1>2, <1>3, <1>4, <1>5, <1>6, <1>7, <1>8, <1>9, <1>10, <1>11, <1>12, <1>13, <1>14, <1>15, <1>16, <1>17, <1>18, <1>19, <1>20, <1>21, <1>22, <1>23, <1>24, <1>25 DEF Next, HandshakeStep, UserStep

-----------------------------------------------------------------------------
(* Theorems.                                                               *)

\* The invariant holds of every reachable state.
LEMMA Invariant == Spec => []IInv
BY InitIInv, StepIInv, PTL DEF Spec

\* init_server and init_client agree on the order of their messages: each read
\* finds the message it is meant for at the head of the stream, with and without
\* heartbeats and whatever fails in between.
THEOREM FramesMatchInvariant == Spec => []FramesMatch
<1>1. IInv => FramesMatch
  <2> SUFFICES ASSUME IInv, NEW s \in Sides, stream[s] # <<>>
               PROVE  /\ AtStep(s, DOMAIN Recvs) => Head(stream[s]).kind = Recvs[Steps(s)[at[s]]]
                      /\ AtStep(s, {"recv_addr"}) => Head(stream[s]).kind = "addr"
    BY DEF FramesMatch
  <2>1. at[s] \in 1..Last /\ stream[s] \in Seq(Messages)
    BY DEF IInv, TypeOK
  <2>2. Head(stream[s]) = stream[s][1] /\ 1 \in 1..Len(stream[s])
    BY <2>1
  <2>3. ASSUME task[s] = "running"
        PROVE  Head(stream[s]).kind = Kind(Recvd(s, at[s]) + 1)
    <3>1. \A k \in 1..Len(stream[s]) :
            stream[s][k] = Message(Other(s), host[Other(s)], endpoint[Other(s)], Recvd(s, at[s]) + k)
      BY <2>3 DEF IInv, StreamExact
    <3>2. Head(stream[s]) = Message(Other(s), host[Other(s)], endpoint[Other(s)], Recvd(s, at[s]) + 1)
      BY <2>2, <3>1
    <3> QED BY <3>2 DEF Message
  <2>4. ASSUME AtStep(s, DOMAIN Recvs)
        PROVE  Head(stream[s]).kind = Recvs[Steps(s)[at[s]]]
    BY <2>1, <2>3, <2>4, Positions DEF AtStep
  <2>5. ASSUME AtStep(s, {"recv_addr"})
        PROVE  Head(stream[s]).kind = "addr"
    <3>1. Recvd(s, at[s]) = 2
      BY <2>1, <2>5, Positions DEF AtStep
    <3> QED BY <2>3, <2>5, <3>1 DEF AtStep, Kind
  <2> QED BY <2>4, <2>5
<1> QED BY <1>1, Invariant, PTL

\* get_comm_internal hands a communicator out only when it may be used, or when
\* its handshake has failed.
THEOREM UsableOnReturnInvariant == Spec => []UsableOnReturn
<1>1. IInv => UsableOnReturn
  BY DEF IInv
<1> QED BY <1>1, Invariant, PTL

\* A communicator that may be used knows its rank in the peer's table, the peer's
\* address on its own kind of endpoint and, once READY, the peer's heartbeat.  The
\* address is missing only where fi_av_insert inserted none, or during a close.
THEOREM AgreeWhenReadyInvariant == Spec => []AgreeWhenReady
<1>1. IInv => AgreeWhenReady
  <2> SUFFICES ASSUME IInv, NEW s \in Sides, comm[s] \in Ready
               PROVE  /\ rank_self_in_peer[s] = Rank[Other(s)]
                      /\ \/ fi_addr[s] = <<Other(s), endpoint[s]>>
                         \/ s \in uninserted
                         \/ \E t \in Users : Side[t] = s /\ pc[t] = "erase"
                      /\ endpoint[s] = "shm" => host["server"] = host["client"]
                      /\ FT /\ comm[s] = "READY" => heartbeat[s]
    BY DEF AgreeWhenReady
  <2>1. at[s] \in 1..Last /\ comm[s] # "absent" /\ comm[s] # "NOT_READY" /\ comm[s] = StatusAt(at[s])
    BY DEF IInv, TypeOK, HandshakeExact, Ready
  <2>2. at[s] > 8 /\ (comm[s] = "READY" => at[s] = Last)
    BY <2>1 DEF StatusAt, Ready, Last
  <2>3. Recvd(s, at[s]) \in 3..4 /\ (FT /\ at[s] = Last => Recvd(s, at[s]) = 4)
    BY <2>1, <2>2, Positions
  <2>4. /\ rank_self_in_peer[s] = Rank[Other(s)]
        /\ endpoint[s] = "shm" => host["server"] = host["client"]
    BY <2>1, <2>2, <2>3 DEF IInv, LearntExact, Last
  <2>5. FT /\ comm[s] = "READY" => heartbeat[s]
    BY <2>2, <2>3 DEF IInv, LearntExact
  <2>6. \/ fi_addr[s] = <<Other(s), endpoint[s]>>
        \/ s \in uninserted
        \/ \E t \in Users : Side[t] = s /\ pc[t] = "erase"
    BY <2>1, <2>3 DEF IInv, AddrExact
  <2> QED BY <2>4, <2>5, <2>6
<1> QED BY <1>1, Invariant, PTL

\* No entry is erased under a thread that uses it, whatever the application
\* closes and when; and none under a thread that waits for it or sets it up where
\* the application has not closed the connection early.
THEOREM CommOutlivesUseInvariant == Spec => []CommOutlivesUse
<1>1. IInv => CommOutlivesUse
  BY DEF IInv, CloseExact
<1> QED BY <1>1, Invariant, PTL

=============================================================================
