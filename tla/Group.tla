------------------------------- MODULE Group -------------------------------
(***************************************************************************)
(* lfi_group_create and lfi_group_close (src/lfi_coll.cpp).  Every process  *)
(* opens a mesh server on a port of its own.  The process on the first host *)
(* that binds the coordination port is the master: it hands out ranks by    *)
(* host name in the order in which the workers reach it, and then the table *)
(* of ports.  Each process connects to the lower ranks and accepts the      *)
(* higher ones.                                                             *)
(*                                                                         *)
(* A port stands for the process that listens on it.  A TCP connection is   *)
(* made when the client connects, and waits in the server's backlog until   *)
(* it is accepted; the handshake that follows is module Connection's.  The  *)
(* barrier at the end of lfi_group_create is the first collective of every  *)
(* program in module Collectives.                                           *)
(***************************************************************************)
EXTENDS Integers, Sequences, SequencesExt, FiniteSetsExt

CONSTANTS
  Size,       \* n_hosts
  Hostnames,  \* [0..(Size - 1) -> host names]: the argument of lfi_group_create
  Hosts,      \* set of [Processes -> host names]: what get_host_name returns, None
              \* for a process that is never started
  None        \* no process, no port

Ranks == 0..(Size - 1)
Procs == 1..Size

ASSUME GroupAssumption ==
  /\ Size \in Nat \ {0}
  /\ DOMAIN Hostnames = Ranks
  /\ None \notin Int

VARIABLES
  host,        \* host of every process
  stage,       \* where a process is in lfi_group_create
  rank,        \* group->rank
  ranks,       \* group->ranks: the process at the other end, or None for -1
  port_table,  \* the table of ports of every process
  master,      \* the process that has bound the coordination port
  backlog,     \* workers that have connected to it, in order
  workers,     \* worker_comms: those it has accepted
  reply,       \* [process -> the rank it was sent, or None]
  mesh         \* backlog of the mesh server of every process

groupVars == <<host, stage, rank, ranks, port_table, master, backlog, workers, reply, mesh>>

NoPeers == [j \in Ranks |-> None]

GroupInit ==
  /\ host \in Hosts
  /\ stage = [p \in Procs |-> "out"]
  /\ rank = [p \in Procs |-> -1]
  /\ ranks = [p \in Procs |-> NoPeers]
  /\ port_table = [p \in Procs |-> NoPeers]
  /\ master = None /\ backlog = <<>> /\ workers = <<>>
  /\ reply = [p \in Procs |-> None]
  /\ mesh = [p \in Procs |-> <<>>]

Enters(p, from, to) ==
  /\ stage[p] = from
  /\ stage' = [stage EXCEPT ![p] = to]

\* The mesh server is up; a process on the first host tries to bind the
\* coordination port.
Create(p) ==
  LET wins == host[p] = Hostnames[0] /\ master = None
  IN  /\ host[p] # None
      /\ Enters(p, "out", IF wins THEN "master" ELSE "worker")
      /\ master' = IF wins THEN p ELSE master
      /\ rank' = IF wins THEN [rank EXCEPT ![p] = 0] ELSE rank
      /\ port_table' = IF wins THEN [port_table EXCEPT ![p][0] = p] ELSE port_table
      /\ UNCHANGED <<host, ranks, backlog, workers, reply, mesh>>

\* Timeouts are long: one expires when the process waited for is not coming.
Missing == \E q \in Procs : host[q] = None \/ stage[q] = "failed"

\* The worker connects, after as many attempts as it takes, and sends its host
\* name and port.
WorkerConnect(p) ==
  /\ master # None
  /\ Enters(p, "worker", "registered")
  /\ backlog' = Append(backlog, p)
  /\ UNCHANGED <<host, rank, ranks, port_table, master, workers, reply, mesh>>

\* There is no master to connect to, or the master has gone without accepting.
WorkerFail(p) ==
  /\ Missing /\ master = None
  /\ Enters(p, "worker", "failed") \/ (~Contains(workers, p) /\ Enters(p, "registered", "failed"))
  /\ UNCHANGED <<host, rank, ranks, port_table, master, backlog, workers, reply, mesh>>

FreeSlots(m, w) == {r \in Ranks \ {0} : port_table[m][r] = None /\ Hostnames[r] = host[w]}

\* Mutant: a slot is given out whether or not it is taken.
MasterAcceptTaken(p) ==
  /\ stage[p] = "master" /\ Len(workers) < Size - 1 /\ backlog # <<>>
  /\ LET w == Head(backlog)
         slots == {r \in Ranks \ {0} : Hostnames[r] = host[w]}
     IN  /\ workers' = Append(workers, w)
         /\ reply' = [reply EXCEPT ![w] = IF slots = {} THEN -2 ELSE Min(slots)]
         /\ port_table' = IF slots = {} THEN port_table
                          ELSE [port_table EXCEPT ![p][Min(slots)] = w]
  /\ backlog' = Tail(backlog)
  /\ UNCHANGED <<host, stage, rank, ranks, master, mesh>>

\* The master takes the next worker and answers with the first free slot of its
\* host, or -2.
MasterAccept(p) ==
  /\ stage[p] = "master" /\ Len(workers) < Size - 1 /\ backlog # <<>>
  /\ LET w == Head(backlog)
         slots == FreeSlots(p, w)
     IN  /\ workers' = Append(workers, w)
         /\ reply' = [reply EXCEPT ![w] = IF slots = {} THEN -2 ELSE Min(slots)]
         /\ port_table' = IF slots = {} THEN port_table
                          ELSE [port_table EXCEPT ![p][Min(slots)] = w]
  /\ backlog' = Tail(backlog)
  /\ UNCHANGED <<host, stage, rank, ranks, master, mesh>>

\* The accept times out: the master closes its servers and returns.  It does not
\* close the connections to the workers that have a rank, which wait on.
MasterTimeout(p) ==
  /\ Missing /\ Len(workers) < Size - 1 /\ backlog = <<>>
  /\ Enters(p, "master", "failed")
  /\ master' = None
  /\ UNCHANGED <<host, rank, ranks, port_table, backlog, workers, reply, mesh>>

\* All workers are known: the table goes to each of them, the port is closed.
MasterSend(p) ==
  /\ Len(workers) = Size - 1
  /\ Enters(p, "master", "mesh")
  /\ port_table' = [q \in Procs |-> IF Contains(workers, q) THEN port_table[p] ELSE port_table[q]]
  /\ master' = None
  /\ UNCHANGED <<host, rank, ranks, backlog, workers, reply, mesh>>

\* The answer: a negative rank ends lfi_group_create with LFI_GROUP_NO_SELF.
WorkerRank(p) ==
  /\ reply[p] # None
  /\ Enters(p, "registered", IF reply[p] < 0 THEN "failed" ELSE "ranked")
  /\ rank' = [rank EXCEPT ![p] = reply[p]]
  /\ UNCHANGED <<host, ranks, port_table, master, backlog, workers, reply, mesh>>

WorkerTable(p) ==
  /\ port_table[p] # NoPeers
  /\ Enters(p, "ranked", "mesh")
  /\ UNCHANGED <<host, rank, ranks, port_table, master, backlog, workers, reply, mesh>>

\* The loop of the mesh phase takes the ranks in order: j is the next one.
MeshNext(p) == {j \in Ranks \ {rank[p]} : ranks[p][j] = None}

\* Connect to a lower rank.  A rank without a port cannot be reached: the mesh
\* server and what is connected are closed, and the call fails.
MeshConnect(p) ==
  LET j == Min(MeshNext(p))
      q == port_table[p][j]
  IN  /\ stage[p] = "mesh" /\ MeshNext(p) # {} /\ j < rank[p]
      /\ IF q = None
         THEN /\ stage' = [stage EXCEPT ![p] = "failed"]
              /\ ranks' = [ranks EXCEPT ![p] = NoPeers]
              /\ UNCHANGED mesh
         ELSE /\ ranks' = [ranks EXCEPT ![p][j] = q]
              /\ mesh' = [mesh EXCEPT ![q] = Append(@, p)]
              /\ UNCHANGED stage
      /\ UNCHANGED <<host, rank, port_table, master, backlog, workers, reply>>

\* Accept from a higher rank: whoever is first in the backlog gets the place.
\* A process that has been waited for too long makes the call fail.
MeshAccept(p) ==
  LET j == Min(MeshNext(p))
  IN  /\ stage[p] = "mesh" /\ MeshNext(p) # {} /\ j > rank[p]
      /\ \/ /\ mesh[p] # <<>>
            /\ ranks' = [ranks EXCEPT ![p][j] = Head(mesh[p])]
            /\ mesh' = [mesh EXCEPT ![p] = Tail(@)]
            /\ UNCHANGED stage
         \/ /\ mesh[p] = <<>> /\ Missing
            /\ stage' = [stage EXCEPT ![p] = "failed"]
            /\ ranks' = [ranks EXCEPT ![p] = NoPeers]
            /\ UNCHANGED mesh
      /\ UNCHANGED <<host, rank, port_table, master, backlog, workers, reply>>

\* The mesh server is closed; the group can be used.
MeshDone(p) ==
  /\ MeshNext(p) = {}
  /\ Enters(p, "mesh", "created")
  /\ UNCHANGED <<host, rank, ranks, port_table, master, backlog, workers, reply, mesh>>

\* lfi_group_close: every connection is closed and the table is freed.
GroupClose(p) ==
  /\ Enters(p, "created", "closed")
  /\ ranks' = [ranks EXCEPT ![p] = NoPeers]
  /\ UNCHANGED <<host, rank, port_table, master, backlog, workers, reply, mesh>>

CreateStep(p) ==
  \/ Create(p) \/ WorkerConnect(p) \/ WorkerFail(p)
  \/ MasterAccept(p) \/ MasterTimeout(p) \/ MasterSend(p)
  \/ WorkerRank(p) \/ WorkerTable(p) \/ MeshConnect(p) \/ MeshAccept(p) \/ MeshDone(p)

-----------------------------------------------------------------------------
\* The rank the master has given a process, which may not know it yet.
Assigned(p) == IF reply[p] = None THEN rank[p] ELSE reply[p]

\* A process in the group has a rank of its own, that of a slot of its host,
\* and its place in the mesh: the lower ranks are the processes with those
\* ranks, and the others are all the processes of higher rank, each once, though
\* in the order in which they happened to connect.
MeshComplete ==
  \A p, q \in Procs : stage[p] = "created" =>
    /\ Hostnames[rank[p]] = host[p]
    /\ stage[q] = "created" /\ rank[p] = rank[q] => p = q
    /\ \A j \in 0..(rank[p] - 1) : Assigned(ranks[p][j]) = j
    /\ {Assigned(ranks[p][j]) : j \in (rank[p] + 1)..(Size - 1)} = (rank[p] + 1)..(Size - 1)
=============================================================================
