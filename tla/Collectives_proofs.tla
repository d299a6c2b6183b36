----------------------- MODULE Collectives_proofs -----------------------
(***************************************************************************)
(* Proofs about Group and Collectives, for any number of processes, any     *)
(* hosts and any programs: the mesh is complete when lfi_group_create       *)
(* returns, barriers synchronise with rank 0, a broadcast delivers what the *)
(* root passed to that call, and an allreduce the reduction of what all     *)
(* ranks passed to it.                                                      *)
(***************************************************************************)
EXTENDS Collectives, FiniteSetTheorems, WellFoundedInduction, TLAPS

-----------------------------------------------------------------------------
(* The inductive invariant: the creation of the group.                     *)

Stages == {"out", "master", "worker", "registered", "ranked", "mesh", "created", "closed", "failed"}

TypeOK ==
  /\ stage \in [Procs -> Stages]
  /\ rank \in [Procs -> Int]
  /\ ranks \in [Procs -> [Ranks -> Procs \cup {None}]]
  /\ port_table \in [Procs -> [Ranks -> Procs \cup {None}]]
  /\ master \in Procs \cup {None}
  /\ backlog \in Seq(Procs) /\ workers \in Seq(Procs)
  /\ reply \in [Procs -> Ranks \cup {-2, None}]
  /\ mesh \in [Procs -> Seq(Procs)]

\* In the mesh phase or past it.
Meshed == {"mesh", "created", "closed"}

\* What a process knows of its rank, and where the master knows it from.
RankExact ==
  \A p \in Procs :
    /\ stage[p] = "master" <=> master = p
    /\ stage[p] = "master" => rank[p] = 0
    /\ stage[p] \in {"out", "worker", "registered"} => rank[p] = -1
    /\ stage[p] = "ranked" => rank[p] = reply[p] /\ rank[p] > 0
    /\ stage[p] \in Meshed => rank[p] = 0 \/ (rank[p] = reply[p] /\ rank[p] > 0)
    /\ rank[p] = 0 \/ rank[p] = -1 \/ rank[p] = reply[p]
    /\ rank[p] = 0 => reply[p] = None /\ stage[p] \in Meshed \cup {"master", "failed"}
    /\ rank[p] = 0 => p \notin ToSet(backlog)
    /\ reply[p] # 0
    /\ reply[p] # None <=> p \in ToSet(workers)
    /\ p \in ToSet(workers) => stage[p] \notin {"out", "master", "worker"}
    /\ p \in ToSet(backlog) => p \notin ToSet(workers) /\ stage[p] \in {"registered", "failed"}
    /\ p \in ToSet(backlog) => rank[p] = -1

QueuesExact ==
  /\ IsInjective(backlog) /\ IsInjective(workers)
  /\ workers # <<>> => \E m \in Procs : rank[m] = 0

\* All ranks have been handed out before a table of ports is sent, and
\* everyone gets the table of the master.
FormedExact ==
  \A p \in Procs :
    /\ stage[p] \in Meshed => Len(workers) = Size - 1 /\ port_table[p] # NoPeers
    /\ port_table[p] # NoPeers /\ rank[p] # 0 =>
         /\ Len(workers) = Size - 1 /\ p \in ToSet(workers)
         /\ \A m \in Procs : rank[m] = 0 => stage[m] # "master" /\ port_table[p] = port_table[m]

\* The table of a master: each worker it gave a rank to, once, at that rank.
TableExact ==
  \A m \in Procs : rank[m] = 0 =>
    /\ port_table[m][0] = m /\ host[m] = Hostnames[0]
    /\ \A r \in Ranks \ {0} : port_table[m][r] # None =>
         /\ port_table[m][r] \in ToSet(workers) /\ reply[port_table[m][r]] = r
         /\ host[port_table[m][r]] = Hostnames[r]
    /\ (\A q \in Procs : rank[q] = 0 => q = m) =>
         \A w \in ToSet(workers) : reply[w] \in Ranks => port_table[m][reply[w]] = w

\* Process q has connected to the mesh server of p.
Connected(q, p) ==
  /\ Assigned(p) \in Ranks /\ Assigned(q) \in Ranks /\ Assigned(q) > Assigned(p)
  /\ stage[q] \in Meshed \cup {"failed"}
  /\ stage[q] = "mesh" => ranks[q][Assigned(p)] # None

MeshExact ==
  \A p \in Procs :
    /\ stage[p] \notin {"mesh", "created"} => ranks[p] = NoPeers
    /\ rank[p] \in Ranks => ranks[p][rank[p]] = None
    /\ stage[p] = "created" => \A j \in Ranks \ {rank[p]} : ranks[p][j] # None
    /\ \A j \in Ranks : j < rank[p] /\ ranks[p][j] # None => ranks[p][j] = port_table[p][j]
    /\ IsInjective(mesh[p])
    /\ \A q \in ToSet(mesh[p]) : Connected(q, p)
    /\ \A q \in Procs, j \in Ranks : j > rank[p] /\ ranks[p][j] = q =>
         /\ Connected(q, p) /\ q \notin ToSet(mesh[p])
         /\ \A i \in Ranks : i > rank[p] /\ ranks[p][i] = q => i = j

GroupInv == TypeOK /\ RankExact /\ QueuesExact /\ FormedExact /\ TableExact /\ MeshExact

-----------------------------------------------------------------------------
(* The inductive invariant: barriers.                                      *)

CollTypeOK ==
  /\ Program \in Programs
  /\ step \in [Procs -> Nat]
  /\ phase \in [Procs -> {"out", "gather", "last"}]
  /\ recvs \in [Procs -> SUBSET Ranks]
  /\ chan = [k \in Kinds |-> chan[k]]
  /\ chan["barrier"] \in [Procs -> [Procs -> Seq({0})]]

\* Where a process is in its program, and what it waits for in a barrier.
CallExact ==
  \A p \in Procs :
    /\ step[p] <= Len(Program)
    /\ phase[p] # "out" => step[p] < Len(Program) /\ stage[p] = "created"
    /\ phase[p] = "out" => recvs[p] = {}
    /\ stage[p] \notin {"created", "closed"} => step[p] = 0
    /\ phase[p] # "out" /\ Call(p).kind = "barrier" =>
         phase[p] = "last" /\ recvs[p] \subseteq (IF rank[p] = 0 THEN Others(0) ELSE {0})

\* The calls a process has entered, and how many of them are barriers.
Reached(p) == IF phase[p] = "out" THEN step[p] ELSE step[p] + 1
Barriers(prog, k) == {i \in 1..k : i \in DOMAIN prog /\ prog[i].kind = "barrier"}
Count(p) == Cardinality(Barriers(Program, Reached(p)))

\* In a barrier p still waits for q.
Awaits(p, q) == /\ phase[p] # "out" /\ Call(p).kind = "barrier"
                /\ \E r \in recvs[p] : ranks[p][r] = q
Awaited(p, q) == IF Awaits(p, q) THEN 1 ELSE 0

\* Between rank 0 and another process as many messages have been sent as
\* barriers entered, and as many have been received but for the one awaited.
BarrierExact ==
  /\ \A m, q \in Procs : rank[m] = 0 /\ q # m =>
       /\ Len(chan["barrier"][q][m]) + Count(m) - Awaited(m, q) = Count(q)
       /\ Len(chan["barrier"][m][q]) + Count(q) - Awaited(q, m) = Count(m)
  /\ (\A p \in Procs : stage[p] \notin {"created", "closed"}) =>
       \A p, q \in Procs : chan["barrier"][p][q] = <<>>

IInv == GroupInv /\ CollTypeOK /\ CallExact /\ BarrierExact

-----------------------------------------------------------------------------
(* Sequences without repetitions, minima, and counting.                    *)

\* A set of natural numbers has a least element.
LEMMA LeastNat ==
  ASSUME NEW T, T \subseteq Nat, T # {}
  PROVE  \E n \in T : \A m \in T : n <= m
<1>1. IsWellFoundedOn(OpToRel(<, Nat), Nat)
  BY NatLessThanWellFounded
<1>2. PICK n \in T : \A m \in T : ~(<<m, n>> \in OpToRel(<, Nat))
  BY <1>1, WFMin
<1>3. \A m \in T : ~(m < n)
  BY <1>2 DEF OpToRel
<1> QED BY <1>3

\* The first free slot, and the next rank of the mesh.
LEMMA MinOf ==
  ASSUME NEW T, T \subseteq Ranks, T # {}
  PROVE  Min(T) \in T /\ \A m \in T : Min(T) <= m
<1>1. T \subseteq Nat
  BY GroupAssumption DEF Ranks
<1>2. \E n \in T : \A m \in T : n <= m
  BY <1>1, LeastNat
<1> QED BY <1>2 DEF Min

\* Appending an element that is not there.
LEMMA AppendNew ==
  ASSUME NEW S, NEW s \in Seq(S), NEW e \in S, NEW t, t = Append(s, e)
  PROVE  /\ t \in Seq(S) /\ Len(t) = Len(s) + 1 /\ t # <<>>
         /\ IsInjective(s) /\ e \notin ToSet(s) => IsInjective(t)
         /\ \A x : x \in ToSet(t) <=> x \in ToSet(s) \/ x = e
<1>1. /\ t \in Seq(S) /\ Len(t) = Len(s) + 1 /\ Len(s) \in Nat
      /\ \A j \in 1..Len(s) : t[j] = s[j]
      /\ t[Len(s) + 1] = e
  OBVIOUS
<1>2. DOMAIN s = 1..Len(s) /\ DOMAIN t = 1..(Len(s) + 1)
  BY <1>1
<1>3. IsInjective(s) /\ e \notin ToSet(s) => IsInjective(t)
  BY <1>1, <1>2 DEF IsInjective, ToSet
<1>4. ASSUME NEW x PROVE x \in ToSet(t) <=> x \in ToSet(s) \/ x = e
  BY <1>1, <1>2 DEF ToSet
<1> QED BY <1>1, <1>3, <1>4

\* Taking the first element.
LEMMA TailRest ==
  ASSUME NEW S, NEW s \in Seq(S), s # <<>>, IsInjective(s), NEW t, t = Tail(s)
  PROVE  /\ t \in Seq(S) /\ Head(s) \in S /\ Head(s) \in ToSet(s) /\ IsInjective(t)
         /\ \A x : x \in ToSet(t) <=> x \in ToSet(s) /\ x # Head(s)
<1>1. /\ t \in Seq(S) /\ Len(t) = Len(s) - 1 /\ Len(s) \in Nat \ {0}
      /\ \A j \in 1..(Len(s) - 1) : t[j] = s[j + 1]
      /\ Head(s) = s[1]
  OBVIOUS
<1>2. DOMAIN s = 1..Len(s) /\ DOMAIN t = 1..(Len(s) - 1) /\ s[1] \in S
  BY <1>1
<1>3. IsInjective(t)
  BY <1>1, <1>2 DEF IsInjective
<1>4. ASSUME NEW x, x \in ToSet(t) PROVE x \in ToSet(s) /\ x # Head(s)
  <2>1. PICK j \in 1..(Len(s) - 1) : x = s[j + 1]
    BY <1>1, <1>2, <1>4 DEF ToSet
  <2> QED BY <1>1, <1>2, <2>1 DEF ToSet, IsInjective
<1>5. ASSUME NEW x, x \in ToSet(s), x # Head(s) PROVE x \in ToSet(t)
  <2>1. PICK j \in 1..Len(s) : x = s[j]
    BY <1>2, <1>5 DEF ToSet
  <2>2. j - 1 \in 1..(Len(s) - 1) /\ s[(j - 1) + 1] = x
    BY <1>1, <1>5, <2>1
  <2> QED BY <1>1, <1>2, <2>2 DEF ToSet
<1>6. Head(s) \in ToSet(s)
  BY <1>1, <1>2 DEF ToSet
<1> QED BY <1>1, <1>2, <1>3, <1>4, <1>5, <1>6

\* An element of a sequence.
LEMMA ElementOf ==
  ASSUME NEW S, NEW s \in Seq(S)
  PROVE  ToSet(s) \subseteq S /\ \A x : Contains(s, x) <=> x \in ToSet(s)
<1>1. DOMAIN s = 1..Len(s) /\ \A i \in DOMAIN s : s[i] \in S
  OBVIOUS
<1> QED BY <1>1 DEF ToSet, Contains

\* A map from an interval to a set of the same size that repeats nothing
\* reaches everything.
LEMMA Onto ==
  ASSUME NEW a \in Int, NEW b \in Int, a <= b + 1, NEW T, IsFiniteSet(T),
         Cardinality(T) = b - a + 1, NEW f \in [a..b -> T],
         \A i, j \in a..b : f[i] = f[j] => i = j
  PROVE  \A t \in T : \E i \in a..b : f[i] = t
<1>1. f \in Injection(a..b, T)
  BY DEF Injection, IsInjective
<1>2. IsFiniteSet(a..b) /\ Cardinality(a..b) = b - a + 1
  BY FS_Interval
<1>3. f \in Surjection(a..b, T)
  BY <1>1, <1>2, FS_Injection
<1> QED BY <1>3 DEF Surjection

\* The other processes.
LEMMA OthersCount ==
  ASSUME NEW m \in Procs
  PROVE  IsFiniteSet(Procs \ {m}) /\ Cardinality(Procs \ {m}) = Size - 1
<1>1. IsFiniteSet(Procs) /\ Cardinality(Procs) = Size
  BY FS_Interval, GroupAssumption DEF Procs
<1> QED BY <1>1, FS_RemoveElement

\* When the master has accepted all workers they are all the other processes.
LEMMA AllWorkers ==
  ASSUME TypeOK, RankExact, QueuesExact, Len(workers) = Size - 1, NEW m \in Procs, rank[m] = 0
  PROVE  /\ ToSet(workers) = Procs \ {m}
         /\ \A q \in Procs : rank[q] = 0 => q = m
<1>1. PICK s \in Seq(Procs) : s = workers
  BY DEF TypeOK
<1>2. Size - 1 \in Nat /\ Len(s) = Size - 1 /\ DOMAIN s = 1..(Size - 1) /\ IsInjective(s)
  BY <1>1, GroupAssumption DEF QueuesExact
<1>3. \A q \in Procs : rank[q] = 0 => q \notin ToSet(s)
  BY <1>1 DEF RankExact
<1>4. s \in [1..(Size - 1) -> Procs \ {m}]
  BY <1>2, <1>3 DEF ToSet
<1>5. \A t \in Procs \ {m} : \E i \in 1..(Size - 1) : s[i] = t
  <2>1. PICK T : T = Procs \ {m}
    OBVIOUS
  <2>b. PICK b \in Nat : b = Size - 1
    BY <1>2
  <2>2. IsFiniteSet(T) /\ Cardinality(T) = b - 1 + 1 /\ s \in [1..b -> T]
    BY <1>2, <1>4, <2>1, <2>b, OthersCount
  <2>3. \A i, j \in 1..b : s[i] = s[j] => i = j
    BY <1>2, <2>b DEF IsInjective
  <2>4. b \in Int /\ 1 \in Int /\ 1 <= b + 1
    OBVIOUS
  <2>5. \A t \in T : \E i \in 1..b : s[i] = t
    BY <2>2, <2>3, <2>4, Onto
  <2> QED BY <2>1, <2>5, <2>b
<1>6. ToSet(s) = Procs \ {m}
  BY <1>2, <1>4, <1>5 DEF ToSet
<1> QED BY <1>1, <1>3, <1>6

-----------------------------------------------------------------------------
(* The creation of the group.                                              *)

\* The rank the master has given does not change any more.
LEMMA AssignedFacts ==
  ASSUME TypeOK, RankExact, NEW p \in Procs
  PROVE  /\ rank[p] = 0 => Assigned(p) = 0
         /\ reply[p] # None => Assigned(p) = reply[p]
         /\ stage[p] \in Meshed => Assigned(p) = rank[p] /\ rank[p] \in Ranks
         /\ p \in ToSet(backlog) => Assigned(p) = -1
<1>1. rank[p] \in Int /\ reply[p] \in Ranks \cup {-2, None} /\ None \notin Int /\ 0 \in Ranks
  BY GroupAssumption DEF TypeOK, Ranks
<1>2. Ranks \subseteq Int
  BY GroupAssumption DEF Ranks
<1> QED BY <1>1, <1>2 DEF RankExact, Assigned

\* A step that leaves the connections alone.
LEMMA MeshSame ==
  ASSUME TypeOK, MeshExact, UNCHANGED <<ranks, mesh, NoPeers>>,
         \A p \in Procs : rank'[p] = rank[p] \/ ranks[p] = NoPeers,
         \A p \in Procs : \/ port_table'[p] = port_table[p] \/ ranks[p] = NoPeers,
         \A p \in Procs : stage'[p] \notin {"mesh", "created"} => ranks[p] = NoPeers,
         \A p \in Procs : stage'[p] = "created" =>
           rank'[p] = rank[p] /\ \A j \in Ranks \ {rank[p]} : ranks[p][j] # None,
         \A x, y \in Procs : Connected(x, y) => Connected(x, y)'
  PROVE  MeshExact'
<1>1. ASSUME NEW p \in Procs
      PROVE  /\ stage'[p] \notin {"mesh", "created"} => ranks'[p] = NoPeers'
             /\ rank'[p] \in Ranks => ranks'[p][rank'[p]] = None
             /\ stage'[p] = "created" => \A j \in Ranks \ {rank'[p]} : ranks'[p][j] # None
             /\ \A j \in Ranks : j < rank'[p] /\ ranks'[p][j] # None => ranks'[p][j] = port_table'[p][j]
             /\ IsInjective(mesh'[p])
  BY DEF MeshExact, NoPeers
<1>2. ASSUME NEW p \in Procs
      PROVE  \A q \in ToSet(mesh'[p]) : Connected(q, p)'
  <2>1. ToSet(mesh[p]) \subseteq Procs
    BY ElementOf DEF TypeOK
  <2> QED BY <2>1 DEF MeshExact
<1>3. ASSUME NEW p \in Procs, NEW x \in Procs, NEW j \in Ranks, j > rank'[p], ranks'[p][j] = x
      PROVE  /\ Connected(x, p)' /\ x \notin ToSet(mesh'[p])
             /\ \A i \in Ranks : i > rank'[p] /\ ranks'[p][i] = x => i = j
  <2>1. rank'[p] = rank[p]
    BY <1>3, GroupAssumption DEF NoPeers, TypeOK, Procs
  <2>2. /\ Connected(x, p) /\ x \notin ToSet(mesh[p])
        /\ \A i \in Ranks : i > rank[p] /\ ranks[p][i] = x => i = j
    BY <1>3, <2>1 DEF MeshExact
  <2> QED BY <2>1, <2>2
<1> QED BY <1>1, <1>2, <1>3 DEF MeshExact

\* A step in which a process only moves on to another stage.
LEMMA MeshStage ==
  ASSUME TypeOK, MeshExact, NEW p \in Procs, NEW l \in Stages, stage' = [stage EXCEPT ![p] = l],
         UNCHANGED <<ranks, mesh, port_table>>,
         \A q \in Procs \ {p} : rank'[q] = rank[q],
         rank'[p] = rank[p] \/ ranks[p] = NoPeers,
         l \notin {"mesh", "created"} => ranks[p] = NoPeers,
         l = "created" => rank'[p] = rank[p] /\ \A j \in Ranks \ {rank[p]} : ranks[p][j] # None,
         \A x, y \in Procs : Connected(x, y) => Connected(x, y)'
  PROVE  MeshExact'
<1>1. NoPeers' = NoPeers
  BY DEF NoPeers
<1>2. stage'[p] = l /\ \A q \in Procs \ {p} : stage'[q] = stage[q]
  BY DEF TypeOK
<1>3. \A q \in Procs : rank'[q] = rank[q] \/ ranks[q] = NoPeers
  OBVIOUS
<1>4. \A q \in Procs : stage'[q] \notin {"mesh", "created"} => ranks[q] = NoPeers
  BY <1>2 DEF MeshExact
<1>5. \A q \in Procs : stage'[q] = "created" =>
        rank'[q] = rank[q] /\ \A j \in Ranks \ {rank[q]} : ranks[q][j] # None
  BY <1>2 DEF MeshExact
<1> QED BY <1>1, <1>3, <1>4, <1>5, MeshSame

\* A process closes its connections, when it fails or closes the group.
LEMMA MeshLeft ==
  ASSUME TypeOK, MeshExact, NEW p \in Procs, NEW l \in {"failed", "closed"},
         stage[p] \in {"mesh", "created"}, stage' = [stage EXCEPT ![p] = l],
         ranks' = [ranks EXCEPT ![p] = NoPeers],
         UNCHANGED <<rank, port_table, reply, mesh>>
  PROVE  MeshExact'
<1>1. /\ ranks'[p] = NoPeers /\ stage'[p] = l
      /\ \A q \in Procs \ {p} : ranks'[q] = ranks[q] /\ stage'[q] = stage[q]
  BY DEF TypeOK
<1>2. \A j \in Ranks : ranks'[p][j] = None
  BY <1>1 DEF NoPeers
<1>3. \A x, y \in Procs : Connected(x, y) => Connected(x, y)'
  BY <1>1 DEF Connected, Assigned, Meshed
<1>4. None \notin Procs
  BY GroupAssumption DEF Procs
<1>5. \A q \in Procs : ToSet(mesh[q]) \subseteq Procs
  BY ElementOf DEF TypeOK
<1>6. ASSUME NEW x \in Procs
      PROVE  /\ stage'[x] \notin {"mesh", "created"} => ranks'[x] = NoPeers
             /\ rank'[x] \in Ranks => ranks'[x][rank'[x]] = None
             /\ stage'[x] = "created" => \A j \in Ranks \ {rank'[x]} : ranks'[x][j] # None
             /\ \A j \in Ranks : j < rank'[x] /\ ranks'[x][j] # None => ranks'[x][j] = port_table'[x][j]
  BY <1>1, <1>2 DEF MeshExact
<1>7. ASSUME NEW x \in Procs
      PROVE  /\ IsInjective(mesh'[x])
             /\ \A q \in ToSet(mesh'[x]) : Connected(q, x)'
  BY <1>3, <1>5 DEF MeshExact
<1>8. ASSUME NEW x \in Procs, NEW q \in Procs, NEW j \in Ranks, j > rank'[x], ranks'[x][j] = q
      PROVE  /\ Connected(q, x)' /\ q \notin ToSet(mesh'[x])
             /\ \A i \in Ranks : i > rank'[x] /\ ranks'[x][i] = q => i = j
  <2>1. x # p
    BY <1>2, <1>4, <1>8
  <2>2. ranks'[x] = ranks[x] /\ rank'[x] = rank[x]
    BY <1>1, <2>1
  <2> QED BY <1>3, <1>8, <2>2 DEF MeshExact
<1>9. NoPeers' = NoPeers
  BY DEF NoPeers
<1> QED BY <1>6, <1>7, <1>8, <1>9 DEF MeshExact

LEMMA WorkerFailStep ==
  ASSUME GroupInv, NEW p \in Procs, WorkerFail(p)
  PROVE  GroupInv'
<1>0. TypeOK /\ RankExact /\ QueuesExact /\ FormedExact /\ TableExact /\ MeshExact
  BY DEF GroupInv
<1>1. /\ stage[p] \in {"worker", "registered"} /\ stage' = [stage EXCEPT ![p] = "failed"]
      /\ p \notin ToSet(workers)
      /\ UNCHANGED <<host, rank, ranks, port_table, master, backlog, workers, reply, mesh>>
  BY <1>0, ElementOf DEF WorkerFail, Enters, RankExact, TypeOK
<1>2. TypeOK'
  BY <1>0, <1>1 DEF TypeOK, Stages
<1>3. RankExact'
  BY <1>0, <1>1 DEF TypeOK, RankExact, Meshed
<1>4. QueuesExact' /\ TableExact'
  BY <1>0, <1>1 DEF QueuesExact, TableExact
<1>5. FormedExact'
  BY <1>0, <1>1 DEF TypeOK, FormedExact, Meshed, NoPeers, RankExact
<1>6. \A x, y \in Procs : Connected(x, y) => Connected(x, y)'
  BY <1>0, <1>1 DEF TypeOK, Connected, Assigned
<1>7. MeshExact'
  <2>1. ranks[p] = NoPeers
    BY <1>0, <1>1 DEF MeshExact
  <2> QED BY <1>0, <1>1, <1>6, <2>1, MeshStage DEF Stages
<1> QED BY <1>2, <1>3, <1>4, <1>5, <1>7 DEF GroupInv

LEMMA WorkerConnectStep ==
  ASSUME GroupInv, NEW p \in Procs, WorkerConnect(p)
  PROVE  GroupInv'
<1>0. TypeOK /\ RankExact /\ QueuesExact /\ FormedExact /\ TableExact /\ MeshExact
  BY DEF GroupInv
<1>1. /\ stage[p] = "worker" /\ stage' = [stage EXCEPT ![p] = "registered"]
      /\ p \notin ToSet(workers) /\ p \notin ToSet(backlog) /\ rank[p] = -1
      /\ UNCHANGED <<host, rank, ranks, port_table, master, workers, reply, mesh>>
  BY <1>0 DEF WorkerConnect, Enters, RankExact
<1>b. /\ backlog' \in Seq(Procs) /\ IsInjective(backlog')
      /\ \A x : x \in ToSet(backlog') <=> x \in ToSet(backlog) \/ x = p
  <2>s. PICK s \in Seq(Procs) : s = backlog
    BY <1>0 DEF TypeOK
  <2>t. PICK t : t = Append(s, p)
    OBVIOUS
  <2>1. backlog' = t /\ IsInjective(s) /\ p \notin ToSet(s)
    BY <1>0, <1>1, <2>s, <2>t DEF WorkerConnect, QueuesExact
  <2>2. t \in Seq(Procs) /\ IsInjective(t) /\ \A x : x \in ToSet(t) <=> x \in ToSet(s) \/ x = p
    BY <2>1, <2>t, AppendNew
  <2> QED BY <2>1, <2>2, <2>s
<1>2. TypeOK'
  BY <1>0, <1>1, <1>b DEF TypeOK, Stages
<1>3. RankExact'
  BY <1>0, <1>1, <1>b DEF TypeOK, RankExact, Meshed
<1>4. QueuesExact' /\ TableExact'
  BY <1>0, <1>1, <1>b DEF QueuesExact, TableExact
<1>5. FormedExact'
  BY <1>0, <1>1 DEF TypeOK, FormedExact, Meshed, NoPeers, RankExact
<1>6. \A x, y \in Procs : Connected(x, y) => Connected(x, y)'
  BY <1>0, <1>1 DEF TypeOK, Connected, Assigned, Meshed
<1>7. MeshExact'
  <2>1. ranks[p] = NoPeers
    BY <1>0, <1>1 DEF MeshExact
  <2> QED BY <1>0, <1>1, <1>6, <2>1, MeshStage DEF Stages
<1> QED BY <1>2, <1>3, <1>4, <1>5, <1>7 DEF GroupInv

LEMMA WorkerRankStep ==
  ASSUME GroupInv, NEW p \in Procs, WorkerRank(p)
  PROVE  GroupInv'
<1>0. TypeOK /\ RankExact /\ QueuesExact /\ FormedExact /\ TableExact /\ MeshExact
  BY DEF GroupInv
<1>1. /\ stage[p] = "registered" /\ reply[p] \in Ranks \cup {-2} /\ reply[p] \in Int /\ reply[p] # 0
      /\ stage' = [stage EXCEPT ![p] = IF reply[p] < 0 THEN "failed" ELSE "ranked"]
      /\ rank' = [rank EXCEPT ![p] = reply[p]] /\ rank[p] = -1 /\ p \in ToSet(workers)
      /\ UNCHANGED <<host, ranks, port_table, master, backlog, workers, reply, mesh>>
  BY <1>0, GroupAssumption DEF WorkerRank, Enters, RankExact, TypeOK, Ranks
<1>2. TypeOK'
  BY <1>0, <1>1 DEF TypeOK, Stages
<1>3. RankExact'
  BY <1>0, <1>1, GroupAssumption DEF TypeOK, RankExact, Meshed, Ranks
<1>4. QueuesExact'
  BY <1>0, <1>1 DEF QueuesExact, TypeOK
<1>t. TableExact'
  <2>1. \A q \in Procs : rank'[q] = 0 <=> rank[q] = 0
    BY <1>0, <1>1 DEF TypeOK
  <2> QED BY <1>0, <1>1, <2>1 DEF TableExact
<1>5. FormedExact'
  BY <1>0, <1>1 DEF TypeOK, FormedExact, Meshed, NoPeers, RankExact
<1>6. \A x, y \in Procs : Connected(x, y) => Connected(x, y)'
  BY <1>0, <1>1, GroupAssumption DEF TypeOK, Connected, Assigned, Meshed
<1>7. MeshExact'
  <2>l. PICK l \in Stages : l = IF reply[p] < 0 THEN "failed" ELSE "ranked"
    BY DEF Stages
  <2>1. ranks[p] = NoPeers /\ l # "created"
    BY <1>0, <1>1, <2>l DEF MeshExact
  <2>2. \A q \in Procs \ {p} : rank'[q] = rank[q]
    BY <1>0, <1>1 DEF TypeOK
  <2> QED BY <1>0, <1>1, <1>6, <2>1, <2>2, <2>l, MeshStage
<1> QED BY <1>2, <1>3, <1>4, <1>t, <1>5, <1>7 DEF GroupInv

LEMMA WorkerTableStep ==
  ASSUME GroupInv, NEW p \in Procs, WorkerTable(p)
  PROVE  GroupInv'
<1>0. TypeOK /\ RankExact /\ QueuesExact /\ FormedExact /\ TableExact /\ MeshExact
  BY DEF GroupInv
<1>1. /\ stage[p] = "ranked" /\ stage' = [stage EXCEPT ![p] = "mesh"] /\ port_table[p] # NoPeers
      /\ UNCHANGED <<host, rank, ranks, port_table, master, backlog, workers, reply, mesh>>
  BY <1>0 DEF WorkerTable, Enters
<1>2. TypeOK'
  BY <1>0, <1>1 DEF TypeOK, Stages
<1>3. RankExact'
  BY <1>0, <1>1 DEF TypeOK, RankExact, Meshed
<1>4. QueuesExact' /\ TableExact'
  BY <1>0, <1>1 DEF QueuesExact, TableExact
<1>5. FormedExact'
  BY <1>0, <1>1 DEF TypeOK, FormedExact, Meshed, NoPeers, RankExact
<1>6. \A x, y \in Procs : Connected(x, y) => Connected(x, y)'
  BY <1>0, <1>1 DEF TypeOK, Connected, Assigned, Meshed
<1>7. MeshExact'
  <2>1. ranks[p] = NoPeers
    BY <1>0, <1>1 DEF MeshExact
  <2> QED BY <1>0, <1>1, <1>6, <2>1, MeshStage DEF Stages
<1> QED BY <1>2, <1>3, <1>4, <1>5, <1>7 DEF GroupInv

LEMMA MeshDoneStep ==
  ASSUME GroupInv, NEW p \in Procs, MeshDone(p)
  PROVE  GroupInv'
<1>0. TypeOK /\ RankExact /\ QueuesExact /\ FormedExact /\ TableExact /\ MeshExact
  BY DEF GroupInv
<1>1. /\ stage[p] = "mesh" /\ stage' = [stage EXCEPT ![p] = "created"]
      /\ \A j \in Ranks \ {rank[p]} : ranks[p][j] # None
      /\ UNCHANGED <<host, rank, ranks, port_table, master, backlog, workers, reply, mesh>>
  BY <1>0 DEF MeshDone, Enters, MeshNext
<1>2. TypeOK'
  BY <1>0, <1>1 DEF TypeOK, Stages
<1>3. RankExact'
  BY <1>0, <1>1 DEF TypeOK, RankExact, Meshed
<1>4. QueuesExact' /\ TableExact'
  BY <1>0, <1>1 DEF QueuesExact, TableExact
<1>5. FormedExact'
  BY <1>0, <1>1 DEF TypeOK, FormedExact, Meshed, NoPeers, RankExact
<1>6. \A x, y \in Procs : Connected(x, y) => Connected(x, y)'
  BY <1>0, <1>1 DEF TypeOK, Connected, Assigned, Meshed
<1>7. MeshExact'
  BY <1>0, <1>1, <1>6, MeshStage DEF Stages
<1> QED BY <1>2, <1>3, <1>4, <1>5, <1>7 DEF GroupInv

LEMMA MasterTimeoutStep ==
  ASSUME GroupInv, NEW p \in Procs, MasterTimeout(p)
  PROVE  GroupInv'
<1>0. TypeOK /\ RankExact /\ QueuesExact /\ FormedExact /\ TableExact /\ MeshExact
  BY DEF GroupInv
<1>1. /\ stage[p] = "master" /\ stage' = [stage EXCEPT ![p] = "failed"] /\ master' = None
      /\ None \notin Procs
      /\ UNCHANGED <<host, rank, ranks, port_table, backlog, workers, reply, mesh>>
  BY <1>0, GroupAssumption DEF MasterTimeout, Enters, Procs
<1>2. TypeOK'
  BY <1>0, <1>1 DEF TypeOK, Stages
<1>3. RankExact'
  BY <1>0, <1>1 DEF TypeOK, RankExact, Meshed
<1>4. QueuesExact' /\ TableExact'
  BY <1>0, <1>1 DEF QueuesExact, TableExact
<1>5. FormedExact'
  BY <1>0, <1>1 DEF TypeOK, FormedExact, Meshed, NoPeers, RankExact
<1>6. \A x, y \in Procs : Connected(x, y) => Connected(x, y)'
  BY <1>0, <1>1 DEF TypeOK, Connected, Assigned, Meshed
<1>7. MeshExact'
  <2>1. ranks[p] = NoPeers
    BY <1>0, <1>1 DEF MeshExact
  <2> QED BY <1>0, <1>1, <1>6, <2>1, MeshStage DEF Stages
<1> QED BY <1>2, <1>3, <1>4, <1>5, <1>7 DEF GroupInv

\* Nobody is in the mesh phase before there is a master.
LEMMA NotFormed ==
  ASSUME GroupInv, NEW p \in Procs, stage[p] = "out"
  PROVE  \A q \in Procs : /\ stage[q] \notin Meshed
                          /\ rank[q] # 0 => port_table[q] = NoPeers
<1>0. TypeOK /\ RankExact /\ QueuesExact /\ FormedExact
  BY DEF GroupInv
<1>1. p \notin ToSet(workers) /\ rank[p] = -1
  BY <1>0 DEF RankExact
<1>2. ASSUME NEW m \in Procs, rank[m] = 0, Len(workers) = Size - 1 PROVE FALSE
  BY <1>0, <1>1, <1>2, AllWorkers
<1>3. ASSUME NEW q \in Procs, q \in ToSet(workers) PROVE \E m \in Procs : rank[m] = 0
  <2>1. workers # <<>>
    BY <1>3 DEF ToSet
  <2> QED BY <1>0, <2>1 DEF QueuesExact
<1>4. ASSUME NEW q \in Procs, stage[q] \in Meshed PROVE FALSE
  <2>1. Len(workers) = Size - 1
    BY <1>0, <1>4 DEF FormedExact
  <2>2. rank[q] = 0 \/ q \in ToSet(workers)
    BY <1>0, <1>4, GroupAssumption DEF RankExact, TypeOK
  <2> QED BY <1>2, <1>3, <1>4, <2>1, <2>2
<1>5. ASSUME NEW q \in Procs, rank[q] # 0, port_table[q] # NoPeers PROVE FALSE
  BY <1>0, <1>2, <1>3, <1>5 DEF FormedExact
<1> QED BY <1>4, <1>5

LEMMA CreateStepInv ==
  ASSUME GroupInv, NEW p \in Procs, Create(p)
  PROVE  GroupInv'
<1>0. TypeOK /\ RankExact /\ QueuesExact /\ FormedExact /\ TableExact /\ MeshExact
  BY DEF GroupInv
<1>n. \A q \in Procs : stage[q] \notin Meshed /\ (rank[q] # 0 => port_table[q] = NoPeers)
  BY NotFormed DEF Create, Enters
<1>r. 0 \in Ranks /\ None \notin Procs
  BY GroupAssumption DEF Ranks, Procs
<1>1. CASE host[p] = Hostnames[0] /\ master = None
  <2>1. /\ stage[p] = "out" /\ stage' = [stage EXCEPT ![p] = "master"] /\ master' = p
        /\ rank' = [rank EXCEPT ![p] = 0] /\ rank[p] = -1 /\ reply[p] = None
        /\ port_table' = [port_table EXCEPT ![p] = [port_table[p] EXCEPT ![0] = p]]
        /\ p \notin ToSet(workers) /\ p \notin ToSet(backlog)
        /\ UNCHANGED <<host, ranks, backlog, workers, reply, mesh>>
    BY <1>0, <1>1 DEF Create, Enters, RankExact
  <2>p. /\ port_table'[p][0] = p /\ \A r \in Ranks \ {0} : port_table'[p][r] = None
        /\ \A q \in Procs \ {p} : port_table'[q] = port_table[q] /\ rank'[q] = rank[q]
        /\ rank'[p] = 0 /\ stage'[p] = "master" /\ \A q \in Procs \ {p} : stage'[q] = stage[q]
    <3>1. \A q \in Procs \ {p} : stage'[q] = stage[q] /\ rank'[q] = rank[q]
      BY <1>0, <2>1 DEF TypeOK
    <3>2. \A q \in Procs \ {p} : port_table'[q] = port_table[q]
      BY <1>0, <2>1 DEF TypeOK
    <3>3. rank'[p] = 0 /\ stage'[p] = "master"
      BY <1>0, <2>1 DEF TypeOK
    <3>4. port_table[p] = NoPeers /\ port_table'[p] = [port_table[p] EXCEPT ![0] = p]
      BY <1>0, <1>n, <2>1 DEF TypeOK
    <3>5. port_table'[p][0] = p /\ \A r \in Ranks \ {0} : port_table'[p][r] = None
      BY <1>r, <3>4 DEF NoPeers
    <3> QED BY <3>1, <3>2, <3>3, <3>5
  <2>2. TypeOK'
    BY <1>0, <1>r, <2>1 DEF TypeOK, Stages
  <2>3. RankExact'
    BY <1>0, <1>1, <1>r, <2>1, <2>p DEF RankExact, Meshed
  <2>4. QueuesExact'
    BY <1>0, <2>1, <2>p DEF QueuesExact
  <2>5. FormedExact'
    BY <1>n, <2>1, <2>p DEF FormedExact, Meshed, NoPeers
  <2>6. TableExact'
    <3>1. ASSUME NEW m \in Procs, m # p, rank[m] = 0
          PROVE  ~ \A q \in Procs : rank'[q] = 0 => q = m
      BY <3>1, <2>p
    <3>2. ASSUME NEW w \in ToSet(workers), \A q \in Procs : rank'[q] = 0 => q = p PROVE FALSE
      <4>1. workers # <<>>
        BY <3>2 DEF ToSet
      <4>2. PICK m \in Procs : rank[m] = 0
        BY <1>0, <4>1 DEF QueuesExact
      <4> QED BY <2>1, <2>p, <3>2, <4>2
    <3>3. ASSUME NEW m \in Procs, rank'[m] = 0, m # p
          PROVE  /\ port_table'[m][0] = m /\ host'[m] = Hostnames[0]
                 /\ \A r \in Ranks \ {0} : port_table'[m][r] # None =>
                      /\ port_table'[m][r] \in ToSet(workers') /\ reply'[port_table'[m][r]] = r
                      /\ host'[port_table'[m][r]] = Hostnames[r]
      BY <1>0, <2>1, <2>p, <3>3 DEF TableExact
    <3> QED BY <1>1, <2>1, <2>p, <3>1, <3>2, <3>3 DEF TableExact
  <2>7. \A x, y \in Procs : Connected(x, y) => Connected(x, y)'
    <3>1. Assigned(p) = -1 /\ -1 \notin Ranks
      BY <2>1, GroupAssumption DEF Assigned, Ranks
    <3>2. \A x \in Procs : x # p => Assigned(x)' = Assigned(x)
      BY <2>1, <2>p DEF Assigned
    <3> QED BY <2>1, <2>p, <3>1, <3>2 DEF Connected
  <2>8. MeshExact'
    <3>1. ranks[p] = NoPeers /\ NoPeers' = NoPeers
      BY <1>0, <2>1 DEF MeshExact, NoPeers
    <3>2. /\ \A q \in Procs : rank'[q] = rank[q] \/ ranks[q] = NoPeers
          /\ \A q \in Procs : port_table'[q] = port_table[q] \/ ranks[q] = NoPeers
          /\ \A q \in Procs : stage'[q] \notin {"mesh", "created"} => ranks[q] = NoPeers
      BY <1>0, <2>p, <3>1 DEF MeshExact
    <3>3. \A q \in Procs : stage'[q] # "created"
      BY <1>n, <2>p DEF Meshed
    <3> QED BY <1>0, <2>1, <2>7, <3>1, <3>2, <3>3, MeshSame
  <2> QED BY <2>2, <2>3, <2>4, <2>5, <2>6, <2>8 DEF GroupInv
<1>2. CASE ~(host[p] = Hostnames[0] /\ master = None)
  <2>1. /\ stage[p] = "out" /\ stage' = [stage EXCEPT ![p] = "worker"]
        /\ UNCHANGED <<host, rank, ranks, port_table, master, backlog, workers, reply, mesh>>
    BY <1>0, <1>2 DEF Create, Enters
  <2>2. TypeOK'
    BY <1>0, <2>1 DEF TypeOK, Stages
  <2>3. RankExact'
    BY <1>0, <2>1 DEF TypeOK, RankExact, Meshed
  <2>4. QueuesExact' /\ TableExact'
    BY <1>0, <2>1 DEF QueuesExact, TableExact
  <2>5. FormedExact'
    BY <1>0, <2>1 DEF TypeOK, FormedExact, Meshed, NoPeers, RankExact
  <2>6. \A x, y \in Procs : Connected(x, y) => Connected(x, y)'
    BY <1>0, <2>1 DEF TypeOK, Connected, Assigned, Meshed
  <2>7. MeshExact'
    <3>1. ranks[p] = NoPeers
      BY <1>0, <2>1 DEF MeshExact
    <3> QED BY <1>0, <2>1, <2>6, <3>1, MeshStage DEF Stages
  <2> QED BY <2>2, <2>3, <2>4, <2>5, <2>7 DEF GroupInv
<1> QED BY <1>1, <1>2

LEMMA GroupCloseStep ==
  ASSUME GroupInv, NEW p \in Procs, GroupClose(p)
  PROVE  GroupInv'
<1>0. TypeOK /\ RankExact /\ QueuesExact /\ FormedExact /\ TableExact /\ MeshExact
  BY DEF GroupInv
<1>1. /\ stage[p] = "created" /\ stage' = [stage EXCEPT ![p] = "closed"]
      /\ ranks' = [ranks EXCEPT ![p] = NoPeers]
      /\ UNCHANGED <<host, rank, port_table, master, backlog, workers, reply, mesh>>
  BY <1>0 DEF GroupClose, Enters
<1>n. None \notin Procs
  BY GroupAssumption DEF Procs
<1>2. TypeOK'
  BY <1>0, <1>1 DEF TypeOK, Stages, NoPeers
<1>3. RankExact'
  BY <1>0, <1>1 DEF TypeOK, RankExact, Meshed
<1>4. QueuesExact' /\ TableExact'
  BY <1>0, <1>1 DEF QueuesExact, TableExact
<1>5. FormedExact'
  BY <1>0, <1>1 DEF TypeOK, FormedExact, Meshed, NoPeers, RankExact
<1>7. MeshExact'
  BY <1>0, <1>1, MeshLeft
<1> QED BY <1>2, <1>3, <1>4, <1>5, <1>7 DEF GroupInv

LEMMA MasterAcceptStep ==
  ASSUME GroupInv, NEW p \in Procs, MasterAccept(p)
  PROVE  GroupInv'
<1>0. TypeOK /\ RankExact /\ QueuesExact /\ FormedExact /\ TableExact /\ MeshExact
  BY DEF GroupInv
<1>r. None \notin Int /\ Ranks \subseteq Int /\ None \notin Procs /\ 0 \in Ranks /\ -2 \notin Ranks
  BY GroupAssumption DEF Ranks, Procs
<1>w. PICK w : w = Head(backlog)
  OBVIOUS
<1>s. PICK slots : slots = FreeSlots(p, w)
  OBVIOUS
<1>v. PICK v : v = IF slots = {} THEN -2 ELSE Min(slots)
  OBVIOUS
<1>1. /\ stage[p] = "master" /\ rank[p] = 0 /\ Len(workers) < Size - 1 /\ backlog # <<>>
      /\ workers' = Append(workers, w) /\ reply' = [reply EXCEPT ![w] = v]
      /\ backlog' = Tail(backlog)
      /\ port_table' = IF slots = {} THEN port_table
                       ELSE [port_table EXCEPT ![p] = [port_table[p] EXCEPT ![v] = w]]
      /\ UNCHANGED <<host, stage, rank, ranks, master, mesh>>
  BY <1>0, <1>w, <1>s, <1>v DEF MasterAccept, RankExact
<1>b. /\ backlog' \in Seq(Procs) /\ w \in Procs /\ w \in ToSet(backlog) /\ IsInjective(backlog')
      /\ \A x : x \in ToSet(backlog') <=> x \in ToSet(backlog) /\ x # w
  <2>s. PICK s \in Seq(Procs) : s = backlog
    BY <1>0 DEF TypeOK
  <2>t. PICK t : t = Tail(s)
    OBVIOUS
  <2>1. backlog' = t /\ IsInjective(s) /\ s # <<>> /\ w = Head(s)
    BY <1>0, <1>1, <1>w, <2>s, <2>t DEF QueuesExact
  <2>2. /\ t \in Seq(Procs) /\ Head(s) \in Procs /\ Head(s) \in ToSet(s) /\ IsInjective(t)
        /\ \A x : x \in ToSet(t) <=> x \in ToSet(s) /\ x # Head(s)
    BY <2>1, <2>t, TailRest
  <2> QED BY <2>1, <2>2, <2>s
<1>2. /\ w \notin ToSet(workers) /\ reply[w] = None /\ rank[w] = -1 /\ w # p
      /\ stage[w] \in {"registered", "failed"}
  BY <1>0, <1>1, <1>b DEF RankExact
<1>c. /\ workers' \in Seq(Procs) /\ IsInjective(workers') /\ workers' # <<>>
      /\ \A x : x \in ToSet(workers') <=> x \in ToSet(workers) \/ x = w
  <2>s. PICK s \in Seq(Procs) : s = workers
    BY <1>0 DEF TypeOK
  <2>e. PICK e \in Procs : e = w
    BY <1>b
  <2>t. PICK t : t = Append(s, e)
    OBVIOUS
  <2>1. workers' = t /\ IsInjective(s) /\ w \notin ToSet(s)
    BY <1>0, <1>1, <1>2, <2>s, <2>t, <2>e DEF QueuesExact
  <2>2. e \notin ToSet(s)
    BY <2>1, <2>e
  <2>5. IsInjective(s)
    BY <2>1
  <2>6. IsInjective(t)
    BY <2>2, <2>5, <2>t, AppendNew
  <2>7. t \in Seq(Procs)
    BY <2>t, AppendNew
  <2>3. \A x : x \in ToSet(t) <=> x \in ToSet(s) \/ x = e
    BY <2>1, <2>2, <2>7, <2>t, AppendNew
  <2>4. t # <<>>
    BY <2>t, AppendNew
  <2> QED BY <2>1, <2>3, <2>4, <2>6, <2>7, <2>s, <2>e
<1>3. /\ slots = {} => v = -2
      /\ slots # {} => v \in Ranks \ {0} /\ port_table[p][v] = None /\ Hostnames[v] = host[w]
  <2>1. slots \subseteq Ranks \ {0} /\ \A x \in slots : port_table[p][x] = None /\ Hostnames[x] = host[w]
    BY <1>s DEF FreeSlots
  <2>2. slots # {} => Min(slots) \in slots
    BY <2>1, MinOf
  <2> QED BY <1>v, <2>1, <2>2
<1>4. v \in Ranks \cup {-2} /\ v # 0 /\ v # None /\ reply'[w] = v
      /\ \A x \in Procs \ {w} : reply'[x] = reply[x]
  <2>1. v \in Ranks \cup {-2} /\ v # 0 /\ v \in Int
    <3>1. CASE slots = {}
      <4>1. v = -2
        BY <1>3, <3>1
      <4> QED BY <4>1
    <3>2. CASE slots # {}
      <4>1. v \in Ranks \ {0}
        BY <1>3, <3>2
      <4> QED BY <1>r, <4>1
    <3> QED BY <3>1, <3>2
  <2>2. reply'[w] = v /\ \A x \in Procs \ {w} : reply'[x] = reply[x]
    BY <1>0, <1>1, <1>b DEF TypeOK
  <2> QED BY <1>r, <2>1, <2>2
<1>5. /\ \A x \in Procs \ {p} : port_table'[x] = port_table[x]
      /\ slots = {} => port_table'[p] = port_table[p]
      /\ slots # {} => port_table'[p] = [port_table[p] EXCEPT ![v] = w]
  BY <1>0, <1>1 DEF TypeOK
<1>6. TypeOK'
  <2>1. reply' \in [Procs -> Ranks \cup {-2, None}]
    BY <1>0, <1>1, <1>4 DEF TypeOK
  <2>2. port_table' \in [Procs -> [Ranks -> Procs \cup {None}]]
    BY <1>0, <1>1, <1>3, <1>b DEF TypeOK
  <2> QED BY <1>0, <1>1, <1>b, <1>c, <2>1, <2>2 DEF TypeOK
<1>7. RankExact'
  BY <1>0, <1>1, <1>2, <1>4, <1>b, <1>c DEF RankExact, Meshed
<1>8. QueuesExact'
  BY <1>0, <1>1, <1>b, <1>c DEF QueuesExact
<1>n. \A x \in Procs : stage[x] \notin Meshed /\ (rank[x] # 0 => port_table[x] = NoPeers)
  BY <1>0, <1>1 DEF FormedExact
<1>9. FormedExact'
  BY <1>1, <1>5, <1>n DEF FormedExact, NoPeers
<1>10. TableExact'
  <2>1. ASSUME NEW m \in Procs, rank[m] = 0
        PROVE  port_table'[m][0] = m /\ host'[m] = Hostnames[0]
    BY <1>0, <1>1, <1>3, <1>5, <1>r, <2>1 DEF TableExact, TypeOK
  <2>2. ASSUME NEW m \in Procs, rank[m] = 0, NEW r \in Ranks \ {0}, port_table'[m][r] # None
        PROVE  /\ port_table'[m][r] \in ToSet(workers') /\ reply'[port_table'[m][r]] = r
               /\ host'[port_table'[m][r]] = Hostnames[r]
    <3>1. CASE m = p /\ slots # {} /\ r = v
      <4>1. port_table'[m][r] = w
        BY <1>0, <1>5, <3>1 DEF TypeOK
      <4> QED BY <1>1, <1>3, <1>4, <1>c, <3>1, <4>1
    <3>2. CASE ~(m = p /\ slots # {} /\ r = v)
      <4>1. port_table'[m][r] = port_table[m][r]
        BY <1>0, <1>5, <3>2 DEF TypeOK
      <4>x. PICK x \in Procs : x = port_table[m][r]
        BY <1>0, <2>2, <4>1 DEF TypeOK
      <4>2. x \in ToSet(workers) /\ reply[x] = r /\ host[x] = Hostnames[r]
        BY <1>0, <2>2, <4>1, <4>x DEF TableExact
      <4>3. x # w
        BY <1>2, <4>2
      <4> QED BY <1>1, <1>4, <1>c, <4>1, <4>2, <4>3, <4>x
    <3> QED BY <3>1, <3>2
  <2>3. ASSUME NEW m \in Procs, rank[m] = 0, \A q \in Procs : rank[q] = 0 => q = m,
               NEW x \in ToSet(workers'), reply'[x] \in Ranks
        PROVE  port_table'[m][reply'[x]] = x
    <3>1. m = p
      BY <1>1, <2>3
    <3>2. CASE x = w
      <4>1. reply'[x] = v /\ v \in Ranks /\ slots # {}
        BY <1>3, <1>4, <1>r, <2>3, <3>2
      <4>2. port_table'[p] = [port_table[p] EXCEPT ![v] = w] /\ port_table[p] \in [Ranks -> Procs \cup {None}]
        BY <1>0, <1>5, <4>1 DEF TypeOK
      <4> QED BY <3>1, <3>2, <4>1, <4>2
    <3>3. CASE x # w
      <4>1. x \in ToSet(workers) /\ x \in Procs /\ reply'[x] = reply[x]
        BY <1>0, <1>4, <1>c, <3>3, ElementOf DEF TypeOK
      <4>2. port_table[m][reply[x]] = x
        BY <1>0, <2>3, <4>1 DEF TableExact
      <4>3. slots # {} => reply[x] # v
        BY <1>3, <1>r, <3>1, <4>1, <4>2
      <4> QED BY <1>0, <1>5, <2>3, <3>1, <4>1, <4>2, <4>3 DEF TypeOK
    <3> QED BY <3>2, <3>3
  <2> QED BY <1>1, <2>1, <2>2, <2>3 DEF TableExact
<1>11. \A x, y \in Procs : Connected(x, y) => Connected(x, y)'
  <2>1. Assigned(w) = -1 /\ -1 \notin Ranks
    BY <1>2, GroupAssumption DEF Assigned, Ranks
  <2>2. \A x \in Procs : x # w => Assigned(x)' = Assigned(x)
    BY <1>1, <1>4 DEF Assigned
  <2> QED BY <1>1, <2>1, <2>2 DEF Connected
<1>12. MeshExact'
  <2>1. ranks[p] = NoPeers /\ NoPeers' = NoPeers
    BY <1>0, <1>1 DEF MeshExact, NoPeers
  <2>2. /\ \A q \in Procs : port_table'[q] = port_table[q] \/ ranks[q] = NoPeers
        /\ \A q \in Procs : stage'[q] \notin {"mesh", "created"} => ranks[q] = NoPeers
        /\ \A q \in Procs : stage'[q] # "created"
    BY <1>0, <1>1, <1>5, <1>n, <2>1 DEF MeshExact, Meshed
  <2> QED BY <1>0, <1>1, <1>11, <2>1, <2>2, MeshSame
<1> QED BY <1>6, <1>7, <1>8, <1>9, <1>10, <1>12 DEF GroupInv

LEMMA MasterSendStep ==
  ASSUME GroupInv, NEW p \in Procs, MasterSend(p)
  PROVE  GroupInv'
<1>0. TypeOK /\ RankExact /\ QueuesExact /\ FormedExact /\ TableExact /\ MeshExact
  BY DEF GroupInv
<1>1. /\ stage[p] = "master" /\ rank[p] = 0 /\ Len(workers) = Size - 1
      /\ stage' = [stage EXCEPT ![p] = "mesh"] /\ master' = None
      /\ port_table' = [q \in Procs |-> IF Contains(workers, q) THEN port_table[p] ELSE port_table[q]]
      /\ UNCHANGED <<host, rank, ranks, backlog, workers, reply, mesh>>
  BY <1>0 DEF MasterSend, Enters, RankExact
<1>r. None \notin Procs /\ 0 \in Ranks
  BY GroupAssumption DEF Ranks, Procs
<1>2. ToSet(workers) = Procs \ {p} /\ \A q \in Procs : rank[q] = 0 => q = p
  BY <1>0, <1>1, AllWorkers
<1>3. \A q \in Procs : Contains(workers, q) <=> q \in ToSet(workers)
  BY <1>0, ElementOf DEF TypeOK
<1>4. \A q \in Procs : port_table'[q] = port_table[p]
  BY <1>1, <1>2, <1>3
<1>5. port_table[p] # NoPeers
  BY <1>0, <1>1, <1>r DEF TableExact, NoPeers
<1>6. TypeOK'
  <2>1. port_table' \in [Procs -> [Ranks -> Procs \cup {None}]]
    BY <1>0, <1>1 DEF TypeOK
  <2> QED BY <1>0, <1>1, <2>1 DEF TypeOK, Stages
<1>7. RankExact'
  BY <1>0, <1>1, <1>r DEF TypeOK, RankExact, Meshed
<1>8. QueuesExact'
  BY <1>0, <1>1 DEF QueuesExact
<1>9. FormedExact'
  <2>1. \A q \in Procs : q = p => stage'[q] = "mesh"
    BY <1>0, <1>1 DEF TypeOK
  <2>2. NoPeers' = NoPeers
    BY DEF NoPeers
  <2> QED BY <1>1, <1>2, <1>4, <1>5, <2>1, <2>2 DEF FormedExact
<1>10. TableExact'
  BY <1>0, <1>1, <1>2, <1>4 DEF TableExact
<1>11. \A x, y \in Procs : Connected(x, y) => Connected(x, y)'
  BY <1>0, <1>1 DEF TypeOK, Connected, Assigned, Meshed
<1>12. MeshExact'
  <2>1. \A q \in Procs : stage[q] \notin Meshed
    <3>1. ASSUME NEW q \in Procs, stage[q] \in Meshed PROVE FALSE
      <4>1. port_table[q] # NoPeers /\ q # p
        BY <1>0, <1>1, <3>1 DEF FormedExact, Meshed
      <4>2. rank[q] # 0
        BY <1>2, <4>1
      <4> QED BY <1>0, <1>1, <4>1, <4>2 DEF FormedExact
    <3> QED BY <3>1
  <2>2. /\ \A q \in Procs : ranks[q] = NoPeers
        /\ \A q \in Procs : stage'[q] # "created"
    BY <1>0, <1>1, <2>1 DEF MeshExact, Meshed, TypeOK
  <2>3. NoPeers' = NoPeers
    BY DEF NoPeers
  <2> QED BY <1>0, <1>1, <1>11, <2>2, <2>3, MeshSame
<1> QED BY <1>6, <1>7, <1>8, <1>9, <1>10, <1>12 DEF GroupInv

\* In the mesh phase the table of ports holds the processes at their ranks.
LEMMA FormedTable ==
  ASSUME GroupInv, NEW p \in Procs, stage[p] \in Meshed
  PROVE  /\ \A x \in Procs : Assigned(x) \in Ranks =>
              port_table[p][Assigned(x)] = x /\ host[x] = Hostnames[Assigned(x)]
         /\ \A j \in Ranks : port_table[p][j] # None =>
              port_table[p][j] \in Procs /\ Assigned(port_table[p][j]) = j
         /\ Len(workers) = Size - 1 /\ \E m \in Procs : rank[m] = 0
<1>0. TypeOK /\ RankExact /\ QueuesExact /\ FormedExact /\ TableExact
  BY DEF GroupInv
<1>r. None \notin Int /\ Ranks \subseteq Int /\ None \notin Procs /\ 0 \in Ranks /\ -2 \notin Ranks
  BY GroupAssumption DEF Ranks, Procs
<1>1. Len(workers) = Size - 1 /\ port_table[p] # NoPeers
  BY <1>0 DEF FormedExact
<1>2. \E m \in Procs : rank[m] = 0
  <2>1. CASE rank[p] # 0
    <3>1. p \in ToSet(workers)
      BY <1>0, <1>1, <2>1 DEF FormedExact
    <3>2. workers # <<>>
      BY <3>1 DEF ToSet
    <3> QED BY <1>0, <3>2 DEF QueuesExact
  <2> QED BY <2>1
<1>m. PICK m \in Procs : rank[m] = 0
  BY <1>2
<1>3. ToSet(workers) = Procs \ {m} /\ \A q \in Procs : rank[q] = 0 => q = m
  BY <1>0, <1>1, <1>m, AllWorkers
<1>4. port_table[p] = port_table[m]
  BY <1>0, <1>1, <1>3, <1>m DEF FormedExact
<1>5. Assigned(m) = 0 /\ port_table[m][0] = m /\ host[m] = Hostnames[0]
  BY <1>0, <1>m, AssignedFacts DEF TableExact
<1>6. \A x \in Procs \ {m} : Assigned(x) = reply[x] /\ reply[x] # 0
  <2>1. \A x \in Procs \ {m} : reply[x] # None /\ reply[x] # 0
    BY <1>0, <1>3 DEF RankExact
  <2> QED BY <1>0, <2>1, AssignedFacts
<1>7. ASSUME NEW x \in Procs, Assigned(x) \in Ranks
      PROVE  port_table[m][Assigned(x)] = x /\ host[x] = Hostnames[Assigned(x)]
  <2>1. CASE x = m
    BY <1>5, <2>1
  <2>2. CASE x # m
    <3>1. x \in ToSet(workers) /\ Assigned(x) = reply[x] /\ reply[x] \in Ranks \ {0}
      BY <1>3, <1>6, <1>7, <2>2
    <3>2. port_table[m][reply[x]] = x
      BY <1>0, <1>3, <1>m, <3>1 DEF TableExact
    <3>3. PICK k \in Ranks \ {0} : k = reply[x]
      BY <3>1
    <3>4. port_table[m][k] = x /\ port_table[m][k] # None
      BY <1>r, <3>2, <3>3
    <3>5. host[x] = Hostnames[k]
      BY <1>0, <1>m, <3>4 DEF TableExact
    <3> QED BY <3>1, <3>2, <3>3, <3>5
  <2> QED BY <2>1, <2>2
<1>8. ASSUME NEW j \in Ranks, port_table[m][j] # None
      PROVE  port_table[m][j] \in Procs /\ Assigned(port_table[m][j]) = j
  <2>x. PICK x \in Procs : x = port_table[m][j]
    BY <1>0, <1>8 DEF TypeOK
  <2>1. CASE j = 0
    BY <1>5, <2>1
  <2>2. CASE j # 0
    <3>1. x \in ToSet(workers) /\ reply[x] = j
      BY <1>0, <1>8, <1>m, <2>2, <2>x DEF TableExact
    <3> QED BY <1>3, <1>6, <2>x, <3>1
  <2> QED BY <2>1, <2>2
<1> QED BY <1>1, <1>2, <1>4, <1>7, <1>8

\* A process gives up in the mesh phase.
LEMMA MeshFailStep ==
  ASSUME GroupInv, NEW p \in Procs, stage[p] = "mesh",
         stage' = [stage EXCEPT ![p] = "failed"], ranks' = [ranks EXCEPT ![p] = NoPeers],
         UNCHANGED <<host, rank, port_table, master, backlog, workers, reply, mesh>>
  PROVE  GroupInv'
<1>0. TypeOK /\ RankExact /\ QueuesExact /\ FormedExact /\ TableExact /\ MeshExact
  BY DEF GroupInv
<1>2. TypeOK'
  BY <1>0 DEF TypeOK, Stages, NoPeers
<1>3. RankExact'
  BY <1>0, GroupAssumption DEF TypeOK, RankExact, Meshed, Procs
<1>4. QueuesExact' /\ TableExact'
  BY <1>0 DEF QueuesExact, TableExact
<1>5. FormedExact'
  BY <1>0 DEF TypeOK, FormedExact, Meshed, NoPeers, RankExact
<1>7. MeshExact'
  BY <1>0, MeshLeft
<1> QED BY <1>2, <1>3, <1>4, <1>5, <1>7 DEF GroupInv

\* A connection is made: what does not concern the mesh stays.
LEMMA MeshFrame ==
  ASSUME TypeOK, RankExact, QueuesExact, FormedExact, TableExact,
         ranks' \in [Procs -> [Ranks -> Procs \cup {None}]], mesh' \in [Procs -> Seq(Procs)],
         UNCHANGED <<host, stage, rank, port_table, master, backlog, workers, reply>>
  PROVE  TypeOK' /\ RankExact' /\ QueuesExact' /\ FormedExact' /\ TableExact'
<1>1. TypeOK'
  BY DEF TypeOK
<1>2. RankExact' /\ QueuesExact'
  BY DEF RankExact, QueuesExact
<1>3. FormedExact'
  BY DEF FormedExact, NoPeers
<1>4. TableExact'
  BY DEF TableExact
<1> QED BY <1>1, <1>2, <1>3, <1>4

LEMMA MeshConnectStep ==
  ASSUME GroupInv, NEW p \in Procs, MeshConnect(p)
  PROVE  GroupInv'
<1>0. TypeOK /\ RankExact /\ QueuesExact /\ FormedExact /\ TableExact /\ MeshExact
  BY DEF GroupInv
<1>r. None \notin Procs /\ Ranks \subseteq Int
  BY GroupAssumption DEF Ranks, Procs
<1>j. PICK j : j = Min(MeshNext(p))
  OBVIOUS
<1>q. PICK q : q = port_table[p][j]
  OBVIOUS
<1>1. /\ stage[p] = "mesh" /\ MeshNext(p) # {} /\ j < rank[p]
      /\ UNCHANGED <<host, rank, port_table, master, backlog, workers, reply>>
  BY <1>j DEF MeshConnect
<1>2. j \in Ranks /\ j # rank[p] /\ ranks[p][j] = None
  <2>1. MeshNext(p) \subseteq Ranks
    BY DEF MeshNext
  <2>2. Min(MeshNext(p)) \in MeshNext(p)
    BY <1>1, <2>1, MinOf
  <2> QED BY <1>j, <2>2 DEF MeshNext
<1>3. CASE q = None
  <2>1. stage' = [stage EXCEPT ![p] = "failed"] /\ ranks' = [ranks EXCEPT ![p] = NoPeers] /\ UNCHANGED mesh
    BY <1>3, <1>j, <1>q DEF MeshConnect
  <2> QED BY <1>1, <2>1, MeshFailStep
<1>4. CASE q # None
  <2>1. /\ ranks' = [ranks EXCEPT ![p] = [ranks[p] EXCEPT ![j] = q]]
        /\ mesh' = [mesh EXCEPT ![q] = Append(mesh[q], p)]
        /\ UNCHANGED stage
    BY <1>4, <1>j, <1>q DEF MeshConnect
  <2>2. q \in Procs /\ Assigned(q) = j
    BY <1>1, <1>2, <1>4, <1>q, FormedTable DEF Meshed
  <2>3. Assigned(p) = rank[p] /\ rank[p] \in Ranks
    BY <1>0, <1>1, AssignedFacts DEF Meshed
  <2>4. ~Connected(p, q)
    BY <1>1, <1>2, <2>2 DEF Connected
  <2>5. /\ ranks' \in [Procs -> [Ranks -> Procs \cup {None}]]
        /\ ranks'[p][j] = q /\ \A i \in Ranks \ {j} : ranks'[p][i] = ranks[p][i]
        /\ \A x \in Procs \ {p} : ranks'[x] = ranks[x]
    BY <1>0, <1>2, <2>1, <2>2 DEF TypeOK
  <2>6. /\ mesh'[q] \in Seq(Procs) /\ IsInjective(mesh'[q])
        /\ \A x : x \in ToSet(mesh'[q]) <=> x \in ToSet(mesh[q]) \/ x = p
        /\ p \notin ToSet(mesh[q])
    <3>s. PICK s \in Seq(Procs) : s = mesh[q]
      BY <1>0, <2>2 DEF TypeOK
    <3>t. PICK t : t = Append(s, p)
      OBVIOUS
    <3>1. mesh'[q] = t
      BY <1>0, <2>1, <2>2, <3>s, <3>t DEF TypeOK
    <3>2. IsInjective(s) /\ p \notin ToSet(s)
      BY <1>0, <2>2, <2>4, <3>s DEF MeshExact
    <3>3. t \in Seq(Procs) /\ IsInjective(t) /\ \A x : x \in ToSet(t) <=> x \in ToSet(s) \/ x = p
      BY <3>1, <3>2, <3>t, AppendNew
    <3> QED BY <3>1, <3>2, <3>3, <3>s
  <2>7. \A x \in Procs \ {q} : mesh'[x] = mesh[x]
    BY <1>0, <2>1 DEF TypeOK
  <2>8. mesh' \in [Procs -> Seq(Procs)]
    BY <1>0, <2>1, <2>2, <2>6 DEF TypeOK
  <2>9. TypeOK' /\ RankExact' /\ QueuesExact' /\ FormedExact' /\ TableExact'
    BY <1>0, <1>1, <2>1, <2>5, <2>8, MeshFrame
  <2>10. \A x, y \in Procs : Connected(x, y) => Connected(x, y)'
    <3>1. \A x \in Procs, i \in Ranks : ranks[x][i] # None => ranks'[x][i] # None
      BY <2>2, <2>5, <1>r
    <3> QED BY <1>1, <2>1, <3>1 DEF Connected, Assigned
  <2>11. Connected(p, q)'
    <3>1. Assigned(p)' = rank[p] /\ Assigned(q)' = j
      BY <1>1, <2>2, <2>3 DEF Assigned
    <3> QED BY <1>1, <1>2, <1>r, <2>1, <2>2, <2>3, <2>5, <3>1 DEF Connected, Meshed
  <2>12. MeshExact'
    <3>1. ASSUME NEW x \in Procs
          PROVE  /\ stage'[x] \notin {"mesh", "created"} => ranks'[x] = NoPeers'
                 /\ rank'[x] \in Ranks => ranks'[x][rank'[x]] = None
                 /\ stage'[x] = "created" => \A i \in Ranks \ {rank'[x]} : ranks'[x][i] # None
                 /\ \A i \in Ranks : i < rank'[x] /\ ranks'[x][i] # None => ranks'[x][i] = port_table'[x][i]
      <4>1. NoPeers' = NoPeers
        BY DEF NoPeers
      <4>2. CASE x = p
        BY <1>0, <1>1, <1>2, <1>q, <2>1, <2>5, <4>2 DEF MeshExact
      <4>3. CASE x # p
        BY <1>0, <1>1, <2>1, <2>5, <4>1, <4>3 DEF MeshExact
      <4> QED BY <4>2, <4>3
    <3>2. ASSUME NEW x \in Procs
          PROVE  IsInjective(mesh'[x]) /\ \A y \in ToSet(mesh'[x]) : Connected(y, x)'
      <4>1. ToSet(mesh[x]) \subseteq Procs
        BY <1>0, ElementOf DEF TypeOK
      <4>2. IsInjective(mesh[x]) /\ \A y \in ToSet(mesh[x]) : Connected(y, x)'
        BY <1>0, <2>10, <4>1 DEF MeshExact
      <4>3. CASE x = q
        BY <2>6, <2>11, <4>2, <4>3
      <4>4. CASE x # q
        BY <2>7, <4>2, <4>4
      <4> QED BY <4>3, <4>4
    <3>3. ASSUME NEW x \in Procs, NEW y \in Procs, NEW i \in Ranks, i > rank'[x], ranks'[x][i] = y
          PROVE  /\ Connected(y, x)' /\ y \notin ToSet(mesh'[x])
                 /\ \A k \in Ranks : k > rank'[x] /\ ranks'[x][k] = y => k = i
      <4>1. rank'[x] = rank[x] /\ rank[x] \in Int
        BY <1>0, <1>1 DEF TypeOK
      <4>2. \A k \in Ranks : k > rank[x] => ranks'[x][k] = ranks[x][k]
        <5>1. CASE x = p
          BY <1>1, <1>2, <1>r, <2>5, <4>1, <5>1
        <5>2. CASE x # p
          BY <2>5, <5>2
        <5> QED BY <5>1, <5>2
      <4>3. /\ Connected(y, x) /\ y \notin ToSet(mesh[x])
            /\ \A k \in Ranks : k > rank[x] /\ ranks[x][k] = y => k = i
        BY <1>0, <3>3, <4>1, <4>2 DEF MeshExact
      <4>4. y \notin ToSet(mesh'[x])
        BY <2>4, <2>6, <2>7, <4>3
      <4> QED BY <2>10, <4>1, <4>2, <4>3, <4>4
    <3> QED BY <3>1, <3>2, <3>3 DEF MeshExact
  <2> QED BY <2>9, <2>12 DEF GroupInv
<1> QED BY <1>3, <1>4

LEMMA MeshAcceptStep ==
  ASSUME GroupInv, NEW p \in Procs, MeshAccept(p)
  PROVE  GroupInv'
<1>0. TypeOK /\ RankExact /\ QueuesExact /\ FormedExact /\ TableExact /\ MeshExact
  BY DEF GroupInv
<1>r. None \notin Procs /\ Ranks \subseteq Int
  BY GroupAssumption DEF Ranks, Procs
<1>j. PICK j : j = Min(MeshNext(p))
  OBVIOUS
<1>1. /\ stage[p] = "mesh" /\ MeshNext(p) # {} /\ j > rank[p]
      /\ UNCHANGED <<host, rank, port_table, master, backlog, workers, reply>>
  BY <1>j DEF MeshAccept
<1>2. j \in Ranks /\ j # rank[p] /\ ranks[p][j] = None
  <2>1. MeshNext(p) \subseteq Ranks
    BY DEF MeshNext
  <2>2. Min(MeshNext(p)) \in MeshNext(p)
    BY <1>1, <2>1, MinOf
  <2> QED BY <1>j, <2>2 DEF MeshNext
<1>3. CASE mesh[p] = <<>>
  <2>1. stage' = [stage EXCEPT ![p] = "failed"] /\ ranks' = [ranks EXCEPT ![p] = NoPeers] /\ UNCHANGED mesh
    BY <1>3 DEF MeshAccept
  <2> QED BY <1>1, <2>1, MeshFailStep
<1>4. CASE mesh[p] # <<>>
  <2>h. PICK h : h = Head(mesh[p])
    OBVIOUS
  <2>1. /\ ranks' = [ranks EXCEPT ![p] = [ranks[p] EXCEPT ![j] = h]]
        /\ mesh' = [mesh EXCEPT ![p] = Tail(mesh[p])]
        /\ UNCHANGED stage
    BY <1>4, <1>j, <2>h DEF MeshAccept
  <2>2. /\ h \in Procs /\ h \in ToSet(mesh[p])
        /\ mesh'[p] \in Seq(Procs) /\ IsInjective(mesh'[p])
        /\ \A x : x \in ToSet(mesh'[p]) <=> x \in ToSet(mesh[p]) /\ x # h
    <3>s. PICK s \in Seq(Procs) : s = mesh[p]
      BY <1>0 DEF TypeOK
    <3>t. PICK t : t = Tail(s)
      OBVIOUS
    <3>1. mesh'[p] = t /\ h = Head(s) /\ s # <<>>
      BY <1>0, <1>4, <2>1, <2>h, <3>s, <3>t DEF TypeOK
    <3>2. IsInjective(s)
      BY <1>0, <3>s DEF MeshExact
    <3>3. /\ t \in Seq(Procs) /\ Head(s) \in Procs /\ Head(s) \in ToSet(s) /\ IsInjective(t)
          /\ \A x : x \in ToSet(t) <=> x \in ToSet(s) /\ x # Head(s)
      BY <3>1, <3>2, <3>t, TailRest
    <3> QED BY <3>1, <3>3, <3>s
  <2>3. Connected(h, p)
    BY <1>0, <2>2 DEF MeshExact
  <2>4. \A i \in Ranks : i > rank[p] => ranks[p][i] # h
    BY <1>0, <2>2 DEF MeshExact
  <2>5. /\ ranks' \in [Procs -> [Ranks -> Procs \cup {None}]]
        /\ ranks'[p][j] = h /\ \A i \in Ranks \ {j} : ranks'[p][i] = ranks[p][i]
        /\ \A x \in Procs \ {p} : ranks'[x] = ranks[x]
    BY <1>0, <1>2, <2>1, <2>2 DEF TypeOK
  <2>7. \A x \in Procs \ {p} : mesh'[x] = mesh[x]
    BY <1>0, <2>1 DEF TypeOK
  <2>8. mesh' \in [Procs -> Seq(Procs)]
    BY <1>0, <2>1, <2>2 DEF TypeOK
  <2>9. TypeOK' /\ RankExact' /\ QueuesExact' /\ FormedExact' /\ TableExact'
    BY <1>0, <1>1, <2>1, <2>5, <2>8, MeshFrame
  <2>10. \A x, y \in Procs : Connected(x, y) => Connected(x, y)'
    <3>1. \A x \in Procs, i \in Ranks : ranks[x][i] # None => ranks'[x][i] # None
      BY <2>2, <2>5, <1>r
    <3> QED BY <1>1, <2>1, <3>1 DEF Connected, Assigned
  <2>12. MeshExact'
    <3>1. ASSUME NEW x \in Procs
          PROVE  /\ stage'[x] \notin {"mesh", "created"} => ranks'[x] = NoPeers'
                 /\ rank'[x] \in Ranks => ranks'[x][rank'[x]] = None
                 /\ stage'[x] = "created" => \A i \in Ranks \ {rank'[x]} : ranks'[x][i] # None
                 /\ \A i \in Ranks : i < rank'[x] /\ ranks'[x][i] # None => ranks'[x][i] = port_table'[x][i]
      <4>1. NoPeers' = NoPeers
        BY DEF NoPeers
      <4>2. CASE x = p
        <5>1. rank[p] \in Int /\ ~(j < rank[p])
          BY <1>0, <1>1, <1>2, <1>r DEF TypeOK
        <5> QED BY <1>0, <1>1, <1>2, <2>1, <2>5, <4>2, <5>1 DEF MeshExact
      <4>3. CASE x # p
        BY <1>0, <1>1, <2>1, <2>5, <4>1, <4>3 DEF MeshExact
      <4> QED BY <4>2, <4>3
    <3>2. ASSUME NEW x \in Procs
          PROVE  IsInjective(mesh'[x]) /\ \A y \in ToSet(mesh'[x]) : Connected(y, x)'
      <4>1. ToSet(mesh[x]) \subseteq Procs
        BY <1>0, ElementOf DEF TypeOK
      <4>2. IsInjective(mesh[x]) /\ \A y \in ToSet(mesh[x]) : Connected(y, x)'
        BY <1>0, <2>10, <4>1 DEF MeshExact
      <4>3. CASE x = p
        BY <2>2, <4>2, <4>3
      <4>4. CASE x # p
        BY <2>7, <4>2, <4>4
      <4> QED BY <4>3, <4>4
    <3>3. ASSUME NEW x \in Procs, NEW y \in Procs, NEW i \in Ranks, i > rank'[x], ranks'[x][i] = y
          PROVE  /\ Connected(y, x)' /\ y \notin ToSet(mesh'[x])
                 /\ \A k \in Ranks : k > rank'[x] /\ ranks'[x][k] = y => k = i
      <4>1. rank'[x] = rank[x]
        BY <1>1
      <4>2. CASE x = p
        <5>1. CASE i = j
          <6>1. y = h
            BY <2>5, <3>3, <4>2, <5>1
          <6>2. Connected(y, x)'
            BY <2>2, <2>3, <2>10, <4>2, <6>1
          <6>3. y \notin ToSet(mesh'[x])
            BY <2>2, <4>2, <6>1
          <6>4. \A k \in Ranks : k > rank'[x] /\ ranks'[x][k] = y => k = i
            BY <2>4, <2>5, <4>1, <4>2, <5>1, <6>1
          <6> QED BY <6>2, <6>3, <6>4
        <5>2. CASE i # j
          <6>1. ranks[p][i] = y /\ i > rank[p]
            BY <2>5, <3>3, <4>1, <4>2, <5>2
          <6>2. /\ Connected(y, p) /\ y \notin ToSet(mesh[p])
                /\ \A k \in Ranks : k > rank[p] /\ ranks[p][k] = y => k = i
            BY <1>0, <6>1 DEF MeshExact
          <6>3. y # h
            BY <2>2, <6>2
          <6> QED BY <2>2, <2>5, <2>10, <4>1, <4>2, <6>2, <6>3
        <5> QED BY <5>1, <5>2
      <4>3. CASE x # p
        <5>1. /\ Connected(y, x) /\ y \notin ToSet(mesh[x])
              /\ \A k \in Ranks : k > rank[x] /\ ranks[x][k] = y => k = i
          BY <1>0, <2>5, <3>3, <4>1, <4>3 DEF MeshExact
        <5> QED BY <2>5, <2>7, <2>10, <4>1, <4>3, <5>1
      <4> QED BY <4>2, <4>3
    <3> QED BY <3>1, <3>2, <3>3 DEF MeshExact
  <2> QED BY <2>9, <2>12 DEF GroupInv
<1> QED BY <1>3, <1>4

LEMMA GroupInitInv == GroupInit => GroupInv
<1> SUFFICES ASSUME GroupInit PROVE GroupInv
  OBVIOUS
<1>r. None \notin Procs /\ None \notin Int /\ -1 \notin Ranks
  BY GroupAssumption DEF Ranks, Procs
<1>1. /\ backlog = <<>> /\ workers = <<>> /\ master = None
      /\ \A p \in Procs : /\ stage[p] = "out" /\ rank[p] = -1 /\ ranks[p] = NoPeers
                          /\ port_table[p] = NoPeers /\ reply[p] = None /\ mesh[p] = <<>>
  BY DEF GroupInit
<1>2. \A x : x \notin ToSet(<<>>)
  BY DEF ToSet
<1>3. IsInjective(<<>>)
  BY DEF IsInjective
<1>4. NoPeers \in [Ranks -> Procs \cup {None}] /\ \A j \in Ranks : NoPeers[j] = None
  BY DEF NoPeers
<1>5. <<>> \in Seq(Procs)
  OBVIOUS
<1>6. TypeOK
  BY <1>4, <1>5 DEF GroupInit, TypeOK, Stages
<1>7. RankExact
  BY <1>1, <1>2, <1>r DEF RankExact, Meshed
<1>8. QueuesExact
  BY <1>1, <1>3 DEF QueuesExact
<1>9. FormedExact
  BY <1>1 DEF FormedExact, Meshed
<1>10. TableExact
  BY <1>1 DEF TableExact
<1>11. MeshExact
  BY <1>1, <1>2, <1>3, <1>4, <1>r DEF MeshExact
<1> QED BY <1>6, <1>7, <1>8, <1>9, <1>10, <1>11 DEF GroupInv

\* Every step of lfi_group_create keeps the group's part of the invariant.
LEMMA CreateStepKeeps ==
  ASSUME GroupInv, NEW p \in Procs, CreateStep(p)
  PROVE  GroupInv'
BY CreateStepInv, WorkerConnectStep, WorkerFailStep, MasterAcceptStep, MasterTimeoutStep,
   MasterSendStep, WorkerRankStep, WorkerTableStep, MeshConnectStep, MeshAcceptStep, MeshDoneStep
   DEF CreateStep

LEMMA GroupVarsSame ==
  ASSUME GroupInv, UNCHANGED groupVars
  PROVE  GroupInv'
<1>1. UNCHANGED <<host, stage, rank, ranks, port_table, master, backlog, workers, reply, mesh>>
  BY DEF groupVars
<1>2. TypeOK' /\ RankExact' /\ QueuesExact' /\ FormedExact' /\ TableExact'
  BY <1>1, MeshFrame DEF GroupInv, TypeOK
<1>3. \A x, y \in Procs : Connected(x, y) => Connected(x, y)'
  BY <1>1 DEF Connected, Assigned
<1>4. NoPeers' = NoPeers
  BY DEF NoPeers
<1>5. MeshExact'
  BY <1>1, <1>3, <1>4, MeshSame DEF GroupInv, MeshExact
<1> QED BY <1>2, <1>5 DEF GroupInv

LEMMA GroupNext ==
  ASSUME GroupInv, [Next]_vars
  PROVE  GroupInv'
<1>1. CASE UNCHANGED groupVars
  BY <1>1, GroupVarsSame
<1>2. CASE \E p \in Procs : CreateStep(p)
  BY <1>2, CreateStepKeeps
<1>3. CASE \E p \in Procs : GroupClose(p)
  BY <1>3, GroupCloseStep
<1> QED BY <1>1, <1>2, <1>3 DEF Next, vars, CreateGroup, CloseGroup, Start, AllreduceResult, Finish, Deliver

LEMMA GroupInvHolds == Spec => []GroupInv
<1>1. Init => GroupInv
  BY GroupInitInv DEF Init
<1>2. GroupInv /\ [Next]_vars => GroupInv'
  BY GroupNext
<1> QED BY <1>1, <1>2, PTL DEF Spec

\* The ranks above that of a process that has created the group are all there.
LEMMA UpperRanks ==
  ASSUME GroupInv, NEW p \in Procs, stage[p] = "created"
  PROVE  {Assigned(ranks[p][j]) : j \in (rank[p] + 1)..(Size - 1)} = (rank[p] + 1)..(Size - 1)
<1>0. TypeOK /\ RankExact /\ MeshExact
  BY DEF GroupInv
<1>1. Assigned(p) = rank[p] /\ rank[p] \in Ranks
  BY <1>0, AssignedFacts DEF Meshed
<1>a. PICK a \in Int : a = rank[p] + 1
  BY <1>1, GroupAssumption DEF Ranks
<1>b. PICK b \in Int : b = Size - 1
  BY GroupAssumption
<1>2. a <= b + 1 /\ \A j \in a..b : j \in Ranks /\ j > rank[p] /\ j # rank[p]
  BY <1>1, <1>a, <1>b, GroupAssumption DEF Ranks
<1>3. \A j \in a..b : ranks[p][j] \in Procs
  BY <1>0, <1>2 DEF MeshExact, TypeOK
<1>4. \A j \in a..b : Connected(ranks[p][j], p) /\ \A i \in a..b : ranks[p][i] = ranks[p][j] => i = j
  BY <1>0, <1>2, <1>3 DEF MeshExact
<1>5. \A j \in a..b : Assigned(ranks[p][j]) \in Ranks /\ Assigned(ranks[p][j]) \in a..b
  <2>1. \A j \in a..b : Assigned(ranks[p][j]) \in Ranks /\ Assigned(ranks[p][j]) > rank[p]
    BY <1>1, <1>4 DEF Connected
  <2> QED BY <1>1, <1>a, <1>b, <2>1, GroupAssumption DEF Ranks
<1>6. \A i, j \in a..b : Assigned(ranks[p][i]) = Assigned(ranks[p][j]) => i = j
  <2>1. \A x, y \in Procs : Assigned(x) \in Ranks /\ Assigned(x) = Assigned(y) => x = y
    BY FormedTable DEF Meshed
  <2> QED BY <1>3, <1>4, <1>5, <2>1
<1>f. PICK f : f = [j \in a..b |-> Assigned(ranks[p][j])]
  OBVIOUS
<1>7. \A t \in a..b : \E i \in a..b : f[i] = t
  <2>T. PICK T : T = a..b
    OBVIOUS
  <2>1. IsFiniteSet(T) /\ Cardinality(T) = b - a + 1
    BY <1>2, <2>T, FS_Interval
  <2>2. f \in [a..b -> T] /\ \A i, j \in a..b : f[i] = f[j] => i = j
    BY <1>5, <1>6, <1>f, <2>T
  <2>b. a <= b + 1
    BY <1>2
  <2>3. \A t \in T : \E i \in a..b : f[i] = t
    BY <2>1, <2>2, <2>b, Onto
  <2> QED BY <2>T, <2>3
<1>8. {Assigned(ranks[p][j]) : j \in a..b} = a..b
  <2>1. \A t \in a..b : \E i \in a..b : Assigned(ranks[p][i]) = t
    BY <1>7, <1>f
  <2> QED BY <1>5, <2>1
<1> QED BY <1>8, <1>a, <1>b

\* lfi_group_create: a process that has created the group has a rank of its own
\* host that no other process of the group has; its lower connections lead to
\* the processes of those ranks and the upper ones to all higher ranks, each
\* once, for any number of processes, any hosts and whoever connects when.
THEOREM MeshCompleteInvariant == Spec => []MeshComplete
<1>1. GroupInv => MeshComplete
  <2> SUFFICES ASSUME GroupInv, NEW p \in Procs, NEW q \in Procs, stage[p] = "created"
               PROVE  /\ Hostnames[rank[p]] = host[p]
                      /\ stage[q] = "created" /\ rank[p] = rank[q] => p = q
                      /\ \A j \in 0..(rank[p] - 1) : Assigned(ranks[p][j]) = j
                      /\ {Assigned(ranks[p][j]) : j \in (rank[p] + 1)..(Size - 1)} = (rank[p] + 1)..(Size - 1)
    BY DEF MeshComplete
  <2>0. TypeOK /\ RankExact /\ MeshExact
    BY DEF GroupInv
  <2>1. \A x \in Procs : stage[x] = "created" => Assigned(x) = rank[x] /\ rank[x] \in Ranks
    BY <2>0, AssignedFacts DEF Meshed
  <2>2. /\ \A x \in Procs : Assigned(x) \in Ranks =>
             port_table[p][Assigned(x)] = x /\ host[x] = Hostnames[Assigned(x)]
        /\ \A j \in Ranks : port_table[p][j] # None => Assigned(port_table[p][j]) = j
    BY FormedTable DEF Meshed
  <2>3. Hostnames[rank[p]] = host[p] /\ (stage[q] = "created" /\ rank[p] = rank[q] => p = q)
    BY <2>1, <2>2
  <2>4. ASSUME NEW j \in 0..(rank[p] - 1) PROVE Assigned(ranks[p][j]) = j
    <3>1. j \in Ranks /\ j < rank[p] /\ j # rank[p]
      BY <2>1, <2>4, GroupAssumption DEF Ranks
    <3>2. ranks[p][j] # None /\ ranks[p][j] = port_table[p][j]
      BY <2>0, <3>1 DEF MeshExact
    <3> QED BY <2>2, <3>1, <3>2
  <2> QED BY <2>3, <2>4, UpperRanks
<1> QED BY <1>1, GroupInvHolds, PTL

-----------------------------------------------------------------------------
(* Barriers.                                                               *)

\* The barriers among the first k calls of a program.
LEMMA BarrierCount ==
  ASSUME NEW prog, NEW k \in Nat
  PROVE  /\ IsFiniteSet(Barriers(prog, k)) /\ Cardinality(Barriers(prog, k)) \in Nat
         /\ k + 1 \in DOMAIN prog /\ prog[k + 1].kind = "barrier" =>
              Cardinality(Barriers(prog, k + 1)) = Cardinality(Barriers(prog, k)) + 1
         /\ prog[k + 1].kind # "barrier" => Barriers(prog, k + 1) = Barriers(prog, k)
<1>1. IsFiniteSet(1..k)
  BY FS_Interval
<1>2. Barriers(prog, k) \subseteq 1..k
  BY DEF Barriers
<1>3. IsFiniteSet(Barriers(prog, k))
  BY <1>1, <1>2, FS_Subset
<1>4. Cardinality(Barriers(prog, k)) \in Nat
  BY <1>3, FS_CardinalityType
<1>5. ASSUME k + 1 \in DOMAIN prog, prog[k + 1].kind = "barrier"
      PROVE  Cardinality(Barriers(prog, k + 1)) = Cardinality(Barriers(prog, k)) + 1
  <2>1. Barriers(prog, k + 1) = Barriers(prog, k) \cup {k + 1} /\ k + 1 \notin Barriers(prog, k)
    BY <1>5 DEF Barriers
  <2> QED BY <1>3, <2>1, FS_AddElement
<1>6. prog[k + 1].kind # "barrier" => Barriers(prog, k + 1) = Barriers(prog, k)
  BY DEF Barriers
<1> QED BY <1>3, <1>4, <1>5, <1>6

\* A longer part of the program has no fewer barriers.
LEMMA BarriersGrow ==
  ASSUME NEW prog, NEW j \in Nat, NEW k \in Nat, j <= k
  PROVE  Cardinality(Barriers(prog, j)) <= Cardinality(Barriers(prog, k))
<1>1. Barriers(prog, j) \subseteq Barriers(prog, k)
  BY DEF Barriers
<1>2. IsFiniteSet(Barriers(prog, k))
  BY BarrierCount
<1> QED BY <1>1, <1>2, FS_Subset

\* Calls of the program.
LEMMA CallFacts ==
  ASSUME CollTypeOK, CallExact, NEW p \in Procs
  PROVE  /\ Len(Program) \in Nat /\ DOMAIN Program = 1..Len(Program)
         /\ step[p] \in Nat /\ Reached(p) \in Nat /\ Count(p) \in Nat
         /\ step[p] < Len(Program) => step[p] + 1 \in DOMAIN Program /\ Call(p).kind \in Kinds
<1>1. Program \in Seq(Range(Program)) /\ \A k \in DOMAIN Program : Program[k].kind \in Kinds
  BY CollectivesAssumption DEF CollTypeOK
<1>2. Len(Program) \in Nat /\ DOMAIN Program = 1..Len(Program)
  BY <1>1
<1>3. step[p] \in Nat /\ Reached(p) \in Nat
  BY DEF CollTypeOK, Reached
<1>4. Count(p) \in Nat
  BY <1>3, BarrierCount DEF Count
<1>5. ASSUME step[p] < Len(Program) PROVE step[p] + 1 \in DOMAIN Program
  BY <1>2, <1>3, <1>5
<1> QED BY <1>1, <1>2, <1>3, <1>4, <1>5 DEF Call

\* Who is at the other end of the connections barriers use.
LEMMA BarrierPeers ==
  ASSUME GroupInv, NEW p \in Procs, stage[p] = "created"
  PROVE  /\ \A m \in Procs : rank[m] = 0 /\ rank[p] # 0 => ranks[p][0] = m
         /\ rank[p] = 0 =>
              /\ \A m \in Procs : rank[m] = 0 => m = p
              /\ \A j \in Others(0) : ranks[p][j] \in Procs \ {p}
              /\ \A i, j \in Others(0) : ranks[p][i] = ranks[p][j] => i = j
              /\ \A q \in Procs \ {p} : \E j \in Others(0) : ranks[p][j] = q
<1>0. TypeOK /\ RankExact /\ QueuesExact /\ FormedExact /\ TableExact /\ MeshExact
  BY DEF GroupInv
<1>r. 0 \in Ranks /\ Others(0) = 1..(Size - 1) /\ Size - 1 \in Nat
  BY GroupAssumption DEF Ranks, Others
<1>1. rank[p] \in Ranks /\ Assigned(p) = rank[p]
  BY <1>0, AssignedFacts DEF Meshed
<1>2. Len(workers) = Size - 1
  BY FormedTable DEF Meshed
<1>3. ASSUME NEW m \in Procs, rank[m] = 0, rank[p] # 0 PROVE ranks[p][0] = m
  <2>1. 0 < rank[p] /\ 0 # rank[p]
    BY <1>1, <1>3, GroupAssumption DEF Ranks
  <2>2. ranks[p][0] = port_table[p][0]
    BY <1>0, <1>r, <2>1 DEF MeshExact
  <2>3. Assigned(m) = 0
    BY <1>0, <1>3, AssignedFacts
  <2> QED BY <1>r, <2>2, <2>3, FormedTable DEF Meshed
<1>4. ASSUME rank[p] = 0 PROVE \A m \in Procs : rank[m] = 0 => m = p
  BY <1>0, <1>2, <1>4, AllWorkers
<1>5. ASSUME rank[p] = 0
      PROVE  /\ \A j \in Others(0) : ranks[p][j] \in Procs \ {p}
             /\ \A i, j \in Others(0) : ranks[p][i] = ranks[p][j] => i = j
  <2>1. \A j \in Others(0) : j \in Ranks /\ j > rank[p] /\ j # rank[p]
    BY <1>5, <1>r DEF Others
  <2>2. \A j \in Others(0) : ranks[p][j] \in Procs
    BY <1>0, <2>1 DEF MeshExact, TypeOK
  <2>3. \A j \in Others(0) : Connected(ranks[p][j], p) /\ \A i \in Others(0) : ranks[p][i] = ranks[p][j] => i = j
    BY <1>0, <2>1, <2>2 DEF MeshExact
  <2>4. ~Connected(p, p)
    BY <1>1, GroupAssumption DEF Connected, Ranks
  <2> QED BY <2>2, <2>3, <2>4
<1>6. ASSUME rank[p] = 0 PROVE \A q \in Procs \ {p} : \E j \in Others(0) : ranks[p][j] = q
  <2>T. PICK T : T = Procs \ {p}
    OBVIOUS
  <2>b. PICK b \in Nat : b = Size - 1
    BY <1>r
  <2>f. PICK f : f = [j \in 1..b |-> ranks[p][j]]
    OBVIOUS
  <2>1. IsFiniteSet(T) /\ Cardinality(T) = b - 1 + 1
    BY <2>T, <2>b, OthersCount
  <2>2. f \in [1..b -> T] /\ \A i, j \in 1..b : f[i] = f[j] => i = j
    BY <1>5, <1>6, <1>r, <2>T, <2>b, <2>f
  <2>3. b \in Int /\ 1 \in Int /\ 1 <= b + 1
    OBVIOUS
  <2>4. \A t \in T : \E i \in 1..b : f[i] = t
    BY <2>1, <2>2, <2>3, Onto
  <2> QED BY <1>r, <2>4, <2>T, <2>b, <2>f
<1> QED BY <1>3, <1>4, <1>5, <1>6

\* A step that neither enters a barrier nor delivers one of its messages.
LEMMA BarrierQuiet ==
  ASSUME BarrierExact, chan'["barrier"] = chan["barrier"],
         \A p \in Procs : Count(p)' = Count(p),
         \A p, q \in Procs : Awaits(p, q)' <=> Awaits(p, q),
         \A m \in Procs : rank'[m] = 0 => rank[m] = 0,
         \A p \in Procs : stage[p] \in {"created", "closed"} => stage'[p] \in {"created", "closed"}
  PROVE  BarrierExact'
<1>1. \A p, q \in Procs : Awaited(p, q)' = Awaited(p, q)
  BY DEF Awaited
<1>2. \A m, q \in Procs : rank'[m] = 0 /\ q # m =>
        /\ Len(chan'["barrier"][q][m]) + Count(m)' - Awaited(m, q)' = Count(q)'
        /\ Len(chan'["barrier"][m][q]) + Count(q)' - Awaited(q, m)' = Count(m)'
  BY <1>1 DEF BarrierExact
<1>3. (\A p \in Procs : stage'[p] \notin {"created", "closed"}) =>
        \A p, q \in Procs : chan'["barrier"][p][q] = <<>>
  BY DEF BarrierExact
<1> QED BY <1>2, <1>3 DEF BarrierExact

\* Before the group exists no collective has been called.
LEMMA BarrierNone ==
  ASSUME CollTypeOK, CallExact, BarrierExact, \A p \in Procs : stage[p] \notin {"created", "closed"}
  PROVE  /\ \A p, q \in Procs : chan["barrier"][p][q] = <<>> /\ ~Awaits(p, q)
         /\ \A p \in Procs : Count(p) = 0 /\ phase[p] = "out"
<1>1. \A p \in Procs : step[p] = 0 /\ phase[p] = "out"
  BY DEF CallExact
<1>2. \A p \in Procs : Reached(p) = 0
  BY <1>1 DEF Reached
<1>3. Barriers(Program, 0) = {}
  BY DEF Barriers
<1>4. \A p \in Procs : Count(p) = 0
  BY <1>2, <1>3, FS_EmptySet DEF Count
<1> QED BY <1>1, <1>4 DEF BarrierExact, Awaits

\* A step of lfi_group_create concerns one process, which is not in the group yet.
LEMMA CreateFrame ==
  ASSUME GroupInv, NEW p \in Procs, CreateStep(p)
  PROVE  /\ stage[p] \notin {"created", "closed"}
         /\ \A x \in Procs \ {p} : stage'[x] = stage[x] /\ rank'[x] = rank[x] /\ ranks'[x] = ranks[x]
         /\ rank'[p] = 0 => rank[p] = 0 \/ stage[p] = "out"
<1>0. TypeOK /\ RankExact
  BY DEF GroupInv
<1>t. /\ stage \in [Procs -> Stages] /\ rank \in [Procs -> Int]
      /\ ranks \in [Procs -> [Ranks -> Procs \cup {None}]]
  BY <1>0 DEF TypeOK
<1>1. CASE Create(p)
  BY <1>1, <1>t DEF Create, Enters
<1>2. CASE WorkerConnect(p) \/ WorkerFail(p) \/ WorkerTable(p) \/ MeshDone(p)
  BY <1>2, <1>t DEF WorkerConnect, WorkerFail, WorkerTable, MeshDone, Enters
<1>3. CASE MasterAccept(p) \/ MasterTimeout(p) \/ MasterSend(p)
  BY <1>3, <1>t DEF MasterAccept, MasterTimeout, MasterSend, Enters
<1>4. CASE WorkerRank(p)
  <2>1. reply[p] # 0
    BY <1>0 DEF RankExact
  <2> QED BY <1>4, <1>t, <2>1 DEF WorkerRank, Enters
<1>5. CASE MeshConnect(p)
  BY <1>5, <1>t DEF MeshConnect
<1>6. CASE MeshAccept(p)
  BY <1>6, <1>t DEF MeshAccept
<1> QED BY <1>1, <1>2, <1>3, <1>4, <1>5, <1>6 DEF CreateStep

LEMMA CreateGroupStep ==
  ASSUME IInv, NEW p \in Procs, CreateGroup(p)
  PROVE  CollTypeOK' /\ CallExact' /\ BarrierExact'
<1>0. GroupInv /\ CollTypeOK /\ CallExact /\ BarrierExact
  BY DEF IInv
<1>1. CreateStep(p) /\ UNCHANGED <<Program, step, phase, recvs, sends, chan, data, gathered, rendezvous>>
  BY DEF CreateGroup, collVars
<1>2. /\ stage[p] \notin {"created", "closed"}
      /\ \A x \in Procs \ {p} : stage'[x] = stage[x] /\ rank'[x] = rank[x] /\ ranks'[x] = ranks[x]
      /\ rank'[p] = 0 => rank[p] = 0 \/ stage[p] = "out"
  BY <1>0, <1>1, CreateFrame
<1>3. phase[p] = "out" /\ step[p] = 0
  BY <1>0, <1>2 DEF CallExact
<1>4. CollTypeOK'
  BY <1>0, <1>1 DEF CollTypeOK
<1>5. CallExact'
  BY <1>0, <1>1, <1>2, <1>3 DEF CallExact, Call
<1>6. /\ \A x \in Procs : Count(x)' = Count(x)
      /\ \A x, y \in Procs : Awaits(x, y)' <=> Awaits(x, y)
  <2>1. \A x \in Procs : Count(x)' = Count(x)
    BY <1>1 DEF Count, Reached
  <2>2. \A x, y \in Procs : Awaits(x, y)' <=> Awaits(x, y)
    BY <1>1, <1>2, <1>3 DEF Awaits, Call
  <2> QED BY <2>1, <2>2
<1>7. BarrierExact'
  <2>1. CASE \A x \in Procs : stage[x] \notin {"created", "closed"}
    <3>1. /\ \A x, y \in Procs : chan["barrier"][x][y] = <<>> /\ ~Awaits(x, y)
          /\ \A x \in Procs : Count(x) = 0
      BY <1>0, <2>1, BarrierNone
    <3>2. \A x, y \in Procs : /\ Len(chan'["barrier"][x][y]) = 0 /\ chan'["barrier"][x][y] = <<>>
                              /\ Awaited(x, y)' = 0 /\ Count(x)' = 0
      BY <1>1, <1>6, <3>1 DEF Awaited
    <3> QED BY <3>2 DEF BarrierExact
  <2>2. CASE ~ \A x \in Procs : stage[x] \notin {"created", "closed"}
    <3>1. stage[p] # "out"
      BY <1>0, <2>2, NotFormed DEF Meshed
    <3>2. \A m \in Procs : rank'[m] = 0 => rank[m] = 0
      BY <1>2, <3>1
    <3>3. \A x \in Procs : stage[x] \in {"created", "closed"} => stage'[x] \in {"created", "closed"}
      BY <1>2
    <3>4. chan'["barrier"] = chan["barrier"]
      BY <1>1
    <3> QED BY <1>0, <1>6, <3>2, <3>3, <3>4, BarrierQuiet
  <2> QED BY <2>1, <2>2
<1> QED BY <1>4, <1>5, <1>7

LEMMA CloseGroupStep ==
  ASSUME IInv, NEW p \in Procs, CloseGroup(p)
  PROVE  CollTypeOK' /\ CallExact' /\ BarrierExact'
<1>0. TypeOK /\ CollTypeOK /\ CallExact /\ BarrierExact
  BY DEF IInv, GroupInv
<1>1. /\ phase[p] = "out" /\ stage[p] = "created" /\ stage' = [stage EXCEPT ![p] = "closed"]
      /\ ranks' = [ranks EXCEPT ![p] = NoPeers]
      /\ UNCHANGED <<rank, Program, step, phase, recvs, sends, chan, data, gathered, rendezvous>>
  BY DEF CloseGroup, GroupClose, Enters, collVars
<1>2. /\ stage'[p] = "closed"
      /\ \A x \in Procs \ {p} : stage'[x] = stage[x] /\ ranks'[x] = ranks[x]
  BY <1>0, <1>1 DEF TypeOK
<1>4. CollTypeOK'
  BY <1>0, <1>1 DEF CollTypeOK
<1>5. CallExact'
  BY <1>0, <1>1, <1>2 DEF CallExact, Call
<1>6. \A x \in Procs : Count(x)' = Count(x)
  BY <1>1 DEF Count, Reached
<1>7. \A x, y \in Procs : Awaits(x, y)' <=> Awaits(x, y)
  BY <1>1, <1>2 DEF Awaits, Call
<1>8. \A x \in Procs : stage[x] \in {"created", "closed"} => stage'[x] \in {"created", "closed"}
  BY <1>2
<1>9. chan'["barrier"] = chan["barrier"] /\ \A m \in Procs : rank'[m] = 0 => rank[m] = 0
  BY <1>1
<1> QED BY <1>0, <1>4, <1>5, <1>6, <1>7, <1>8, <1>9, BarrierQuiet

LEMMA FinishStep ==
  ASSUME IInv, NEW p \in Procs, Finish(p)
  PROVE  CollTypeOK' /\ CallExact' /\ BarrierExact'
<1>0. CollTypeOK /\ CallExact /\ BarrierExact
  BY DEF IInv
<1>1. /\ phase[p] = "last" /\ recvs[p] = {}
      /\ step' = [step EXCEPT ![p] = step[p] + 1] /\ phase' = [phase EXCEPT ![p] = "out"]
      /\ UNCHANGED <<stage, rank, ranks, Program, recvs, chan>>
  BY DEF Finish, groupVars
<1>2. /\ step'[p] = step[p] + 1 /\ phase'[p] = "out" /\ step[p] \in Nat
      /\ \A x \in Procs \ {p} : step'[x] = step[x] /\ phase'[x] = phase[x]
  BY <1>0, <1>1 DEF CollTypeOK
<1>3. step[p] < Len(Program) /\ stage[p] = "created" /\ Len(Program) \in Nat
  BY <1>0, <1>1, CallFacts DEF CallExact
<1>4. CollTypeOK'
  BY <1>0, <1>1 DEF CollTypeOK
<1>5. CallExact'
  BY <1>0, <1>1, <1>2, <1>3 DEF CallExact, Call
<1>6. \A x \in Procs : Count(x)' = Count(x)
  <2>1. \A x \in Procs : Reached(x)' = Reached(x)
    BY <1>1, <1>2 DEF Reached
  <2> QED BY <1>1, <2>1 DEF Count
<1>7. \A x, y \in Procs : Awaits(x, y)' <=> Awaits(x, y)
  BY <1>1, <1>2 DEF Awaits, Call
<1>9. /\ chan'["barrier"] = chan["barrier"] /\ \A m \in Procs : rank'[m] = 0 => rank[m] = 0
      /\ \A x \in Procs : stage[x] \in {"created", "closed"} => stage'[x] \in {"created", "closed"}
  BY <1>1
<1> QED BY <1>0, <1>4, <1>5, <1>6, <1>7, <1>9, BarrierQuiet

\* Messages of another kind of collective leave those of barriers alone.
LEMMA SendOther ==
  ASSUME CollTypeOK, NEW p \in Procs, NEW S, NEW v, SendTo(p, S, v),
         Call(p).kind \in Kinds, Call(p).kind # "barrier"
  PROVE  chan'["barrier"] = chan["barrier"] /\ chan' = [k \in Kinds |-> chan'[k]]
BY DEF CollTypeOK, SendTo, Kinds

\* Rank 0 of an allreduce is not in a barrier.
LEMMA AllreduceResultStep ==
  ASSUME IInv, NEW p \in Procs, AllreduceResult(p)
  PROVE  CollTypeOK' /\ CallExact' /\ BarrierExact'
<1>0. CollTypeOK /\ CallExact /\ BarrierExact
  BY DEF IInv
<1>1. /\ phase[p] = "gather" /\ phase' = [phase EXCEPT ![p] = "last"]
      /\ UNCHANGED <<stage, rank, ranks, Program, step>>
  BY DEF AllreduceResult, groupVars
<1>2. /\ phase'[p] = "last" /\ \A x \in Procs \ {p} : phase'[x] = phase[x]
  BY <1>0, <1>1 DEF CollTypeOK
<1>3. step[p] < Len(Program) /\ stage[p] = "created" /\ Call(p).kind # "barrier" /\ Call(p).kind \in Kinds
  BY <1>0, <1>1, CallFacts DEF CallExact
<1>4. chan'["barrier"] = chan["barrier"] /\ chan' = [k \in Kinds |-> chan'[k]]
  <2>1. CASE rank[p] = 0
    <3>1. PICK v : SendTo(p, Others(0), v)
      BY <2>1 DEF AllreduceResult
    <3> QED BY <1>0, <1>3, <3>1, SendOther
  <2>2. CASE rank[p] # 0
    BY <1>0, <2>2 DEF AllreduceResult, CollTypeOK
  <2> QED BY <2>1, <2>2
<1>5. /\ recvs' \in [Procs -> SUBSET Ranks]
      /\ \A x \in Procs \ {p} : recvs'[x] = recvs[x]
  <2>1. 0 \in Ranks
    BY GroupAssumption DEF Ranks
  <2>2. UNCHANGED recvs \/ recvs' = [recvs EXCEPT ![p] = {0}]
    BY DEF AllreduceResult, RecvFrom
  <2> QED BY <1>0, <2>1, <2>2 DEF CollTypeOK
<1>6. CollTypeOK'
  BY <1>0, <1>1, <1>4, <1>5 DEF CollTypeOK
<1>7. CallExact'
  BY <1>0, <1>1, <1>2, <1>3, <1>5 DEF CallExact, Call
<1>8. \A x \in Procs : Count(x)' = Count(x)
  <2>1. \A x \in Procs : Reached(x)' = Reached(x)
    BY <1>1, <1>2 DEF Reached
  <2> QED BY <1>1, <2>1 DEF Count
<1>9. \A x, y \in Procs : Awaits(x, y)' <=> Awaits(x, y)
  BY <1>1, <1>2, <1>3, <1>5 DEF Awaits, Call
<1>10. /\ \A m \in Procs : rank'[m] = 0 => rank[m] = 0
       /\ \A x \in Procs : stage[x] \in {"created", "closed"} => stage'[x] \in {"created", "closed"}
  BY <1>1
<1> QED BY <1>0, <1>4, <1>6, <1>7, <1>8, <1>9, <1>10, BarrierQuiet

\* What every call does on entering.
LEMMA StartFacts ==
  ASSUME IInv, NEW p \in Procs, Start(p)
  PROVE  /\ stage[p] = "created" /\ phase[p] = "out" /\ step[p] < Len(Program)
         /\ step[p] + 1 \in DOMAIN Program /\ Call(p).kind \in Kinds
         /\ UNCHANGED <<stage, rank, ranks, Program, step>>
         /\ \A x \in Procs \ {p} : phase'[x] = phase[x] /\ recvs'[x] = recvs[x]
         /\ phase'[p] \in {"gather", "last"} /\ phase' \in [Procs -> {"out", "gather", "last"}]
         /\ recvs' \in [Procs -> SUBSET Ranks]
         /\ Reached(p) = step[p] /\ Reached(p)' = step[p] + 1
         /\ \A x \in Procs \ {p} : Count(x)' = Count(x)
<1>0. CollTypeOK /\ CallExact
  BY DEF IInv
<1>1. /\ stage[p] = "created" /\ phase[p] = "out" /\ step[p] < Len(Program)
      /\ UNCHANGED <<stage, rank, ranks, Program, step>>
  BY DEF Start, groupVars
<1>2. step[p] + 1 \in DOMAIN Program /\ Call(p).kind \in Kinds /\ step[p] \in Nat
  BY <1>0, <1>1, CallFacts
<1>3. PICK l \in {"gather", "last"} : phase' = [phase EXCEPT ![p] = l]
  BY DEF Start, Barrier, Broadcast, AllreduceGather, Enter
<1>4. PICK S : S \subseteq Ranks /\ recvs' = [recvs EXCEPT ![p] = S]
  <2>1. 0 \in Ranks /\ Call(p).root \in Ranks
    BY <1>0, <1>2, CollectivesAssumption, GroupAssumption DEF Ranks, Call, CollTypeOK
  <2>2. \A r : Others(r) \subseteq Ranks
    BY DEF Others
  <2>3. CASE Barrier(p)
    BY <2>1, <2>2, <2>3 DEF Barrier, RecvFrom
  <2>4. CASE Broadcast(p)
    <3>1. recvs' = [recvs EXCEPT ![p] = {}] \/ recvs' = [recvs EXCEPT ![p] = {Call(p).root}]
      BY <2>4 DEF Broadcast, RecvFrom
    <3> QED BY <2>1, <3>1
  <2>5. CASE AllreduceGather(p)
    <3>1. recvs' = [recvs EXCEPT ![p] = {}] \/ recvs' = [recvs EXCEPT ![p] = Others(0)]
      BY <2>5 DEF AllreduceGather, RecvFrom
    <3> QED BY <2>2, <3>1
  <2> QED BY <2>3, <2>4, <2>5 DEF Start
<1>5. /\ \A x \in Procs \ {p} : phase'[x] = phase[x]
      /\ phase'[p] = l /\ phase' \in [Procs -> {"out", "gather", "last"}]
  BY <1>0, <1>3 DEF CollTypeOK
<1>6. (\A x \in Procs \ {p} : recvs'[x] = recvs[x]) /\ recvs' \in [Procs -> SUBSET Ranks]
  BY <1>0, <1>4 DEF CollTypeOK
<1>7. Reached(p) = step[p] /\ Reached(p)' = step[p] + 1
  BY <1>1, <1>5 DEF Reached
<1>8. \A x \in Procs \ {p} : Count(x)' = Count(x)
  BY <1>1, <1>5 DEF Count, Reached
<1> QED BY <1>1, <1>2, <1>5, <1>6, <1>7, <1>8

\* Entering another collective than a barrier.
LEMMA StartOtherStep ==
  ASSUME IInv, NEW p \in Procs, Start(p), Call(p).kind # "barrier"
  PROVE  CollTypeOK' /\ CallExact' /\ BarrierExact'
<1>0. CollTypeOK /\ CallExact /\ BarrierExact
  BY DEF IInv
<1>1. /\ stage[p] = "created" /\ phase[p] = "out" /\ step[p] < Len(Program)
      /\ step[p] + 1 \in DOMAIN Program /\ Call(p).kind \in Kinds
      /\ UNCHANGED <<stage, rank, ranks, Program, step>>
      /\ \A x \in Procs \ {p} : phase'[x] = phase[x] /\ recvs'[x] = recvs[x]
      /\ phase'[p] \in {"gather", "last"} /\ phase' \in [Procs -> {"out", "gather", "last"}]
      /\ recvs' \in [Procs -> SUBSET Ranks]
      /\ Reached(p) = step[p] /\ Reached(p)' = step[p] + 1
      /\ \A x \in Procs \ {p} : Count(x)' = Count(x)
  BY StartFacts
<1>2. PICK S, v : SendTo(p, S, v)
  BY DEF Start, Barrier, Broadcast, AllreduceGather
<1>3. chan'["barrier"] = chan["barrier"] /\ chan' = [k \in Kinds |-> chan'[k]]
  BY <1>0, <1>1, <1>2, SendOther
<1>4. CollTypeOK'
  BY <1>0, <1>1, <1>3 DEF CollTypeOK
<1>5. CallExact'
  BY <1>0, <1>1 DEF CallExact, Call
<1>6. Count(p)' = Count(p)
  <2>1. step[p] \in Nat /\ Program[step[p] + 1].kind # "barrier"
    BY <1>0, CallFacts DEF Call
  <2>2. Barriers(Program, step[p] + 1) = Barriers(Program, step[p])
    BY <2>1, BarrierCount
  <2> QED BY <1>1, <2>2 DEF Count
<1>7. \A x \in Procs : Count(x)' = Count(x)
  BY <1>1, <1>6
<1>8. \A x, y \in Procs : Awaits(x, y)' <=> Awaits(x, y)
  BY <1>1 DEF Awaits, Call
<1>9. /\ \A m \in Procs : rank'[m] = 0 => rank[m] = 0
      /\ \A x \in Procs : stage[x] \in {"created", "closed"} => stage'[x] \in {"created", "closed"}
  BY <1>1
<1> QED BY <1>0, <1>3, <1>4, <1>5, <1>7, <1>8, <1>9, BarrierQuiet

\* Entering a barrier: a message to every peer, and one awaited from each.
LEMMA StartBarrierStep ==
  ASSUME IInv, NEW p \in Procs, Start(p), Call(p).kind = "barrier"
  PROVE  CollTypeOK' /\ CallExact' /\ BarrierExact'
<1>0. GroupInv /\ CollTypeOK /\ CallExact /\ BarrierExact
  BY DEF IInv
<1>1. /\ stage[p] = "created" /\ phase[p] = "out" /\ step[p] < Len(Program)
      /\ step[p] + 1 \in DOMAIN Program /\ Call(p).kind \in Kinds
      /\ UNCHANGED <<stage, rank, ranks, Program, step>>
      /\ \A x \in Procs \ {p} : phase'[x] = phase[x] /\ recvs'[x] = recvs[x]
      /\ phase'[p] \in {"gather", "last"} /\ phase' \in [Procs -> {"out", "gather", "last"}]
      /\ recvs' \in [Procs -> SUBSET Ranks]
      /\ Reached(p) = step[p] /\ Reached(p)' = step[p] + 1
      /\ \A x \in Procs \ {p} : Count(x)' = Count(x)
  BY StartFacts
<1>S. PICK S : S = IF rank[p] = 0 THEN Others(0) ELSE {0}
  OBVIOUS
<1>B. Barrier(p)
  BY DEF Start, Broadcast, AllreduceGather
<1>2. recvs'[p] = S /\ phase'[p] = "last" /\ SendTo(p, S, 0)
  BY <1>0, <1>S, <1>B DEF Barrier, RecvFrom, Enter, CollTypeOK
<1>3. /\ chan' = [k \in Kinds |-> chan'[k]]
      /\ chan'["barrier"] = [chan["barrier"] EXCEPT ![p] =
           [q \in Procs |-> IF q \in Peers(p, S) THEN Append(chan["barrier"][p][q], 0) ELSE chan["barrier"][p][q]]]
  BY <1>0, <1>2 DEF SendTo, CollTypeOK, Kinds
<1>4. /\ chan'["barrier"] \in [Procs -> [Procs -> Seq({0})]]
      /\ \A x \in Procs \ {p} : chan'["barrier"][x] = chan["barrier"][x]
      /\ \A q \in Procs : q \in Peers(p, S) => Len(chan'["barrier"][p][q]) = Len(chan["barrier"][p][q]) + 1
      /\ \A x, y \in Procs : Len(chan["barrier"][x][y]) \in Nat
  <2>1. chan["barrier"] \in [Procs -> [Procs -> Seq({0})]]
    BY <1>0 DEF CollTypeOK
  <2>2. \A x, y \in Procs : Len(chan["barrier"][x][y]) \in Nat
    BY <2>1
  <2>3. \A q \in Procs : chan["barrier"][p][q] \in Seq({0}) /\ Append(chan["barrier"][p][q], 0) \in Seq({0})
    BY <2>1
  <2>4. chan'["barrier"] \in [Procs -> [Procs -> Seq({0})]]
    BY <1>3, <2>1, <2>3
  <2>5. \A x \in Procs \ {p} : chan'["barrier"][x] = chan["barrier"][x]
    BY <1>3, <2>1
  <2>6. \A q \in Procs : q \in Peers(p, S) => chan'["barrier"][p][q] = Append(chan["barrier"][p][q], 0)
    BY <1>3, <2>1
  <2>7. \A q \in Procs : Len(Append(chan["barrier"][p][q], 0)) = Len(chan["barrier"][p][q]) + 1
    BY <2>3
  <2> QED BY <2>2, <2>4, <2>5, <2>6, <2>7
<1>5. CollTypeOK'
  BY <1>0, <1>1, <1>3, <1>4 DEF CollTypeOK
<1>6. CallExact'
  BY <1>0, <1>1, <1>2, <1>S DEF CallExact, Call
<1>7. Count(p)' = Count(p) + 1 /\ \A x \in Procs : Count(x) \in Nat
  <2>1. step[p] \in Nat /\ Program[step[p] + 1].kind = "barrier" /\ \A x \in Procs : Count(x) \in Nat
    BY <1>0, CallFacts DEF Call
  <2>2. Cardinality(Barriers(Program, step[p] + 1)) = Cardinality(Barriers(Program, step[p])) + 1
    BY <1>1, <2>1, BarrierCount
  <2> QED BY <1>1, <2>1, <2>2 DEF Count
<1>8. /\ \A x \in Procs \ {p}, y \in Procs : Awaited(x, y)' = Awaited(x, y)
      /\ \A y \in Procs : Awaited(p, y) = 0
      /\ \A y \in Procs : (\E r \in S : ranks[p][r] = y) => Awaited(p, y)' = 1
  <2>1. \A x \in Procs \ {p}, y \in Procs : Awaits(x, y)' <=> Awaits(x, y)
    BY <1>1 DEF Awaits, Call
  <2>2. \A y \in Procs : ~Awaits(p, y)
    BY <1>1 DEF Awaits
  <2>3. ASSUME NEW y \in Procs, \E r \in S : ranks[p][r] = y PROVE Awaits(p, y)'
    BY <1>1, <1>2, <2>3 DEF Awaits, Call
  <2> QED BY <2>1, <2>2, <2>3 DEF Awaited
<1>9. ASSUME NEW m \in Procs, NEW q \in Procs, rank'[m] = 0, q # m
      PROVE  /\ Len(chan'["barrier"][q][m]) + Count(m)' - Awaited(m, q)' = Count(q)'
             /\ Len(chan'["barrier"][m][q]) + Count(q)' - Awaited(q, m)' = Count(m)'
  <2>0. rank[m] = 0
    BY <1>1, <1>9
  <2>a. PICK a \in Nat : a = Len(chan["barrier"][q][m])
    BY <1>4
  <2>b. PICK b \in Nat : b = Len(chan["barrier"][m][q])
    BY <1>4
  <2>c. PICK c \in Nat : c = Count(m)
    BY <1>7
  <2>d. PICK d \in Nat : d = Count(q)
    BY <1>7
  <2>v. PICK v \in Int : v = Awaited(m, q)
    BY DEF Awaited
  <2>w. PICK w \in Int : w = Awaited(q, m)
    BY DEF Awaited
  <2>1. a + c - v = d /\ b + d - w = c
    <3>1. /\ Len(chan["barrier"][q][m]) + Count(m) - Awaited(m, q) = Count(q)
          /\ Len(chan["barrier"][m][q]) + Count(q) - Awaited(q, m) = Count(m)
      BY <1>0, <1>9, <2>0 DEF BarrierExact
    <3> QED BY <2>a, <2>b, <2>c, <2>d, <2>v, <2>w, <3>1
  <2>2. CASE p = m
    <3>1. \E r \in S : ranks[p][r] = q
      BY <1>0, <1>1, <1>9, <1>S, <2>0, <2>2, BarrierPeers
    <3>2. q \in Peers(p, S)
      BY <3>1 DEF Peers
    <3>3. Len(chan'["barrier"][q][m]) = a /\ Len(chan'["barrier"][m][q]) = b + 1
      BY <1>4, <1>9, <2>2, <2>a, <2>b, <3>2
    <3>4. Count(m)' = c + 1 /\ Count(q)' = d
      BY <1>1, <1>7, <1>9, <2>2, <2>c, <2>d
    <3>5. Awaited(m, q)' = 1 /\ v = 0 /\ Awaited(q, m)' = w
      BY <1>8, <1>9, <2>2, <2>v, <2>w, <3>1
    <3>6. a + (c + 1) - 1 = d /\ (b + 1) + d - w = c + 1
      BY <2>1, <3>5
    <3> QED BY <3>3, <3>4, <3>5, <3>6
  <2>3. CASE p = q
    <3>1. rank[p] # 0
      BY <1>0, <1>1, <1>9, <2>0, <2>3, BarrierPeers
    <3>2. 0 \in S /\ ranks[p][0] = m
      BY <1>0, <1>1, <1>S, <2>0, <3>1, BarrierPeers
    <3>3. m \in Peers(p, S) /\ \E r \in S : ranks[p][r] = m
      BY <3>2 DEF Peers
    <3>4. Len(chan'["barrier"][m][q]) = b /\ Len(chan'["barrier"][q][m]) = a + 1
      BY <1>4, <1>9, <2>3, <2>a, <2>b, <3>3
    <3>5. Count(m)' = c /\ Count(q)' = d + 1
      BY <1>1, <1>7, <1>9, <2>3, <2>c, <2>d
    <3>6. Awaited(q, m)' = 1 /\ w = 0 /\ Awaited(m, q)' = v
      BY <1>8, <1>9, <2>3, <2>v, <2>w, <3>3
    <3>7. (a + 1) + c - v = d + 1 /\ b + (d + 1) - 1 = c
      BY <2>1, <3>6
    <3> QED BY <3>4, <3>5, <3>6, <3>7
  <2>4. CASE p # m /\ p # q
    <3>1. Len(chan'["barrier"][m][q]) = b /\ Len(chan'["barrier"][q][m]) = a
      BY <1>4, <2>4, <2>a, <2>b
    <3>2. Count(m)' = c /\ Count(q)' = d /\ Awaited(q, m)' = w /\ Awaited(m, q)' = v
      BY <1>1, <1>8, <2>4, <2>c, <2>d, <2>v, <2>w
    <3> QED BY <2>1, <3>1, <3>2
  <2> QED BY <2>2, <2>3, <2>4
<1>10. \E x \in Procs : stage'[x] \in {"created", "closed"}
  BY <1>1
<1>11. BarrierExact'
  BY <1>9, <1>10 DEF BarrierExact
<1> QED BY <1>5, <1>6, <1>11

\* A receive of a barrier completes: the message was sent by the peer awaited.
LEMMA DeliverBarrierStep ==
  ASSUME IInv, NEW p \in Procs, NEW r \in Ranks, Deliver(p, r), Call(p).kind = "barrier"
  PROVE  CollTypeOK' /\ CallExact' /\ BarrierExact'
<1>0. GroupInv /\ TypeOK /\ CollTypeOK /\ CallExact /\ BarrierExact
  BY DEF IInv, GroupInv
<1>s. PICK s : s = ranks[p][r]
  OBVIOUS
<1>1. /\ r \in recvs[p] /\ chan["barrier"][s][p] # <<>>
      /\ chan' = [chan EXCEPT !["barrier"][s][p] = Tail(chan["barrier"][s][p])]
      /\ recvs' = [recvs EXCEPT ![p] = recvs[p] \ {r}]
      /\ UNCHANGED <<stage, rank, ranks, Program, step, phase>>
  BY <1>s DEF Deliver, groupVars
<1>2. phase[p] = "last" /\ stage[p] = "created" /\ recvs[p] \subseteq (IF rank[p] = 0 THEN Others(0) ELSE {0})
  BY <1>0, <1>1 DEF CallExact, CollTypeOK
<1>3. /\ recvs'[p] = recvs[p] \ {r} /\ \A x \in Procs \ {p} : recvs'[x] = recvs[x]
      /\ recvs' \in [Procs -> SUBSET Ranks]
  BY <1>0, <1>1 DEF CollTypeOK
<1>4. \E m \in Procs : rank[m] = 0
  BY <1>0, <1>2, FormedTable DEF Meshed
<1>m. PICK m \in Procs : rank[m] = 0
  BY <1>4
<1>5. s \in Procs /\ s # p /\ (rank[p] = 0 \/ s = m) /\ \A i \in recvs[p] : ranks[p][i] = s => i = r
  <2>1. CASE rank[p] = 0
    <3>1. recvs[p] \subseteq Others(0)
      BY <1>2, <2>1
    <3> QED BY <1>0, <1>1, <1>2, <1>s, <2>1, <3>1, BarrierPeers
  <2>2. CASE rank[p] # 0
    <3>1. recvs[p] \subseteq {0} /\ r = 0
      BY <1>1, <1>2, <2>2
    <3>2. ranks[p][0] = m
      BY <1>0, <1>2, <1>m, <2>2, BarrierPeers
    <3>3. m # p
      BY <1>m, <2>2
    <3> QED BY <1>s, <3>1, <3>2, <3>3
  <2> QED BY <2>1, <2>2
<1>6. /\ chan' = [k \in Kinds |-> chan'[k]]
      /\ chan'["barrier"] \in [Procs -> [Procs -> Seq({0})]]
      /\ Len(chan'["barrier"][s][p]) = Len(chan["barrier"][s][p]) - 1
      /\ \A x, y \in Procs : ~(x = s /\ y = p) => chan'["barrier"][x][y] = chan["barrier"][x][y]
      /\ \A x, y \in Procs : Len(chan["barrier"][x][y]) \in Nat
  <2>1. chan["barrier"] \in [Procs -> [Procs -> Seq({0})]] /\ chan = [k \in Kinds |-> chan[k]]
    BY <1>0 DEF CollTypeOK
  <2>t. PICK t : t = Tail(chan["barrier"][s][p])
    OBVIOUS
  <2>2. t \in Seq({0}) /\ Len(t) = Len(chan["barrier"][s][p]) - 1
    <3>1. PICK u \in Seq({0}) : u = chan["barrier"][s][p]
      BY <1>5, <2>1
    <3> QED BY <1>1, <2>t, <3>1
  <2>3. /\ chan' = [k \in Kinds |-> chan'[k]]
        /\ chan'["barrier"] = [chan["barrier"] EXCEPT ![s] = [chan["barrier"][s] EXCEPT ![p] = t]]
    BY <1>1, <2>1, <2>t DEF Kinds
  <2>4. /\ chan'["barrier"] \in [Procs -> [Procs -> Seq({0})]] /\ chan'["barrier"][s][p] = t
        /\ \A x, y \in Procs : ~(x = s /\ y = p) => chan'["barrier"][x][y] = chan["barrier"][x][y]
    <3>1. /\ chan'["barrier"] \in [Procs -> [Procs -> Seq({0})]]
          /\ chan'["barrier"][s] = [chan["barrier"][s] EXCEPT ![p] = t]
          /\ \A x \in Procs \ {s} : chan'["barrier"][x] = chan["barrier"][x]
      <4>1. PICK u : u = [chan["barrier"][s] EXCEPT ![p] = t]
        OBVIOUS
      <4>2. u \in [Procs -> Seq({0})]
        BY <1>5, <2>1, <2>2, <4>1
      <4>3. chan'["barrier"] = [chan["barrier"] EXCEPT ![s] = u]
        BY <2>3, <4>1
      <4> QED BY <1>5, <2>1, <4>1, <4>2, <4>3
    <3>2. chan["barrier"][s] \in [Procs -> Seq({0})]
      BY <1>5, <2>1
    <3>3. chan'["barrier"][s][p] = t /\ \A y \in Procs \ {p} : chan'["barrier"][s][y] = chan["barrier"][s][y]
      BY <3>1, <3>2
    <3> QED BY <3>1, <3>3
  <2>5. \A x, y \in Procs : Len(chan["barrier"][x][y]) \in Nat
    BY <2>1
  <2> QED BY <2>2, <2>3, <2>4, <2>5
<1>7. CollTypeOK'
  BY <1>0, <1>1, <1>3, <1>6 DEF CollTypeOK
<1>8. CallExact'
  BY <1>0, <1>1, <1>2, <1>3 DEF CallExact, Call
<1>9. \A x \in Procs : Count(x)' = Count(x) /\ Count(x) \in Nat
  <2>1. \A x \in Procs : Count(x) \in Nat
    BY <1>0, CallFacts
  <2> QED BY <1>1, <2>1 DEF Count, Reached
<1>10. /\ \A x, y \in Procs : ~(x = p /\ y = s) => Awaited(x, y)' = Awaited(x, y)
       /\ Awaited(p, s) = 1 /\ Awaited(p, s)' = 0
  <2>1. \A x, y \in Procs : ~(x = p /\ y = s) => (Awaits(x, y)' <=> Awaits(x, y))
    BY <1>1, <1>3, <1>s DEF Awaits, Call
  <2>2. Awaits(p, s)
    BY <1>1, <1>2, <1>s DEF Awaits
  <2>3. ~Awaits(p, s)'
    BY <1>1, <1>3, <1>5 DEF Awaits, Call
  <2> QED BY <2>1, <2>2, <2>3 DEF Awaited
<1>11. ASSUME NEW n \in Procs, NEW q \in Procs, rank'[n] = 0, q # n
       PROVE  /\ Len(chan'["barrier"][q][n]) + Count(n)' - Awaited(n, q)' = Count(q)'
              /\ Len(chan'["barrier"][n][q]) + Count(q)' - Awaited(q, n)' = Count(n)'
  <2>0. rank[n] = 0
    BY <1>1, <1>11
  <2>a. PICK a \in Nat : a = Len(chan["barrier"][q][n])
    BY <1>6
  <2>b. PICK b \in Nat : b = Len(chan["barrier"][n][q])
    BY <1>6
  <2>c. PICK c \in Nat : c = Count(n) /\ c = Count(n)'
    BY <1>9
  <2>d. PICK d \in Nat : d = Count(q) /\ d = Count(q)'
    BY <1>9
  <2>v. PICK v \in Int : v = Awaited(n, q)
    BY DEF Awaited
  <2>w. PICK w \in Int : w = Awaited(q, n)
    BY DEF Awaited
  <2>1. a + c - v = d /\ b + d - w = c
    <3>1. /\ Len(chan["barrier"][q][n]) + Count(n) - Awaited(n, q) = Count(q)
          /\ Len(chan["barrier"][n][q]) + Count(q) - Awaited(q, n) = Count(n)
      BY <1>0, <1>11, <2>0 DEF BarrierExact
    <3> QED BY <2>a, <2>b, <2>c, <2>d, <2>v, <2>w, <3>1
  <2>2. Len(chan'["barrier"][q][n]) + c - Awaited(n, q)' = d
    <3>1. CASE n = p /\ q = s
      <4>1. Len(chan'["barrier"][q][n]) = a - 1 /\ v = 1 /\ Awaited(n, q)' = 0
        BY <1>6, <1>10, <2>a, <2>v, <3>1
      <4>2. (a - 1) + c - 0 = d
        BY <2>1, <4>1
      <4> QED BY <4>1, <4>2
    <3>2. CASE ~(n = p /\ q = s)
      <4>1. Len(chan'["barrier"][q][n]) = a /\ Awaited(n, q)' = v
        BY <1>6, <1>10, <2>a, <2>v, <3>2
      <4> QED BY <2>1, <4>1
    <3> QED BY <3>1, <3>2
  <2>3. Len(chan'["barrier"][n][q]) + d - Awaited(q, n)' = c
    <3>1. CASE q = p /\ n = s
      <4>1. Len(chan'["barrier"][n][q]) = b - 1 /\ w = 1 /\ Awaited(q, n)' = 0
        BY <1>6, <1>10, <2>b, <2>w, <3>1
      <4>2. (b - 1) + d - 0 = c
        BY <2>1, <4>1
      <4> QED BY <4>1, <4>2
    <3>2. CASE ~(q = p /\ n = s)
      <4>1. Len(chan'["barrier"][n][q]) = b /\ Awaited(q, n)' = w
        BY <1>6, <1>10, <2>b, <2>w, <3>2
      <4> QED BY <2>1, <4>1
    <3> QED BY <3>1, <3>2
  <2> QED BY <2>2, <2>3, <2>c, <2>d
<1>12. \E x \in Procs : stage'[x] \in {"created", "closed"}
  BY <1>1, <1>2
<1>13. BarrierExact'
  BY <1>11, <1>12 DEF BarrierExact
<1> QED BY <1>7, <1>8, <1>13

\* A receive of another collective completes.
LEMMA DeliverOtherStep ==
  ASSUME IInv, NEW p \in Procs, NEW r \in Ranks, Deliver(p, r), Call(p).kind # "barrier"
  PROVE  CollTypeOK' /\ CallExact' /\ BarrierExact'
<1>0. CollTypeOK /\ CallExact /\ BarrierExact
  BY DEF IInv
<1>1. /\ r \in recvs[p] /\ recvs' = [recvs EXCEPT ![p] = recvs[p] \ {r}]
      /\ UNCHANGED <<stage, rank, ranks, Program, step, phase>>
  BY DEF Deliver, groupVars
<1>2. phase[p] # "out" /\ step[p] < Len(Program) /\ Call(p).kind \in Kinds
  BY <1>0, <1>1, CallFacts DEF CallExact
<1>3. chan'["barrier"] = chan["barrier"] /\ chan' = [k \in Kinds |-> chan'[k]]
  <2>1. \E s, t : chan' = [chan EXCEPT ![Call(p).kind][s][p] = t]
    BY DEF Deliver
  <2> QED BY <1>0, <1>2, <2>1 DEF CollTypeOK, Kinds
<1>4. /\ recvs'[p] = recvs[p] \ {r} /\ \A x \in Procs \ {p} : recvs'[x] = recvs[x]
      /\ recvs' \in [Procs -> SUBSET Ranks]
  BY <1>0, <1>1 DEF CollTypeOK
<1>5. CollTypeOK'
  BY <1>0, <1>1, <1>3, <1>4 DEF CollTypeOK
<1>6. CallExact'
  BY <1>0, <1>1, <1>2, <1>4 DEF CallExact, Call
<1>7. \A x \in Procs : Count(x)' = Count(x)
  BY <1>1 DEF Count, Reached
<1>8. \A x, y \in Procs : Awaits(x, y)' <=> Awaits(x, y)
  BY <1>1, <1>4 DEF Awaits, Call
<1>9. /\ \A m \in Procs : rank'[m] = 0 => rank[m] = 0
      /\ \A x \in Procs : stage[x] \in {"created", "closed"} => stage'[x] \in {"created", "closed"}
  BY <1>1
<1> QED BY <1>0, <1>3, <1>5, <1>6, <1>7, <1>8, <1>9, BarrierQuiet

LEMMA IInvInit == Init => IInv
<1> SUFFICES ASSUME Init PROVE IInv
  OBVIOUS
<1>1. GroupInv
  BY GroupInitInv DEF Init
<1>2. /\ \A p \in Procs : stage[p] = "out" /\ rank[p] = -1 /\ step[p] = 0 /\ phase[p] = "out" /\ recvs[p] = {}
      /\ \A p, q \in Procs : chan["barrier"][p][q] = <<>>
  BY DEF Init, GroupInit, Kinds
<1>3. <<>> \in Seq({0})
  OBVIOUS
<1>4. CollTypeOK
  BY <1>3 DEF Init, CollTypeOK, Kinds
<1>5. Len(Program) \in Nat
  BY CollectivesAssumption DEF Init
<1>6. CallExact
  BY <1>2, <1>5 DEF CallExact
<1>7. BarrierExact
  BY <1>2 DEF BarrierExact
<1> QED BY <1>1, <1>4, <1>6, <1>7 DEF IInv

LEMMA IInvNext ==
  ASSUME IInv, [Next]_vars
  PROVE  IInv'
<1>1. GroupInv'
  BY GroupNext DEF IInv
<1>2. CollTypeOK' /\ CallExact' /\ BarrierExact'
  <2>1. CASE UNCHANGED vars
    <3>1. CollTypeOK /\ CallExact /\ BarrierExact
      BY DEF IInv
    <3>2. UNCHANGED <<stage, rank, ranks, Program, step, phase, recvs, chan>>
      BY <2>1 DEF vars, groupVars, collVars
    <3>3. CollTypeOK' /\ CallExact'
      BY <3>1, <3>2 DEF CollTypeOK, CallExact, Call
    <3>4. \A x \in Procs : Count(x)' = Count(x)
      BY <3>2 DEF Count, Reached
    <3>5. \A x, y \in Procs : Awaits(x, y)' <=> Awaits(x, y)
      BY <3>2 DEF Awaits, Call
    <3> QED BY <3>1, <3>2, <3>3, <3>4, <3>5, BarrierQuiet
  <2>2. ASSUME NEW p \in Procs, CreateGroup(p) \/ CloseGroup(p) \/ AllreduceResult(p) \/ Finish(p)
        PROVE  CollTypeOK' /\ CallExact' /\ BarrierExact'
    BY <2>2, CreateGroupStep, CloseGroupStep, AllreduceResultStep, FinishStep
  <2>3. ASSUME NEW p \in Procs, Start(p) PROVE CollTypeOK' /\ CallExact' /\ BarrierExact'
    BY <2>3, StartBarrierStep, StartOtherStep
  <2>4. ASSUME NEW p \in Procs, NEW r \in Ranks, Deliver(p, r)
        PROVE  CollTypeOK' /\ CallExact' /\ BarrierExact'
    BY <2>4, DeliverBarrierStep, DeliverOtherStep
  <2> QED BY <2>1, <2>2, <2>3, <2>4 DEF Next
<1> QED BY <1>1, <1>2 DEF IInv

\* lfi_barrier: rank 0 does not leave a barrier before everyone has entered it,
\* nor does anyone else before rank 0 has, for any number of processes, any
\* program, and whether sends are buffered or wait for the receiver.
THEOREM BarrierWithRootInvariant == Spec => []BarrierWithRoot
<1>1. IInv => BarrierWithRoot
  <2> SUFFICES ASSUME IInv, NEW k \in DOMAIN Program, Program[k].kind = "barrier",
                      NEW p \in Procs, NEW q \in Procs, rank[p] = 0
               PROVE  /\ Left(p, k) => Entered(q, k)
                      /\ Left(q, k) => Entered(p, k)
    BY DEF BarrierWithRoot
  <2>0. CollTypeOK /\ CallExact /\ BarrierExact
    BY DEF IInv
  <2>1. k \in Nat \ {0}
    BY <2>0, CallFacts
  <2>2. \A x \in Procs : step[x] \in Nat /\ Reached(x) \in Nat /\ Count(x) \in Nat
    BY <2>0, CallFacts
  <2>c. PICK c : c = Cardinality(Barriers(Program, k))
    OBVIOUS
  <2>3. c \in Nat /\ c = Cardinality(Barriers(Program, k - 1)) + 1
    <3>1. k - 1 \in Nat /\ (k - 1) + 1 = k
      BY <2>1
    <3>2. PICK j \in Nat : j = k - 1
      BY <3>1
    <3>3. j + 1 = k
      BY <3>1, <3>2
    <3>4. Cardinality(Barriers(Program, j + 1)) = Cardinality(Barriers(Program, j)) + 1
      BY <3>3, BarrierCount
    <3> QED BY <2>1, <2>c, <3>2, <3>3, <3>4, BarrierCount
  <2>4. ASSUME NEW x \in Procs, ~Entered(x, k) PROVE Count(x) < c
    <3>1. Reached(x) <= k - 1 /\ k - 1 \in Nat
      BY <2>1, <2>2, <2>4 DEF Entered, Reached
    <3>2. Count(x) <= Cardinality(Barriers(Program, k - 1))
      BY <2>2, <3>1, BarriersGrow DEF Count
    <3>3. Cardinality(Barriers(Program, k - 1)) \in Nat
      BY <3>1, BarrierCount
    <3> QED BY <2>2, <2>3, <3>2, <3>3
  <2>5. ASSUME NEW x \in Procs, NEW y \in Procs, Left(x, k) PROVE c <= Count(x) - Awaited(x, y)
    <3>1. step[x] >= k /\ step[x] \in Nat
      BY <2>2, <2>5 DEF Left
    <3>2. c <= Cardinality(Barriers(Program, step[x])) /\ Cardinality(Barriers(Program, step[x])) \in Nat
      BY <2>1, <2>c, <3>1, BarriersGrow, BarrierCount
    <3>3. CASE Awaits(x, y)
      <4>1. Reached(x) = step[x] + 1 /\ step[x] + 1 \in DOMAIN Program /\ Program[step[x] + 1].kind = "barrier"
        BY <2>0, <3>3, CallFacts DEF Awaits, Reached, Call, CallExact
      <4>2. Count(x) = Cardinality(Barriers(Program, step[x])) + 1
        BY <3>1, <4>1, BarrierCount DEF Count
      <4> QED BY <2>3, <3>2, <3>3, <4>2 DEF Awaited
    <3>4. CASE ~Awaits(x, y)
      <4>1. Cardinality(Barriers(Program, step[x])) <= Count(x)
        <5>1. step[x] <= Reached(x)
          BY <3>1 DEF Reached
        <5> QED BY <2>2, <3>1, <5>1, BarriersGrow DEF Count
      <4> QED BY <2>2, <2>3, <3>2, <3>4, <4>1 DEF Awaited
    <3> QED BY <3>3, <3>4
  <2>6. CASE p = q
    BY <2>6 DEF Left, Entered
  <2>7. CASE p # q
    <3>1. /\ Len(chan["barrier"][q][p]) + Count(p) - Awaited(p, q) = Count(q)
          /\ Len(chan["barrier"][p][q]) + Count(q) - Awaited(q, p) = Count(p)
      BY <2>0, <2>7 DEF BarrierExact
    <3>2. Len(chan["barrier"][q][p]) \in Nat /\ Len(chan["barrier"][p][q]) \in Nat
      BY <2>0 DEF CollTypeOK
    <3>3. Awaited(p, q) \in Int /\ Awaited(q, p) \in Int
      BY DEF Awaited
    <3>4. Count(p) - Awaited(p, q) <= Count(q) /\ Count(q) - Awaited(q, p) <= Count(p)
      <4>a. PICK a \in Nat : a = Len(chan["barrier"][q][p])
        BY <3>2
      <4>b. PICK b \in Nat : b = Len(chan["barrier"][p][q])
        BY <3>2
      <4>c. PICK n \in Nat : n = Count(p)
        BY <2>2
      <4>d. PICK l \in Nat : l = Count(q)
        BY <2>2
      <4>e. PICK v \in Int : v = Awaited(p, q)
        BY <3>3
      <4>f. PICK w \in Int : w = Awaited(q, p)
        BY <3>3
      <4>1. a + n - v = l /\ b + l - w = n
        BY <3>1, <4>a, <4>b, <4>c, <4>d, <4>e, <4>f
      <4>2. n - v <= l /\ l - w <= n
        BY <4>1
      <4> QED BY <4>2, <4>c, <4>d, <4>e, <4>f
    <3>5. ASSUME Left(p, k), ~Entered(q, k) PROVE FALSE
      BY <2>2, <2>3, <2>4, <2>5, <3>3, <3>4, <3>5
    <3>6. ASSUME Left(q, k), ~Entered(p, k) PROVE FALSE
      BY <2>2, <2>3, <2>4, <2>5, <3>3, <3>4, <3>6
    <3> QED BY <3>5, <3>6
  <2> QED BY <2>6, <2>7
<1>2. Init => IInv
  BY IInvInit
<1>3. IInv /\ [Next]_vars => IInv'
  BY IInvNext
<1> QED BY <1>1, <1>2, <1>3, PTL DEF Spec

-----------------------------------------------------------------------------
(* The inductive invariant: broadcasts.                                    *)

\* Where processes reach a mesh server in the order of their ranks they are
\* accepted in that order: what a server has accepted is in order, and what
\* waits in its backlog comes after it.
Accepted(y, p) == \E j \in Ranks : j > rank[p] /\ ranks[p][j] = y
InOrder(p) ==
  /\ mesh[p] # <<>> => Len(workers) = Size - 1
  /\ \A i, j \in DOMAIN mesh[p] : i < j => Assigned(mesh[p][i]) < Assigned(mesh[p][j])
  /\ \A j \in Ranks : j > rank[p] /\ ranks[p][j] # None =>
       /\ \A x \in ToSet(mesh[p]) : Assigned(ranks[p][j]) < Assigned(x)
       /\ \A i \in Ranks : rank[p] < i /\ i < j =>
            ranks[p][i] # None /\ Assigned(ranks[p][i]) < Assigned(ranks[p][j])
  /\ \A x, y \in Procs :
       /\ Assigned(p) < Assigned(x) /\ Assigned(x) < Assigned(y)
       /\ y \in ToSet(mesh[p]) \/ Accepted(y, p)
       => Connected(x, p)
MeshOrder == OnlyRoot0 \/ \A p \in Procs : InOrder(p)

\* The values broadcasts carry.
Values == {Input[k][r] : k \in DOMAIN Input, r \in Ranks}

CastTypeOK ==
  /\ chan["broadcast"] \in [Procs -> [Procs -> Seq(Values)]]
  /\ data = [p \in Procs |-> data[p]]

\* The broadcasts from rank r among the first k calls of a program.
Casts(prog, r, k) ==
  {i \in 1..k : i \in DOMAIN prog /\ prog[i].kind = "broadcast" /\ prog[i].root = r}

\* How many p has entered, and how many it has the value of, its own call but for
\* the wait included.
Entries(p, r) == Cardinality(Casts(Program, r, Reached(p)))
Waits(p, r) == phase[p] # "out" /\ Call(p).kind = "broadcast" /\ Call(p).root = r /\ recvs[p] # {}
Past(p, r) == IF Waits(p, r) THEN step[p] ELSE Reached(p)
Taken(p, r) == Cardinality(Casts(Program, r, Past(p, r)))

\* Between the process p of rank r and another one q: what p has sent in its
\* broadcasts and q has not taken is on its way, in the order of the calls, each
\* message with the value of its own call.
CastExact ==
  /\ \A p, q \in Procs, r \in Ranks : p # q /\ Assigned(p) = r =>
       /\ Len(chan["broadcast"][p][q]) + Taken(q, r) = Entries(p, r)
       /\ \A i \in 1..Len(chan["broadcast"][p][q]), k \in DOMAIN Program :
            /\ Program[k].kind = "broadcast" /\ Program[k].root = r
            /\ Cardinality(Casts(Program, r, k)) = Taken(q, r) + i
            => chan["broadcast"][p][q][i] = Input[k][r]
  /\ (\A p \in Procs : stage[p] \notin {"created", "closed"}) =>
       \A p, q \in Procs : chan["broadcast"][p][q] = <<>>

\* The buffer of a process, in a broadcast and right after one.
DataExact ==
  \A p \in Procs :
    /\ phase[p] # "out" /\ Call(p).kind = "broadcast" =>
         /\ phase[p] = "last" /\ recvs[p] \subseteq {Call(p).root} \ {rank[p]}
         /\ recvs[p] = {} => data[p] = Input[step[p] + 1][Call(p).root]
    /\ phase[p] = "out" /\ step[p] > 0 /\ Program[step[p]].kind = "broadcast" =>
         data[p] = Input[step[p]][Program[step[p]].root]

CastInv == IInv /\ MeshOrder /\ CastTypeOK /\ CastExact /\ DataExact

\* What holds of every mesh, and of the orderly ones in addition: a mesh that is
\* out of order stays so, and before that all connections were made in order.
DataOK == data = [p \in Procs |-> data[p]]
BaseInv == IInv /\ DataOK
OrderlyInv == BaseInv /\ (Orderly => CastInv)

-----------------------------------------------------------------------------
(* Processes that connect in the order of their ranks.                     *)

LEMMA AssignedInt ==
  ASSUME TypeOK, NEW p \in Procs
  PROVE  Assigned(p) \in Int
<1>1. rank[p] \in Int /\ reply[p] \in Ranks \cup {-2, None} /\ Ranks \subseteq Int
  BY GroupAssumption DEF TypeOK, Ranks
<1>2. Assigned(p) = rank[p] \/ (reply[p] # None /\ Assigned(p) = reply[p])
  BY DEF Assigned
<1>3. reply[p] # None => reply[p] \in Int
  <2>1. -2 \in Int
    OBVIOUS
  <2>2. reply[p] # None => reply[p] \in Ranks \/ reply[p] = -2
    BY <1>1
  <2>3. \A r \in Ranks : r \in Int
    BY <1>1
  <2> QED BY <2>1, <2>2, <2>3
<1> QED BY <1>1, <1>2, <1>3

\* A connection is only made when all ranks have been handed out.
LEMMA SomeConnected ==
  ASSUME GroupInv, ~OnlyRoot0, MeshOrder, NEW p \in Procs, mesh[p] # <<>> \/ ranks[p] # NoPeers
  PROVE  /\ Len(workers) = Size - 1 /\ \E m \in Procs : rank[m] = 0
         /\ \A x \in Procs : stage[x] # "out" /\ (reply[x] # None \/ rank[x] = 0)
<1>0. TypeOK /\ RankExact /\ QueuesExact /\ MeshExact
  BY DEF GroupInv
<1>1. ASSUME ranks[p] # NoPeers PROVE Len(workers) = Size - 1 /\ \E m \in Procs : rank[m] = 0
  <2>1. stage[p] \in Meshed
    BY <1>0, <1>1 DEF MeshExact, Meshed
  <2> QED BY <2>1, FormedTable
<1>2. ASSUME mesh[p] # <<>> PROVE Len(workers) = Size - 1 /\ \E m \in Procs : rank[m] = 0
  <2>1. PICK y \in Procs : y \in ToSet(mesh[p])
    <3>1. PICK s \in Seq(Procs) : s = mesh[p]
      BY <1>0 DEF TypeOK
    <3>2. 1 \in DOMAIN s /\ s[1] \in Procs
      BY <1>2, <3>1
    <3> QED BY <3>1, <3>2 DEF ToSet
  <2>2. Connected(y, p)
    BY <1>0, <2>1 DEF MeshExact
  <2>3. Assigned(y) > 0
    BY <2>2, GroupAssumption DEF Connected, Ranks
  <2>4. y \in ToSet(workers)
    <3>1. CASE reply[y] # None
      BY <1>0, <3>1 DEF RankExact
    <3>2. CASE reply[y] = None
      <4>1. Assigned(y) = rank[y]
        BY <3>2 DEF Assigned
      <4>2. rank[y] = 0 \/ rank[y] = -1 \/ rank[y] = reply[y]
        BY <1>0 DEF RankExact
      <4>3. rank[y] \in Int /\ None \notin Int
        BY <1>0, GroupAssumption DEF TypeOK
      <4> QED BY <2>3, <3>2, <4>1, <4>2, <4>3
    <3> QED BY <3>1, <3>2
  <2>5. workers # <<>>
    BY <2>4 DEF ToSet
  <2> QED BY <1>0, <1>2, <2>5 DEF QueuesExact, MeshOrder, InOrder
<1>3. Len(workers) = Size - 1 /\ \E m \in Procs : rank[m] = 0
  BY <1>1, <1>2
<1>4. PICK m \in Procs : rank[m] = 0
  BY <1>3
<1>5. ToSet(workers) = Procs \ {m}
  BY <1>0, <1>3, <1>4, AllWorkers
<1>6. \A x \in Procs : stage[x] # "out" /\ (reply[x] # None \/ rank[x] = 0)
  BY <1>0, <1>4, <1>5 DEF RankExact, Meshed
<1> QED BY <1>3, <1>6

\* Nobody is connected.
LEMMA OrderNone ==
  ASSUME \A p \in Procs : mesh'[p] = <<>> /\ ranks'[p] = NoPeers
  PROVE  MeshOrder'
<1>1. \A x : x \notin ToSet(<<>>)
  BY DEF ToSet
<1>2. \A p \in Procs, j \in Ranks : ranks'[p][j] = None
  BY DEF NoPeers
<1>3. None \notin Procs
  BY GroupAssumption DEF Procs
<1>4. ASSUME NEW p \in Procs PROVE InOrder(p)'
  BY <1>1, <1>2, <1>3 DEF InOrder, Accepted
<1> QED BY <1>4 DEF MeshOrder

\* A step that makes no connection.
LEMMA OrderKept ==
  ASSUME TypeOK, MeshOrder, ~OnlyRoot0, mesh' = mesh,
         Len(workers) = Size - 1 => Len(workers') = Size - 1,
         \A x \in Procs : ranks'[x] = NoPeers \/ (ranks'[x] = ranks[x] /\ rank'[x] = rank[x]),
         \A x \in Procs : Assigned(x)' = Assigned(x),
         \A x, y \in Procs : Connected(x, y) => Connected(x, y)'
  PROVE  MeshOrder'
<1>1. \A p \in Procs : InOrder(p)
  BY DEF MeshOrder
<1>2. None \notin Procs /\ \A j \in Ranks : NoPeers[j] = None
  BY GroupAssumption DEF Procs, NoPeers
<1>3. ASSUME NEW p \in Procs PROVE InOrder(p)'
  <2>m. PICK s \in Seq(Procs) : s = mesh[p] /\ s = mesh'[p]
    BY DEF TypeOK
  <2>1. s # <<>> => Len(workers') = Size - 1
    BY <1>1, <2>m DEF InOrder
  <2>2. \A i, j \in DOMAIN s : i < j => Assigned(s[i])' < Assigned(s[j])'
    <3>1. \A i \in DOMAIN s : s[i] \in Procs
      OBVIOUS
    <3>2. \A i, j \in DOMAIN s : i < j => Assigned(s[i]) < Assigned(s[j])
      BY <1>1, <2>m DEF InOrder
    <3> QED BY <3>1, <3>2
  <2>3. \A x \in ToSet(s) : x \in Procs
    BY ElementOf
  <2>4. ASSUME NEW j \in Ranks, j > rank'[p], ranks'[p][j] # None
        PROVE  /\ \A x \in ToSet(s) : Assigned(ranks[p][j])' < Assigned(x)'
               /\ \A i \in Ranks : rank'[p] < i /\ i < j =>
                    ranks'[p][i] # None /\ Assigned(ranks[p][i])' < Assigned(ranks[p][j])'
    <3>1. ranks'[p] = ranks[p] /\ rank'[p] = rank[p]
      BY <1>2, <2>4
    <3>2. \A i \in Ranks : ranks[p][i] # None => ranks[p][i] \in Procs
      BY DEF TypeOK
    <3>3. /\ \A x \in ToSet(s) : Assigned(ranks[p][j]) < Assigned(x)
          /\ \A i \in Ranks : rank[p] < i /\ i < j =>
               ranks[p][i] # None /\ Assigned(ranks[p][i]) < Assigned(ranks[p][j])
      BY <1>1, <2>4, <2>m, <3>1 DEF InOrder
    <3>4. \A i \in Ranks : ranks[p][i] # None => Assigned(ranks[p][i])' = Assigned(ranks[p][i])
      <4>1. ASSUME NEW i \in Ranks, ranks[p][i] # None PROVE Assigned(ranks[p][i])' = Assigned(ranks[p][i])
        <5>1. PICK t \in Procs : t = ranks[p][i] /\ t = ranks'[p][i]
          BY <3>1, <3>2, <4>1
        <5> QED BY <5>1
      <4> QED BY <4>1
    <3> QED BY <2>3, <2>4, <3>1, <3>3, <3>4
  <2>5. ASSUME NEW x \in Procs, NEW y \in Procs, Assigned(p)' < Assigned(x)', Assigned(x)' < Assigned(y)',
               y \in ToSet(s) \/ Accepted(y, p)'
        PROVE  Connected(x, p)'
    <3>1. Accepted(y, p)' => Accepted(y, p)
      BY <1>2 DEF Accepted
    <3>2. Connected(x, p)
      BY <1>1, <2>5, <2>m, <3>1 DEF InOrder
    <3> QED BY <3>2
  <2> QED BY <2>1, <2>2, <2>4, <2>5, <2>m DEF InOrder
<1> QED BY <1>3 DEF MeshOrder

\* A step of lfi_group_create that makes no connection, when all ranks have been
\* handed out.
LEMMA CreateKeepsRanks ==
  ASSUME GroupInv, NEW p \in Procs, CreateStep(p), Len(workers) = Size - 1,
         \A x \in Procs : stage[x] # "out" /\ (reply[x] # None \/ rank[x] = 0)
  PROVE  /\ UNCHANGED <<workers, reply>>
         /\ \A x \in Procs : Assigned(x)' = Assigned(x)
         /\ \A x \in Procs : rank'[x] = rank[x] \/ stage[x] = "registered"
<1>0. TypeOK /\ RankExact
  BY DEF GroupInv
<1>1. ~Create(p) /\ ~MasterAccept(p)
  BY GroupAssumption DEF Create, Enters, MasterAccept
<1>2. UNCHANGED <<workers, reply>>
  BY <1>1 DEF CreateStep, WorkerConnect, WorkerFail, MasterTimeout, MasterSend, WorkerRank, WorkerTable,
              MeshConnect, MeshAccept, MeshDone
<1>3. UNCHANGED rank \/ (WorkerRank(p) /\ stage[p] = "registered")
  BY <1>1 DEF CreateStep, WorkerConnect, WorkerFail, MasterTimeout, MasterSend, WorkerRank, WorkerTable,
              MeshConnect, MeshAccept, MeshDone, Enters
<1>4. CASE UNCHANGED rank
  BY <1>2, <1>4 DEF Assigned
<1>5. CASE WorkerRank(p) /\ stage[p] = "registered"
  <2>1. reply[p] # None /\ \A x \in Procs \ {p} : rank'[x] = rank[x]
    BY <1>0, <1>5 DEF WorkerRank, TypeOK
  <2>2. \A x \in Procs : Assigned(x)' = Assigned(x)
    BY <1>2, <2>1 DEF Assigned
  <2> QED BY <1>2, <1>5, <2>1, <2>2
<1> QED BY <1>3, <1>4, <1>5

\* A connection that has been made stays made.
LEMMA ConnectedStays ==
  ASSUME TypeOK, \A x \in Procs : Assigned(x)' = Assigned(x),
         \A x \in Procs : stage[x] \in Meshed \cup {"failed"} => stage'[x] \in Meshed \cup {"failed"},
         \A x \in Procs : stage[x] \in Meshed \cup {"failed"} /\ stage'[x] = "mesh" =>
           stage[x] = "mesh" /\ \A j \in Ranks : ranks[x][j] # None => ranks'[x][j] # None
  PROVE  \A x, y \in Procs : Connected(x, y) => Connected(x, y)'
<1> SUFFICES ASSUME NEW x \in Procs, NEW y \in Procs, Connected(x, y)
             PROVE  Connected(x, y)'
  OBVIOUS
<1>1. PICK a \in Ranks : a = Assigned(y) /\ a = Assigned(y)'
  BY DEF Connected
<1>2. PICK b \in Ranks : b = Assigned(x) /\ b = Assigned(x)'
  BY DEF Connected
<1>3. b > a /\ stage[x] \in Meshed \cup {"failed"} /\ (stage[x] = "mesh" => ranks[x][a] # None)
  BY <1>1, <1>2 DEF Connected
<1>4. stage'[x] \in Meshed \cup {"failed"} /\ (stage'[x] = "mesh" => ranks'[x][a] # None)
  BY <1>3
<1> QED BY <1>1, <1>2, <1>3, <1>4 DEF Connected

\* The same for a step of lfi_group_create.
LEMMA MeshStays ==
  ASSUME TypeOK, NEW p \in Procs, CreateStep(p), \A x \in Procs : Assigned(x)' = Assigned(x)
  PROVE  \A x, y \in Procs : Connected(x, y) => Connected(x, y)'
<1>t. /\ stage \in [Procs -> Stages] /\ ranks \in [Procs -> [Ranks -> Procs \cup {None}]]
      /\ mesh \in [Procs -> Seq(Procs)] /\ port_table \in [Procs -> [Ranks -> Procs \cup {None}]]
  BY DEF TypeOK
<1>1. ASSUME NEW x \in Procs, x # p PROVE stage'[x] = stage[x] /\ ranks'[x] = ranks[x]
  BY <1>1, <1>t DEF CreateStep, Create, WorkerConnect, WorkerFail, MasterAccept, MasterTimeout, MasterSend,
                    WorkerRank, WorkerTable, MeshConnect, MeshAccept, MeshDone, Enters
<1>2. CASE MeshConnect(p) \/ MeshAccept(p)
  <2>1. stage[p] = "mesh"
    BY <1>2 DEF MeshConnect, MeshAccept
  <2>2. CASE UNCHANGED stage
    <3>1. \E j, q : q # None /\ ranks' = [ranks EXCEPT ![p] = [ranks[p] EXCEPT ![j] = q]]
      <4>1. CASE MeshConnect(p)
        BY <1>t, <2>1, <2>2, <4>1 DEF MeshConnect
      <4>2. CASE MeshAccept(p)
        <5>1. mesh[p] # <<>>
          BY <1>t, <2>1, <2>2, <4>2 DEF MeshAccept
        <5>2. Head(mesh[p]) \in Procs
          BY <1>t, <5>1
        <5>3. None \notin Procs
          BY GroupAssumption DEF Procs
        <5>4. ranks' = [ranks EXCEPT ![p] = [ranks[p] EXCEPT ![Min(MeshNext(p))] = Head(mesh[p])]]
          BY <4>2, <5>1 DEF MeshAccept
        <5> QED BY <5>2, <5>3, <5>4
      <4> QED BY <1>2, <4>1, <4>2
    <3>2. PICK j, q : q # None /\ ranks' = [ranks EXCEPT ![p] = [ranks[p] EXCEPT ![j] = q]]
      BY <3>1
    <3>3. \A x \in Procs, i \in Ranks : ranks[x][i] # None => ranks'[x][i] # None
      BY <1>t, <3>2
    <3> QED BY <2>2, <3>3, ConnectedStays
  <2>3. CASE stage' = [stage EXCEPT ![p] = "failed"]
    BY <1>1, <1>t, <2>1, <2>3, ConnectedStays DEF Meshed
  <2> QED BY <1>2, <2>2, <2>3 DEF MeshConnect, MeshAccept
<1>3. CASE ~(MeshConnect(p) \/ MeshAccept(p))
  <2>1. /\ stage[p] \in Meshed \cup {"failed"} => stage'[p] = "created"
        /\ UNCHANGED ranks
    BY <1>3, <1>t DEF CreateStep, Create, WorkerConnect, WorkerFail, MasterAccept, MasterTimeout, MasterSend,
                      WorkerRank, WorkerTable, MeshDone, Enters, Meshed
  <2> QED BY <1>1, <2>1, ConnectedStays DEF Meshed
<1> QED BY <1>2, <1>3

\* Lower connections are not among those a server accepts.
LEMMA OrderConnect ==
  ASSUME GroupInv, MeshOrder, ~OnlyRoot0, NEW p \in Procs, MeshConnect(p), ConnectsInOrder(p),
         Len(workers) = Size - 1,
         \A x \in Procs : Assigned(x)' = Assigned(x),
         \A x, y \in Procs : Connected(x, y) => Connected(x, y)'
  PROVE  MeshOrder'
<1>0. TypeOK /\ RankExact /\ MeshExact
  BY DEF GroupInv
<1>r. None \notin Procs /\ Ranks \subseteq Int /\ \A i \in Ranks : NoPeers[i] = None
  BY GroupAssumption DEF Ranks, Procs, NoPeers
<1>j. PICK j : j = Min(MeshNext(p))
  OBVIOUS
<1>q. PICK q : q = port_table[p][j]
  OBVIOUS
<1>1. /\ stage[p] = "mesh" /\ MeshNext(p) # {} /\ j < rank[p]
      /\ UNCHANGED <<host, rank, port_table, master, backlog, workers, reply>>
  BY <1>j DEF MeshConnect
<1>2. j \in Ranks /\ j # rank[p] /\ ranks[p][j] = None
  <2>1. MeshNext(p) \subseteq Ranks
    BY DEF MeshNext
  <2>2. Min(MeshNext(p)) \in MeshNext(p)
    BY <1>1, <2>1, MinOf
  <2> QED BY <1>j, <2>2 DEF MeshNext
<1>a. \A x \in Procs : Assigned(x) \in Int
  BY <1>0, AssignedInt
<1>3. CASE q = None
  <2>1. ranks' = [ranks EXCEPT ![p] = NoPeers] /\ UNCHANGED mesh
    BY <1>3, <1>j, <1>q DEF MeshConnect
  <2>2. \A x \in Procs : ranks'[x] = NoPeers \/ (ranks'[x] = ranks[x] /\ rank'[x] = rank[x])
    BY <1>0, <1>1, <2>1 DEF TypeOK
  <2> QED BY <1>0, <1>1, <2>1, <2>2, OrderKept
<1>4. CASE q # None
  <2>1. /\ ranks' = [ranks EXCEPT ![p] = [ranks[p] EXCEPT ![j] = q]]
        /\ mesh' = [mesh EXCEPT ![q] = Append(mesh[q], p)]
    BY <1>4, <1>j, <1>q DEF MeshConnect
  <2>2. q \in Procs /\ Assigned(q) = j
    BY <1>1, <1>2, <1>4, <1>q, FormedTable DEF Meshed
  <2>3. Assigned(p) = rank[p] /\ rank[p] \in Ranks
    BY <1>0, <1>1, AssignedFacts DEF Meshed
  <2>4. ~Connected(p, q)
    BY <1>1, <1>2, <2>2 DEF Connected
  <2>5. /\ ranks'[p][j] = q /\ \A i \in Ranks \ {j} : ranks'[p][i] = ranks[p][i]
        /\ \A x \in Procs \ {p} : ranks'[x] = ranks[x]
    BY <1>0, <1>2, <2>1, <2>2 DEF TypeOK
  <2>6. \A x \in Procs, i \in Ranks : i > rank[x] => ranks'[x][i] = ranks[x][i]
    BY <1>1, <1>2, <1>r, <2>3, <2>5
  <2>7. \A x \in Procs, y \in Procs : Accepted(y, x)' <=> Accepted(y, x)
    BY <1>1, <2>6 DEF Accepted
  <2>8. \A x \in Procs : InOrder(x)
    BY DEF MeshOrder
  <2>9. \A x \in Procs : Assigned(x) = Assigned(p) => x = p
    BY <1>1, <2>3, FormedTable DEF Meshed
  \* Whoever is before p in the backlog of q has a lower rank.
  <2>10. ASSUME NEW y \in Procs, y \in ToSet(mesh[q]) \/ Accepted(y, q) PROVE Assigned(y) < Assigned(p)
    <3>1. Connected(y, q)
      <4>1. CASE y \in ToSet(mesh[q])
        BY <1>0, <2>2, <4>1 DEF MeshExact
      <4>2. CASE Accepted(y, q)
        <5>1. PICK i \in Ranks : i > rank[q] /\ ranks[q][i] = y
          BY <4>2 DEF Accepted
        <5> QED BY <1>0, <2>2, <5>1 DEF MeshExact
      <4> QED BY <2>10, <4>1, <4>2
    <3>2. y # p
      BY <2>4, <3>1
    <3>3. ~(Assigned(p) < Assigned(y))
      <4>1. ASSUME Assigned(p) < Assigned(y) PROVE FALSE
        <5>1. Assigned(q) < Assigned(p)
          BY <1>1, <2>2, <2>3
        <5> QED BY <2>2, <2>4, <2>8, <2>10, <4>1, <5>1 DEF InOrder
      <4> QED BY <4>1
    <3> QED BY <1>a, <2>9, <3>2, <3>3
  \* Whoever comes between q and p in rank has connected to q.
  <2>11. ASSUME NEW x \in Procs, Assigned(q) < Assigned(x), Assigned(x) < Assigned(p) PROVE Connected(x, q)
    <3>1. j \in 0..(rank[p] - 1) /\ Assigned(x) \in (j + 1)..(rank[p] - 1) /\ Assigned(x) \in Ranks
      BY <1>1, <1>2, <1>a, <2>2, <2>3, <2>11, GroupAssumption DEF Ranks
    <3>2. ranks[p][j] = None /\ ranks'[p][j] # None
      BY <1>2, <1>4, <2>5
    <3>3. ranks[x][j] # None
      BY <3>1, <3>2 DEF ConnectsInOrder
    <3>4. ranks[x] # NoPeers
      BY <1>2, <1>r, <3>3
    <3>5. stage[x] \in {"mesh", "created"}
      BY <1>0, <3>4 DEF MeshExact
    <3> QED BY <1>2, <2>2, <2>11, <3>1, <3>3, <3>5 DEF Connected, Meshed
  <2>12. ASSUME NEW x \in Procs PROVE InOrder(x)'
    <3>m. PICK s \in Seq(Procs) : s = mesh[x]
      BY <1>0 DEF TypeOK
    <3>t. PICK t : t = mesh'[x]
      OBVIOUS
    <3>1. \A k \in DOMAIN s : s[k] \in Procs /\ s[k] \in ToSet(s)
      BY DEF ToSet
    <3>2. \A y \in ToSet(s) : y \in Procs
      BY ElementOf
    <3>3. \A i, k \in DOMAIN s : i < k => Assigned(s[i]) < Assigned(s[k])
      BY <2>8, <3>m DEF InOrder
    <3>4. /\ \A i, k \in DOMAIN t : i < k => t[i] \in Procs /\ t[k] \in Procs /\ Assigned(t[i]) < Assigned(t[k])
          /\ \A y \in ToSet(t) : y \in ToSet(s) \/ (y = p /\ x = q)
      <4>1. CASE x # q
        <5>1. t = s
          BY <1>0, <2>1, <3>m, <3>t, <4>1 DEF TypeOK
        <5> QED BY <3>1, <3>3, <5>1
      <4>2. CASE x = q
        <5>1. t = Append(s, p)
          BY <1>0, <2>1, <2>2, <3>m, <3>t, <4>2 DEF TypeOK
        <5>2. Len(t) = Len(s) + 1 /\ DOMAIN t = 1..Len(t) /\ DOMAIN s = 1..Len(s) /\ Len(s) \in Nat
          BY <5>1
        <5>3. t[Len(s) + 1] = p /\ \A i \in 1..Len(s) : t[i] = s[i]
          BY <5>1
        <5>4. \A i \in 1..Len(s) : Assigned(s[i]) < Assigned(p)
          BY <2>10, <3>1, <3>m, <4>2, <5>2
        <5>5. ASSUME NEW i \in DOMAIN t, NEW k \in DOMAIN t, i < k
              PROVE  t[i] \in Procs /\ t[k] \in Procs /\ Assigned(t[i]) < Assigned(t[k])
          <6>1. i \in 1..Len(s)
            BY <5>2, <5>5
          <6>2. CASE k \in 1..Len(s)
            BY <3>1, <3>3, <5>2, <5>3, <5>5, <6>1, <6>2
          <6>3. CASE k = Len(s) + 1
            BY <3>1, <5>2, <5>3, <5>4, <6>1, <6>3
          <6> QED BY <5>2, <6>2, <6>3
        <5>6. \A y \in ToSet(t) : y \in ToSet(s) \/ y = p
          <6>1. \A i \in DOMAIN t : t[i] \in ToSet(s) \/ t[i] = p
            BY <3>1, <5>2, <5>3
          <6> QED BY <6>1 DEF ToSet
        <5> QED BY <4>2, <5>5, <5>6
      <4> QED BY <4>1, <4>2
    <3>5. \A i, k \in DOMAIN t : i < k => Assigned(t[i])' < Assigned(t[k])'
      BY <3>4
    <3>6. ASSUME NEW k \in Ranks, k > rank[x], ranks'[x][k] # None
          PROVE  /\ \A y \in ToSet(t) : Assigned(ranks[x][k])' < Assigned(y)'
                 /\ \A i \in Ranks : rank[x] < i /\ i < k =>
                      ranks'[x][i] # None /\ Assigned(ranks[x][i])' < Assigned(ranks[x][k])'
      <4>1. \A i \in Ranks : ranks[x][i] # None => ranks[x][i] \in Procs
        BY <1>0 DEF TypeOK
      <4>u. PICK u \in Procs : u = ranks[x][k] /\ u = ranks'[x][k]
        BY <2>6, <3>6, <4>1
      <4>2. /\ \A y \in ToSet(s) : Assigned(u) < Assigned(y)
            /\ \A i \in Ranks : rank[x] < i /\ i < k =>
                 ranks[x][i] # None /\ Assigned(ranks[x][i]) < Assigned(u)
        <5>1. ranks[x][k] # None
          BY <1>r, <4>u
        <5> QED BY <2>8, <3>6, <3>m, <4>u, <5>1 DEF InOrder
      <4>3. x = q => Assigned(u) < Assigned(p)
        BY <2>10, <3>6, <4>u DEF Accepted
      <4>4. \A y \in ToSet(t) : Assigned(ranks[x][k])' < Assigned(y)'
        BY <3>2, <3>4, <4>2, <4>3, <4>u
      <4>5. ASSUME NEW i \in Ranks, rank[x] < i, i < k
            PROVE  ranks'[x][i] # None /\ Assigned(ranks[x][i])' < Assigned(ranks[x][k])'
        <5>1. ranks[x][i] # None /\ Assigned(ranks[x][i]) < Assigned(u)
          BY <4>2, <4>5
        <5>2. PICK w \in Procs : w = ranks[x][i]
          BY <4>1, <5>1
        <5>3. ranks'[x][i] = w
          BY <2>6, <4>5, <5>2
        <5> QED BY <1>r, <4>u, <5>1, <5>2, <5>3
      <4> QED BY <4>4, <4>5
    <3>7. ASSUME NEW z \in Procs, NEW y \in Procs, Assigned(x)' < Assigned(z)', Assigned(z)' < Assigned(y)',
                 y \in ToSet(t) \/ Accepted(y, x)'
          PROVE  Connected(z, x)'
      <4>1. Assigned(x) < Assigned(z) /\ Assigned(z) < Assigned(y)
        BY <3>7
      <4>2. CASE y \in ToSet(s) \/ Accepted(y, x)
        BY <2>8, <3>m, <4>1, <4>2 DEF InOrder
      <4>3. CASE y = p /\ x = q
        BY <2>11, <4>1, <4>3
      <4> QED BY <2>7, <3>4, <3>7, <4>2, <4>3
    <3>8. Len(workers') = Size - 1 /\ rank'[x] = rank[x]
      BY <1>1
    <3> QED BY <3>5, <3>6, <3>7, <3>8, <3>t DEF InOrder
  <2> QED BY <2>12 DEF MeshOrder
<1> QED BY <1>3, <1>4

\* The oldest connection of the backlog takes the place after those accepted.
LEMMA OrderAccept ==
  ASSUME GroupInv, MeshOrder, ~OnlyRoot0, NEW p \in Procs, MeshAccept(p),
         Len(workers) = Size - 1,
         \A x \in Procs : Assigned(x)' = Assigned(x),
         \A x, y \in Procs : Connected(x, y) => Connected(x, y)'
  PROVE  MeshOrder'
<1>0. TypeOK /\ RankExact /\ MeshExact
  BY DEF GroupInv
<1>r. None \notin Procs /\ Ranks \subseteq Int /\ \A i \in Ranks : NoPeers[i] = None
  BY GroupAssumption DEF Ranks, Procs, NoPeers
<1>j. PICK j : j = Min(MeshNext(p))
  OBVIOUS
<1>1. /\ stage[p] = "mesh" /\ MeshNext(p) # {} /\ j > rank[p]
      /\ UNCHANGED <<host, rank, port_table, master, backlog, workers, reply>>
  BY <1>j DEF MeshAccept
<1>2. j \in Ranks /\ j # rank[p] /\ ranks[p][j] = None
  <2>1. MeshNext(p) \subseteq Ranks
    BY DEF MeshNext
  <2>2. Min(MeshNext(p)) \in MeshNext(p)
    BY <1>1, <2>1, MinOf
  <2> QED BY <1>j, <2>2 DEF MeshNext
<1>3. \A i \in Ranks : i < j /\ i # rank[p] => ranks[p][i] # None
  <2>1. \A i \in MeshNext(p) : j <= i
    <3>1. MeshNext(p) \subseteq Ranks
      BY DEF MeshNext
    <3> QED BY <1>1, <1>j, <3>1, MinOf
  <2> QED BY <1>2, <1>r, <2>1 DEF MeshNext
<1>4. \A x \in Procs : InOrder(x)
  BY DEF MeshOrder
<1>5. CASE mesh[p] = <<>>
  <2>1. ranks' = [ranks EXCEPT ![p] = NoPeers] /\ UNCHANGED mesh
    BY <1>5 DEF MeshAccept
  <2>2. \A x \in Procs : ranks'[x] = NoPeers \/ (ranks'[x] = ranks[x] /\ rank'[x] = rank[x])
    BY <1>0, <1>1, <2>1 DEF TypeOK
  <2> QED BY <1>0, <1>1, <2>1, <2>2, OrderKept
<1>6. CASE mesh[p] # <<>>
  <2>s. PICK s \in Seq(Procs) : s = mesh[p]
    BY <1>0 DEF TypeOK
  <2>t. PICK t : t = Tail(s)
    OBVIOUS
  <2>h. PICK h : h = Head(s)
    OBVIOUS
  <2>1. /\ ranks' = [ranks EXCEPT ![p] = [ranks[p] EXCEPT ![j] = h]]
        /\ mesh' = [mesh EXCEPT ![p] = t]
    BY <1>6, <1>j, <2>h, <2>s, <2>t DEF MeshAccept
  <2>2. /\ s # <<>> /\ h = s[1] /\ h \in Procs /\ h \in ToSet(s) /\ Len(s) \in Nat /\ DOMAIN s = 1..Len(s)
        /\ t \in Seq(Procs) /\ Len(t) = Len(s) - 1 /\ DOMAIN t = 1..(Len(s) - 1)
        /\ \A i \in 1..(Len(s) - 1) : t[i] = s[i + 1] /\ i + 1 \in DOMAIN s /\ 1 < i + 1
    <3>1. s # <<>>
      BY <1>6, <2>s
    <3>2. h = s[1] /\ h \in Procs /\ Len(s) \in Nat /\ DOMAIN s = 1..Len(s) /\ 1 \in DOMAIN s
      BY <2>h, <3>1
    <3>3. t \in Seq(Procs) /\ Len(t) = Len(s) - 1 /\ DOMAIN t = 1..(Len(s) - 1)
      BY <2>t, <3>1
    <3>4. \A i \in 1..(Len(s) - 1) : t[i] = s[i + 1] /\ i + 1 \in DOMAIN s /\ 1 < i + 1
      BY <2>t, <3>1, <3>2
    <3> QED BY <3>1, <3>2, <3>3, <3>4 DEF ToSet
  <2>3. /\ ranks'[p][j] = h /\ \A i \in Ranks \ {j} : ranks'[p][i] = ranks[p][i]
        /\ \A x \in Procs \ {p} : ranks'[x] = ranks[x]
    BY <1>0, <1>2, <2>1, <2>2 DEF TypeOK
  <2>4. mesh'[p] = t /\ \A x \in Procs \ {p} : mesh'[x] = mesh[x]
    BY <1>0, <2>1 DEF TypeOK
  <2>5. \A i \in DOMAIN s : s[i] \in Procs /\ s[i] \in ToSet(s)
    BY DEF ToSet
  <2>6. \A i, k \in DOMAIN s : i < k => Assigned(s[i]) < Assigned(s[k])
    BY <1>4, <2>s DEF InOrder
  <2>7. \A y \in ToSet(t) : y \in Procs /\ y \in ToSet(s) /\ Assigned(h) < Assigned(y)
    <3>1. \A i \in DOMAIN t : t[i] \in Procs /\ t[i] \in ToSet(s) /\ Assigned(h) < Assigned(t[i])
      <4> SUFFICES ASSUME NEW i \in DOMAIN t
                   PROVE  t[i] \in Procs /\ t[i] \in ToSet(s) /\ Assigned(h) < Assigned(t[i])
        OBVIOUS
      <4>1. t[i] = s[i + 1] /\ i + 1 \in DOMAIN s /\ 1 < i + 1 /\ 1 \in DOMAIN s /\ h = s[1]
        BY <2>2
      <4> QED BY <2>5, <2>6, <4>1
    <3> QED BY <3>1 DEF ToSet
  <2>8. \A i, k \in DOMAIN t : i < k => t[i] \in Procs /\ t[k] \in Procs /\ Assigned(t[i]) < Assigned(t[k])
    <3> SUFFICES ASSUME NEW i \in DOMAIN t, NEW k \in DOMAIN t, i < k
                 PROVE  t[i] \in Procs /\ t[k] \in Procs /\ Assigned(t[i]) < Assigned(t[k])
      OBVIOUS
    <3>1. i + 1 \in DOMAIN s /\ k + 1 \in DOMAIN s /\ i + 1 < k + 1 /\ t[i] = s[i + 1] /\ t[k] = s[k + 1]
      BY <2>2
    <3> QED BY <2>5, <2>6, <3>1
  <2>9. \A i \in Ranks : i > rank[p] /\ ranks[p][i] # None =>
          /\ \A y \in ToSet(s) : Assigned(ranks[p][i]) < Assigned(y)
          /\ \A k \in Ranks : rank[p] < k /\ k < i =>
               ranks[p][k] # None /\ Assigned(ranks[p][k]) < Assigned(ranks[p][i])
    BY <1>4, <2>s DEF InOrder
  <2>10. \A i \in Ranks : i > j => ranks[p][i] = None
    <3>1. rank[p] \in Int
      BY <1>0 DEF TypeOK
    <3>2. \A i \in Ranks : i > j => i > rank[p]
      BY <1>1, <1>2, <1>r, <3>1
    <3> QED BY <1>1, <1>2, <2>9, <3>2
  <2>11. \A i \in Ranks : ranks[p][i] # None => ranks[p][i] \in Procs
    BY <1>0 DEF TypeOK
  <2>12. InOrder(p)'
    <3>1. t # <<>> => Len(workers') = Size - 1
      BY <1>1
    <3>2. \A i, k \in DOMAIN t : i < k => Assigned(t[i])' < Assigned(t[k])'
      BY <2>8
    <3>3. ASSUME NEW k \in Ranks, k > rank[p], ranks'[p][k] # None
          PROVE  /\ \A y \in ToSet(t) : Assigned(ranks[p][k])' < Assigned(y)'
                 /\ \A i \in Ranks : rank[p] < i /\ i < k =>
                      ranks'[p][i] # None /\ Assigned(ranks[p][i])' < Assigned(ranks[p][k])'
      <4>1. CASE k = j
        <5>1. ranks'[p][k] = h /\ Assigned(ranks[p][k])' = Assigned(h)
          BY <2>2, <2>3, <4>1
        <5>2. \A y \in ToSet(t) : Assigned(ranks[p][k])' < Assigned(y)'
          BY <2>7, <5>1
        <5>3. ASSUME NEW i \in Ranks, rank[p] < i, i < k
              PROVE  ranks'[p][i] # None /\ Assigned(ranks[p][i])' < Assigned(ranks[p][k])'
          <6>1. i # j /\ i # rank[p] /\ ranks[p][i] # None
            <7>1. rank[p] \in Int /\ i \in Int /\ k \in Int
              BY <1>0, <1>r DEF TypeOK
            <7> QED BY <1>3, <4>1, <5>3, <7>1
          <6>w. PICK w \in Procs : w = ranks[p][i]
            BY <2>11, <6>1
          <6>2. ranks'[p][i] = w /\ Assigned(w) < Assigned(h)
            BY <2>2, <2>3, <2>9, <5>3, <6>1, <6>w
          <6> QED BY <1>r, <2>2, <5>1, <6>2
        <5> QED BY <5>2, <5>3
      <4>2. CASE k # j
        <5>1. ranks[p][k] # None /\ k < j
          BY <1>2, <1>r, <2>3, <2>10, <3>3, <4>2
        <5>u. PICK u \in Procs : u = ranks[p][k] /\ u = ranks'[p][k]
          BY <2>3, <2>11, <4>2, <5>1
        <5>2. \A y \in ToSet(t) : Assigned(ranks[p][k])' < Assigned(y)'
          <6>1. \A y \in ToSet(s) : Assigned(u) < Assigned(y)
            BY <2>9, <3>3, <5>1, <5>u
          <6> QED BY <2>7, <5>u, <6>1
        <5>3. ASSUME NEW i \in Ranks, rank[p] < i, i < k
              PROVE  ranks'[p][i] # None /\ Assigned(ranks[p][i])' < Assigned(ranks[p][k])'
          <6>1. i # j
            BY <1>2, <1>r, <5>1, <5>3
          <6>2. ranks[p][i] # None /\ Assigned(ranks[p][i]) < Assigned(u)
            BY <2>9, <3>3, <5>1, <5>3, <5>u
          <6>w. PICK w \in Procs : w = ranks[p][i] /\ w = ranks'[p][i]
            BY <2>3, <2>11, <6>1, <6>2
          <6> QED BY <1>r, <5>u, <6>2, <6>w
        <5> QED BY <5>2, <5>3
      <4> QED BY <4>1, <4>2
    <3>4. ASSUME NEW z \in Procs, NEW y \in Procs, Assigned(p)' < Assigned(z)', Assigned(z)' < Assigned(y)',
                 y \in ToSet(t) \/ Accepted(y, p)'
          PROVE  Connected(z, p)'
      <4>1. y \in ToSet(s) \/ Accepted(y, p)
        <5>1. CASE y \in ToSet(t)
          BY <2>7, <5>1
        <5>2. CASE Accepted(y, p)'
          <6>1. PICK i \in Ranks : i > rank[p] /\ ranks'[p][i] = y
            BY <1>1, <5>2 DEF Accepted
          <6>2. CASE i = j
            BY <2>2, <2>3, <6>1, <6>2
          <6>3. CASE i # j
            BY <2>3, <6>1, <6>3 DEF Accepted
          <6> QED BY <6>2, <6>3
        <5> QED BY <3>4, <5>1, <5>2
      <4>2. Connected(z, p)
        BY <1>4, <2>s, <3>4, <4>1 DEF InOrder
      <4> QED BY <4>2
    <3>5. rank'[p] = rank[p]
      BY <1>1
    <3> QED BY <2>4, <3>1, <3>2, <3>3, <3>4, <3>5 DEF InOrder
  <2>13. ASSUME NEW x \in Procs, x # p PROVE InOrder(x)'
    <3>m. PICK u \in Seq(Procs) : u = mesh[x] /\ u = mesh'[x]
      BY <1>0, <2>4, <2>13 DEF TypeOK
    <3>1. ranks'[x] = ranks[x] /\ rank'[x] = rank[x]
      BY <1>1, <2>3, <2>13
    <3>2. \A i \in DOMAIN u : u[i] \in Procs
      OBVIOUS
    <3>3. \A y \in ToSet(u) : y \in Procs
      BY ElementOf
    <3>4. \A i, k \in DOMAIN u : i < k => Assigned(u[i])' < Assigned(u[k])'
      <4>1. \A i, k \in DOMAIN u : i < k => Assigned(u[i]) < Assigned(u[k])
        BY <1>4, <3>m DEF InOrder
      <4> QED BY <3>2, <4>1
    <3>5. \A i \in Ranks : ranks[x][i] # None => Assigned(ranks[x][i])' = Assigned(ranks[x][i])
      <4> SUFFICES ASSUME NEW i \in Ranks, ranks[x][i] # None PROVE Assigned(ranks[x][i])' = Assigned(ranks[x][i])
        OBVIOUS
      <4>1. PICK w \in Procs : w = ranks[x][i] /\ w = ranks'[x][i]
        BY <1>0, <3>1 DEF TypeOK
      <4> QED BY <4>1
    <3>6. \A k \in Ranks : k > rank[x] /\ ranks[x][k] # None =>
            /\ \A y \in ToSet(u) : Assigned(ranks[x][k]) < Assigned(y)
            /\ \A i \in Ranks : rank[x] < i /\ i < k =>
                 ranks[x][i] # None /\ Assigned(ranks[x][i]) < Assigned(ranks[x][k])
      BY <1>4, <3>m DEF InOrder
    <3>7. \A k \in Ranks : k > rank'[x] /\ ranks'[x][k] # None =>
            /\ \A y \in ToSet(u) : Assigned(ranks[x][k])' < Assigned(y)'
            /\ \A i \in Ranks : rank'[x] < i /\ i < k =>
                 ranks'[x][i] # None /\ Assigned(ranks[x][i])' < Assigned(ranks[x][k])'
      BY <3>1, <3>3, <3>5, <3>6
    <3>8. ASSUME NEW z \in Procs, NEW y \in Procs, Assigned(x)' < Assigned(z)', Assigned(z)' < Assigned(y)',
                 y \in ToSet(u) \/ Accepted(y, x)'
          PROVE  Connected(z, x)'
      <4>1. Accepted(y, x)' => Accepted(y, x)
        BY <3>1 DEF Accepted
      <4>2. Assigned(x) < Assigned(z) /\ Assigned(z) < Assigned(y) /\ (y \in ToSet(mesh[x]) \/ Accepted(y, x))
        BY <3>8, <3>m, <4>1
      <4>3. Connected(z, x)
        BY <1>4, <4>2 DEF InOrder
      <4> QED BY <4>3
    <3>9. Len(workers') = Size - 1
      BY <1>1
    <3> QED BY <3>4, <3>7, <3>8, <3>9, <3>m DEF InOrder
  <2> QED BY <2>12, <2>13 DEF MeshOrder
<1> QED BY <1>5, <1>6

\* A step of lfi_group_create.
LEMMA CreateKeepsOrder ==
  ASSUME GroupInv, MeshOrder, NEW p \in Procs, CreateStep(p), OnlyRoot0 \/ ConnectsInOrder(p),
         Program' = Program
  PROVE  MeshOrder'
<1>0. TypeOK /\ RankExact /\ MeshExact
  BY DEF GroupInv
<1>1. CASE OnlyRoot0
  BY <1>1 DEF MeshOrder, OnlyRoot0
<1>2. CASE ~OnlyRoot0
  <2>1. CASE \A x \in Procs : mesh[x] = <<>> /\ ranks[x] = NoPeers
    <3>1. CASE MeshConnect(p) \/ MeshAccept(p)
      <4>1. Len(workers) = Size - 1 /\ stage[p] \in Meshed
        <5>1. stage[p] \in Meshed
          BY <3>1 DEF MeshConnect, MeshAccept, Meshed
        <5> QED BY <5>1, FormedTable
      <4>2. UNCHANGED <<workers, reply, rank>>
        BY <3>1 DEF MeshConnect, MeshAccept
      <4>3. \A x \in Procs : Assigned(x)' = Assigned(x)
        BY <4>2 DEF Assigned
      <4>4. \A x, y \in Procs : Connected(x, y) => Connected(x, y)'
        BY <1>0, <3>1, <4>3, MeshStays
      <4> QED BY <1>2, <3>1, <4>1, <4>3, <4>4, OrderConnect, OrderAccept
    <3>2. CASE ~(MeshConnect(p) \/ MeshAccept(p))
      <4>1. UNCHANGED <<ranks, mesh>>
        BY <3>2 DEF CreateStep, Create, WorkerConnect, WorkerFail, MasterAccept, MasterTimeout, MasterSend,
                    WorkerRank, WorkerTable, MeshDone
      <4> QED BY <2>1, <4>1, OrderNone
    <3> QED BY <3>1, <3>2
  <2>2. CASE ~(\A x \in Procs : mesh[x] = <<>> /\ ranks[x] = NoPeers)
    <3>1. /\ Len(workers) = Size - 1
          /\ \A x \in Procs : stage[x] # "out" /\ (reply[x] # None \/ rank[x] = 0)
      BY <1>2, <2>2, SomeConnected
    <3>2. /\ UNCHANGED <<workers, reply>>
          /\ \A x \in Procs : Assigned(x)' = Assigned(x)
          /\ \A x \in Procs : rank'[x] = rank[x] \/ stage[x] = "registered"
      BY <3>1, CreateKeepsRanks
    <3>3. \A x, y \in Procs : Connected(x, y) => Connected(x, y)'
      BY <1>0, <3>2, MeshStays
    <3>4. CASE MeshConnect(p) \/ MeshAccept(p)
      BY <1>2, <3>1, <3>2, <3>3, <3>4, OrderConnect, OrderAccept
    <3>5. CASE ~(MeshConnect(p) \/ MeshAccept(p))
      <4>1. UNCHANGED <<ranks, mesh>>
        BY <3>5 DEF CreateStep, Create, WorkerConnect, WorkerFail, MasterAccept, MasterTimeout, MasterSend,
                    WorkerRank, WorkerTable, MeshDone
      <4>2. \A x \in Procs : ranks'[x] = NoPeers \/ (ranks'[x] = ranks[x] /\ rank'[x] = rank[x])
        BY <1>0, <3>2, <4>1 DEF MeshExact
      <4> QED BY <1>0, <1>2, <3>2, <3>3, <4>1, <4>2, OrderKept
    <3> QED BY <3>4, <3>5
  <2> QED BY <2>1, <2>2
<1> QED BY <1>1, <1>2

\* The connections of a process that has created the group are in rank order
\* where processes connect in that order.
LEMMA PeersInOrder ==
  ASSUME GroupInv, MeshOrder, NEW p \in Procs, stage[p] = "created"
  PROVE  /\ \A j \in Ranks : j < rank[p] => ranks[p][j] \in Procs /\ Assigned(ranks[p][j]) = j
         /\ ~OnlyRoot0 => \A j \in Ranks \ {rank[p]} : ranks[p][j] \in Procs /\ Assigned(ranks[p][j]) = j
<1>0. TypeOK /\ RankExact /\ MeshExact
  BY DEF GroupInv
<1>1. rank[p] \in Ranks /\ Assigned(p) = rank[p] /\ \A j \in Ranks : j \in Int
  BY <1>0, AssignedFacts, GroupAssumption DEF Meshed, Ranks
<1>2. \A j \in Ranks \ {rank[p]} : ranks[p][j] # None /\ ranks[p][j] \in Procs
  BY <1>0 DEF MeshExact, TypeOK
<1>3. ASSUME NEW j \in Ranks, j < rank[p] PROVE ranks[p][j] \in Procs /\ Assigned(ranks[p][j]) = j
  <2>1. j # rank[p]
    BY <1>1, <1>3
  <2>2. ranks[p][j] = port_table[p][j]
    BY <1>0, <1>2, <1>3, <2>1 DEF MeshExact
  <2> QED BY <1>2, <2>1, <2>2, FormedTable DEF Meshed
<1>4. ASSUME ~OnlyRoot0
      PROVE  \A j \in Ranks : j > rank[p] => Assigned(ranks[p][j]) = j
  <2>a. PICK a \in Int : a = rank[p] + 1
    BY <1>1
  <2>b. PICK b \in Int : b = Size - 1
    BY GroupAssumption
  <2>1. a \in Nat /\ \A j : j \in a..b <=> j \in Ranks /\ j > rank[p]
    BY <1>1, <2>a, <2>b, GroupAssumption DEF Ranks
  <2>f. PICK f : f = [j \in a..b |-> Assigned(ranks[p][j])]
    OBVIOUS
  <2>2. \A t \in a..b : \E i \in a..b : f[i] = t
    BY <2>a, <2>b, <2>f, UpperRanks
  <2>3. \A i \in a..b : f[i] \in a..b
    BY <2>a, <2>b, <2>f, UpperRanks
  <2>4. \A i, k \in a..b : i < k => f[i] < f[k]
    <3>1. InOrder(p)
      BY <1>4 DEF MeshOrder
    <3>2. \A i, k \in a..b : i < k => Assigned(ranks[p][i]) < Assigned(ranks[p][k])
      <4>1. ASSUME NEW i \in a..b, NEW k \in a..b, i < k PROVE Assigned(ranks[p][i]) < Assigned(ranks[p][k])
        <5>1. i \in Ranks /\ k \in Ranks /\ i > rank[p] /\ k > rank[p] /\ k # rank[p]
          BY <1>1, <2>1, <4>1
        <5>2. rank[p] < i
          BY <1>1, <5>1
        <5>3. ranks[p][k] # None
          BY <1>2, <5>1
        <5> QED BY <3>1, <4>1, <5>1, <5>2, <5>3 DEF InOrder
      <4> QED BY <4>1
    <3> QED BY <2>f, <3>2
  <2>5. \A i \in a..b : f[i] = i
    <3> SUFFICES ASSUME NEW T, T = {i \in a..b : f[i] # i}, T # {} PROVE FALSE
      OBVIOUS
    <3>1. T \subseteq Nat
      BY <2>1
    <3>2. PICK n \in T : \A m \in T : n <= m
      BY <3>1, LeastNat
    <3>3. n \in a..b /\ f[n] # n /\ f[n] \in a..b
      BY <2>3
    <3>4. \A k \in a..b : k < n => f[k] = k
      BY <3>2, <3>3
    <3>5. PICK i \in a..b : f[i] = n
      BY <2>2, <3>3
    <3>6. i > n
      BY <3>3, <3>4, <3>5
    <3>7. f[n] < n
      BY <2>4, <3>3, <3>5, <3>6
    <3>8. f[f[n]] = f[n]
      BY <3>3, <3>4, <3>7
    <3>9. f[f[n]] < f[n]
      BY <2>4, <3>3, <3>7
    <3> QED BY <3>3, <3>8, <3>9
  <2> QED BY <2>1, <2>5, <2>f
<1>5. ASSUME ~OnlyRoot0, NEW j \in Ranks \ {rank[p]} PROVE ranks[p][j] \in Procs /\ Assigned(ranks[p][j]) = j
  <2>1. j < rank[p] \/ j > rank[p]
    BY <1>1, <1>5
  <2> QED BY <1>2, <1>3, <1>4, <1>5, <2>1
<1> QED BY <1>3, <1>5

-----------------------------------------------------------------------------
(* Broadcasts.                                                             *)

\* The broadcasts from a rank among the first k calls of a program.
LEMMA CastCount ==
  ASSUME NEW prog, NEW r, NEW k \in Nat
  PROVE  /\ IsFiniteSet(Casts(prog, r, k)) /\ Cardinality(Casts(prog, r, k)) \in Nat
         /\ k + 1 \in DOMAIN prog /\ prog[k + 1].kind = "broadcast" /\ prog[k + 1].root = r =>
              Cardinality(Casts(prog, r, k + 1)) = Cardinality(Casts(prog, r, k)) + 1
         /\ prog[k + 1].kind # "broadcast" \/ prog[k + 1].root # r => Casts(prog, r, k + 1) = Casts(prog, r, k)
<1>1. IsFiniteSet(1..k)
  BY FS_Interval
<1>2. Casts(prog, r, k) \subseteq 1..k
  BY DEF Casts
<1>3. IsFiniteSet(Casts(prog, r, k))
  BY <1>1, <1>2, FS_Subset
<1>4. Cardinality(Casts(prog, r, k)) \in Nat
  BY <1>3, FS_CardinalityType
<1>5. ASSUME k + 1 \in DOMAIN prog, prog[k + 1].kind = "broadcast", prog[k + 1].root = r
      PROVE  Cardinality(Casts(prog, r, k + 1)) = Cardinality(Casts(prog, r, k)) + 1
  <2>1. Casts(prog, r, k + 1) = Casts(prog, r, k) \cup {k + 1} /\ k + 1 \notin Casts(prog, r, k)
    BY <1>5 DEF Casts
  <2> QED BY <1>3, <2>1, FS_AddElement
<1>6. prog[k + 1].kind # "broadcast" \/ prog[k + 1].root # r => Casts(prog, r, k + 1) = Casts(prog, r, k)
  BY DEF Casts
<1> QED BY <1>3, <1>4, <1>5, <1>6

\* A later broadcast from the same rank has a higher number.
LEMMA CastsGrow ==
  ASSUME NEW prog, NEW r, NEW j \in Nat, NEW k \in Nat, j < k,
         k \in DOMAIN prog, prog[k].kind = "broadcast", prog[k].root = r
  PROVE  Cardinality(Casts(prog, r, j)) < Cardinality(Casts(prog, r, k))
<1>1. IsFiniteSet(Casts(prog, r, j)) /\ IsFiniteSet(Casts(prog, r, k))
  BY CastCount
<1>2. Casts(prog, r, j) \subseteq Casts(prog, r, k)
  BY DEF Casts
<1>3. k \in Casts(prog, r, k) /\ k \notin Casts(prog, r, j)
  BY DEF Casts
<1>4. Cardinality(Casts(prog, r, j)) <= Cardinality(Casts(prog, r, k))
  BY <1>1, <1>2, FS_Subset
<1>5. Cardinality(Casts(prog, r, j)) # Cardinality(Casts(prog, r, k))
  BY <1>1, <1>2, <1>3, FS_Subset
<1>6. Cardinality(Casts(prog, r, j)) \in Nat /\ Cardinality(Casts(prog, r, k)) \in Nat
  BY CastCount
<1> QED BY <1>4, <1>5, <1>6

\* A root reaches every other process.
LEMMA AllPeers ==
  ASSUME GroupInv, NEW p \in Procs, stage[p] = "created", NEW q \in Procs \ {p}
  PROVE  q \in Peers(p, Others(rank[p]))
<1>0. TypeOK /\ RankExact /\ MeshExact
  BY DEF GroupInv
<1>1. rank[p] \in Ranks /\ Assigned(p) = rank[p]
  BY <1>0, AssignedFacts DEF Meshed
<1>r. PICK n \in Nat : n = rank[p] /\ n <= Size - 1
  BY <1>1, GroupAssumption DEF Ranks
<1>b. PICK b \in Nat : b = Size - 1
  BY GroupAssumption
<1>R. Ranks = 0..b /\ \A j \in Ranks : j \in Int
  BY <1>b, GroupAssumption DEF Ranks
<1>2. \A j \in Ranks \ {n} : ranks[p][j] # None /\ ranks[p][j] \in Procs
  BY <1>0, <1>r DEF MeshExact, TypeOK
<1>3. \A j \in Ranks : j < n => Assigned(ranks[p][j]) = j
  <2>1. ASSUME NEW j \in Ranks, j < n PROVE Assigned(ranks[p][j]) = j
    <3>1. j # n
      BY <1>r, <1>R, <2>1
    <3>2. ranks[p][j] = port_table[p][j] /\ ranks[p][j] # None
      BY <1>0, <1>2, <1>r, <2>1, <3>1 DEF MeshExact
    <3> QED BY <3>2, FormedTable DEF Meshed
  <2> QED BY <2>1
<1>4. \A j \in Ranks : j > n => /\ Assigned(ranks[p][j]) > n
                                /\ \A i \in Ranks : i > n /\ ranks[p][i] = ranks[p][j] => i = j
  <2>1. ASSUME NEW j \in Ranks, j > n
        PROVE  Connected(ranks[p][j], p) /\ \A i \in Ranks : i > n /\ ranks[p][i] = ranks[p][j] => i = j
    <3>1. j # n
      BY <1>r, <1>R, <2>1
    <3> QED BY <1>0, <1>2, <1>r, <2>1, <3>1 DEF MeshExact
  <2> QED BY <1>1, <1>r, <2>1 DEF Connected
<1>5. \A i, j \in Ranks \ {n} : ranks[p][i] = ranks[p][j] => i = j
  <2> SUFFICES ASSUME NEW i \in Ranks \ {n}, NEW j \in Ranks \ {n}, ranks[p][i] = ranks[p][j] PROVE i = j
    OBVIOUS
  <2>1. (i < n \/ i > n) /\ (j < n \/ j > n)
    BY <1>r, <1>R
  <2>2. CASE i < n /\ j < n
    BY <1>3, <2>2
  <2>3. CASE i > n /\ j > n
    BY <1>4, <2>3
  <2>4. CASE i < n /\ j > n
    BY <1>3, <1>4, <1>r, <1>R, <2>4
  <2>5. CASE i > n /\ j < n
    BY <1>3, <1>4, <1>r, <1>R, <2>5
  <2> QED BY <2>1, <2>2, <2>3, <2>4, <2>5
<1>6. \A j \in Ranks \ {n} : ranks[p][j] # p
  <2>1. \A j \in Ranks \ {n} : j < n \/ j > n
    BY <1>r, <1>R
  <2> QED BY <1>1, <1>3, <1>4, <1>r, <1>R, <2>1
<1>g. PICK g : g = [i \in 1..b |-> IF i <= n THEN i - 1 ELSE i]
  OBVIOUS
<1>7. \A i \in 1..b : g[i] \in Ranks \ {n}
  BY <1>b, <1>g, <1>r, <1>R
<1>8. \A i, j \in 1..b : g[i] = g[j] => i = j
  BY <1>b, <1>g, <1>r
<1>f. PICK f : f = [i \in 1..b |-> ranks[p][g[i]]]
  OBVIOUS
<1>T. PICK T : T = Procs \ {p}
  OBVIOUS
<1>9. f \in [1..b -> T] /\ \A i, j \in 1..b : f[i] = f[j] => i = j
  BY <1>2, <1>5, <1>6, <1>7, <1>8, <1>f, <1>T
<1>10. IsFiniteSet(T) /\ Cardinality(T) = b - 1 + 1
  BY <1>b, <1>T, OthersCount
<1>11. b \in Int /\ 1 \in Int /\ 1 <= b + 1
  OBVIOUS
<1>12. \A t \in T : \E i \in 1..b : f[i] = t
  BY <1>9, <1>10, <1>11, Onto
<1>13. PICK i \in 1..b : f[i] = q
  BY <1>12, <1>T
<1>14. g[i] \in Others(rank[p]) /\ ranks[p][g[i]] = q
  BY <1>7, <1>13, <1>f, <1>r DEF Others
<1> QED BY <1>14 DEF Peers

\* Once a process is in the mesh phase every process has its rank.
LEMMA FormedAll ==
  ASSUME GroupInv, NEW q \in Procs, stage[q] \in Meshed
  PROVE  /\ Len(workers) = Size - 1
         /\ \A x \in Procs : stage[x] # "out" /\ (reply[x] # None \/ rank[x] = 0)
<1>0. TypeOK /\ RankExact /\ QueuesExact
  BY DEF GroupInv
<1>1. Len(workers) = Size - 1 /\ \E m \in Procs : rank[m] = 0
  BY FormedTable
<1>2. PICK m \in Procs : rank[m] = 0
  BY <1>1
<1>3. ToSet(workers) = Procs \ {m}
  BY <1>0, <1>1, <1>2, AllWorkers
<1>4. \A x \in Procs : stage[x] # "out" /\ (reply[x] # None \/ rank[x] = 0)
  BY <1>0, <1>2, <1>3 DEF RankExact, Meshed
<1> QED BY <1>1, <1>4

\* The messages from one process to another.
LEMMA CastPair ==
  ASSUME CastExact, NEW x \in Procs, NEW y \in Procs, NEW l \in Ranks, x # y, Assigned(x) = l
  PROVE  /\ Len(chan["broadcast"][x][y]) + Taken(y, l) = Entries(x, l)
         /\ \A i \in 1..Len(chan["broadcast"][x][y]), k \in DOMAIN Program :
              /\ Program[k].kind = "broadcast" /\ Program[k].root = l
              /\ Cardinality(Casts(Program, l, k)) = Taken(y, l) + i
              => chan["broadcast"][x][y][i] = Input[k][l]
BY DEF CastExact

\* A step that neither sends nor delivers a message of a broadcast.
LEMMA CastQuiet ==
  ASSUME CastExact, chan'["broadcast"] = chan["broadcast"], Program' = Program,
         \A p \in Procs, r \in Ranks : Taken(p, r)' = Taken(p, r),
         \A p \in Procs, r \in Ranks : Assigned(p) = r => Entries(p, r)' = Entries(p, r),
         \A p \in Procs : Assigned(p)' = Assigned(p),
         \A p \in Procs : stage[p] \in {"created", "closed"} => stage'[p] \in {"created", "closed"}
  PROVE  CastExact'
<1>1. ASSUME NEW p \in Procs, NEW q \in Procs, NEW r \in Ranks, p # q, Assigned(p)' = r
      PROVE  /\ Len(chan'["broadcast"][p][q]) + Taken(q, r)' = Entries(p, r)'
             /\ \A i \in 1..Len(chan'["broadcast"][p][q]), k \in DOMAIN Program' :
                  /\ Program'[k].kind = "broadcast" /\ Program'[k].root = r
                  /\ Cardinality(Casts(Program', r, k)) = Taken(q, r)' + i
                  => chan'["broadcast"][p][q][i] = Input[k][r]
  BY <1>1 DEF CastExact
<1>2. (\A p \in Procs : stage'[p] \notin {"created", "closed"}) =>
        \A p, q \in Procs : chan'["broadcast"][p][q] = <<>>
  BY DEF CastExact
<1> QED BY <1>1, <1>2 DEF CastExact

\* A process whose place in the program does not change, or only by the return.
LEMMA TakenSame ==
  ASSUME NEW p, NEW r, Program' = Program, Reached(p)' = Reached(p),
         Waits(p, r)' <=> Waits(p, r), Waits(p, r) => step'[p] = step[p]
  PROVE  Taken(p, r)' = Taken(p, r) /\ Entries(p, r)' = Entries(p, r)
<1>1. Past(p, r)' = Past(p, r)
  BY DEF Past
<1> QED BY <1>1 DEF Taken, Entries

\* Before the group exists there has been no broadcast.
LEMMA CastNone ==
  ASSUME CollTypeOK, CallExact, NEW p \in Procs, step[p] = 0, phase[p] = "out", NEW r
  PROVE  Taken(p, r) = 0 /\ Entries(p, r) = 0
<1>1. Reached(p) = 0 /\ Past(p, r) = 0
  BY DEF Reached, Past, Waits
<1>2. Casts(Program, r, 0) = {}
  BY DEF Casts
<1> QED BY <1>1, <1>2, FS_EmptySet DEF Taken, Entries

LEMMA OrderSame ==
  ASSUME MeshOrder, UNCHANGED <<stage, rank, ranks, workers, reply, mesh, Program>>
  PROVE  MeshOrder'
<1>1. \A x \in Procs : Assigned(x)' = Assigned(x)
  BY DEF Assigned
<1>2. OnlyRoot0' <=> OnlyRoot0
  BY DEF OnlyRoot0
<1>3. ASSUME NEW p \in Procs, InOrder(p) PROVE InOrder(p)'
  BY <1>3 DEF InOrder, Accepted, Connected, Assigned
<1> QED BY <1>2, <1>3 DEF MeshOrder

LEMMA CreateCast ==
  ASSUME CastInv, NEW p \in Procs, CreateGroup(p), OnlyRoot0 \/ ConnectsInOrder(p)
  PROVE  MeshOrder' /\ CastTypeOK' /\ CastExact' /\ DataExact'
<1>0. GroupInv /\ CollTypeOK /\ CallExact /\ MeshOrder /\ CastTypeOK /\ CastExact /\ DataExact
  BY DEF CastInv, IInv
<1>1. /\ CreateStep(p) /\ (OnlyRoot0 \/ ConnectsInOrder(p))
      /\ UNCHANGED <<Program, step, phase, recvs, sends, chan, data, gathered, rendezvous>>
  BY DEF CreateGroup, collVars
<1>2. /\ stage[p] \notin {"created", "closed"}
      /\ \A x \in Procs \ {p} : stage'[x] = stage[x] /\ rank'[x] = rank[x] /\ ranks'[x] = ranks[x]
  BY <1>0, <1>1, CreateFrame
<1>3. phase[p] = "out" /\ step[p] = 0
  BY <1>0, <1>2 DEF CallExact
<1>4. MeshOrder'
  BY <1>0, <1>1, CreateKeepsOrder
<1>5. CastTypeOK'
  BY <1>0, <1>1 DEF CastTypeOK
<1>6. DataExact'
  BY <1>0, <1>1, <1>2, <1>3 DEF DataExact, Call
<1>7. \A x \in Procs, r \in Ranks : Taken(x, r)' = Taken(x, r) /\ Entries(x, r)' = Entries(x, r)
  <2>1. \A x \in Procs, r \in Ranks : Reached(x)' = Reached(x) /\ (Waits(x, r)' <=> Waits(x, r))
    BY <1>1 DEF Reached, Waits, Call
  <2> QED BY <1>1, <2>1, TakenSame
<1>8. CastExact'
  <2>1. CASE \A x \in Procs : stage[x] \notin {"created", "closed"}
    <3>1. \A x \in Procs : step[x] = 0 /\ phase[x] = "out"
      BY <1>0, <2>1 DEF CallExact
    <3>2. \A x \in Procs, r \in Ranks : Taken(x, r)' = 0 /\ Entries(x, r)' = 0
      BY <1>0, <1>7, <3>1, CastNone
    <3>3. \A x, y \in Procs : chan'["broadcast"][x][y] = <<>>
      BY <1>0, <1>1, <2>1 DEF CastExact
    <3>4. \A x, y \in Procs : Len(chan'["broadcast"][x][y]) = 0
      BY <3>3
    <3> QED BY <3>2, <3>3, <3>4 DEF CastExact
  <2>2. CASE ~ \A x \in Procs : stage[x] \notin {"created", "closed"}
    <3>1. /\ Len(workers) = Size - 1
          /\ \A x \in Procs : stage[x] # "out" /\ (reply[x] # None \/ rank[x] = 0)
      BY <1>0, <2>2, FormedAll DEF Meshed
    <3>2. \A x \in Procs : Assigned(x)' = Assigned(x)
      BY <1>0, <1>1, <3>1, CreateKeepsRanks
    <3>3. \A x \in Procs : stage[x] \in {"created", "closed"} => stage'[x] \in {"created", "closed"}
      BY <1>2
    <3> QED BY <1>0, <1>1, <1>7, <3>2, <3>3, CastQuiet
  <2> QED BY <2>1, <2>2
<1> QED BY <1>4, <1>5, <1>6, <1>8

LEMMA CloseCast ==
  ASSUME CastInv, NEW p \in Procs, CloseGroup(p)
  PROVE  MeshOrder' /\ CastTypeOK' /\ CastExact' /\ DataExact'
<1>0. TypeOK /\ MeshOrder /\ CastTypeOK /\ CastExact /\ DataExact
  BY DEF CastInv, IInv, GroupInv
<1>1. /\ phase[p] = "out" /\ stage[p] = "created" /\ stage' = [stage EXCEPT ![p] = "closed"]
      /\ ranks' = [ranks EXCEPT ![p] = NoPeers]
      /\ UNCHANGED <<rank, reply, workers, mesh, Program, step, phase, recvs, sends, chan, data, gathered, rendezvous>>
  BY DEF CloseGroup, GroupClose, Enters, collVars
<1>2. /\ stage'[p] = "closed" /\ ranks'[p] = NoPeers
      /\ \A x \in Procs \ {p} : stage'[x] = stage[x] /\ ranks'[x] = ranks[x]
  BY <1>0, <1>1 DEF TypeOK
<1>3. \A x \in Procs : Assigned(x)' = Assigned(x)
  BY <1>1 DEF Assigned
<1>4. MeshOrder'
  <2>1. CASE OnlyRoot0
    BY <1>1, <2>1 DEF MeshOrder, OnlyRoot0
  <2>2. CASE ~OnlyRoot0
    <3>1. \A x, y \in Procs : Connected(x, y) => Connected(x, y)'
      BY <1>0, <1>1, <1>2, <1>3, ConnectedStays DEF Meshed
    <3>2. \A x \in Procs : ranks'[x] = NoPeers \/ (ranks'[x] = ranks[x] /\ rank'[x] = rank[x])
      BY <1>1, <1>2
    <3> QED BY <1>0, <1>1, <1>3, <2>2, <3>1, <3>2, OrderKept
  <2> QED BY <2>1, <2>2
<1>5. CastTypeOK' /\ DataExact'
  BY <1>0, <1>1 DEF CastTypeOK, DataExact, Call
<1>6. \A x \in Procs, r \in Ranks : Taken(x, r)' = Taken(x, r) /\ Entries(x, r)' = Entries(x, r)
  <2>1. \A x \in Procs, r \in Ranks : Reached(x)' = Reached(x) /\ (Waits(x, r)' <=> Waits(x, r))
    BY <1>1 DEF Reached, Waits, Call
  <2> QED BY <1>1, <2>1, TakenSame
<1>7. \A x \in Procs : stage[x] \in {"created", "closed"} => stage'[x] \in {"created", "closed"}
  BY <1>2
<1>8. CastExact'
  BY <1>0, <1>1, <1>3, <1>6, <1>7, CastQuiet
<1> QED BY <1>4, <1>5, <1>8

LEMMA FinishCast ==
  ASSUME CastInv, NEW p \in Procs, Finish(p)
  PROVE  MeshOrder' /\ CastTypeOK' /\ CastExact' /\ DataExact'
<1>0. CollTypeOK /\ CallExact /\ MeshOrder /\ CastTypeOK /\ CastExact /\ DataExact
  BY DEF CastInv, IInv
<1>1. /\ phase[p] = "last" /\ recvs[p] = {}
      /\ step' = [step EXCEPT ![p] = step[p] + 1] /\ phase' = [phase EXCEPT ![p] = "out"]
      /\ UNCHANGED <<stage, rank, ranks, workers, reply, mesh, Program, recvs, chan, data>>
  BY DEF Finish, groupVars
<1>2. /\ step'[p] = step[p] + 1 /\ phase'[p] = "out" /\ step[p] \in Nat
      /\ \A x \in Procs \ {p} : step'[x] = step[x] /\ phase'[x] = phase[x]
  BY <1>0, <1>1 DEF CollTypeOK
<1>3. MeshOrder' /\ CastTypeOK'
  BY <1>0, <1>1, OrderSame DEF CastTypeOK
<1>4. DataExact'
  <2>1. Program[step'[p]].kind = "broadcast" => data[p] = Input[step'[p]][Program[step'[p]].root]
    BY <1>0, <1>1, <1>2 DEF DataExact, Call
  <2> QED BY <1>0, <1>1, <1>2, <2>1 DEF DataExact, Call
<1>5. ASSUME NEW x \in Procs, NEW r \in Ranks PROVE Taken(x, r)' = Taken(x, r) /\ Entries(x, r)' = Entries(x, r)
  <2>1. Reached(x)' = Reached(x) /\ (Waits(x, r)' <=> Waits(x, r)) /\ (Waits(x, r) => step'[x] = step[x])
    BY <1>1, <1>2 DEF Reached, Waits, Call
  <2> QED BY <1>1, <2>1, TakenSame
<1>6. CastExact'
  BY <1>0, <1>1, <1>5, CastQuiet DEF Assigned
<1> QED BY <1>3, <1>4, <1>6

\* Messages of other collectives leave those of broadcasts alone.
LEMMA SendNone ==
  ASSUME CollTypeOK, NEW p \in Procs, NEW S, NEW v, SendTo(p, S, v),
         Call(p).kind \in Kinds, Call(p).kind # "broadcast"
  PROVE  chan'["broadcast"] = chan["broadcast"]
BY DEF CollTypeOK, SendTo, Kinds

LEMMA AllreduceResultCast ==
  ASSUME CastInv, NEW p \in Procs, AllreduceResult(p)
  PROVE  MeshOrder' /\ CastTypeOK' /\ CastExact' /\ DataExact'
<1>0. CollTypeOK /\ CallExact /\ MeshOrder /\ CastTypeOK /\ CastExact /\ DataExact
  BY DEF CastInv, IInv
<1>1. /\ phase[p] = "gather" /\ phase' = [phase EXCEPT ![p] = "last"]
      /\ UNCHANGED <<stage, rank, ranks, workers, reply, mesh, Program, step>>
  BY DEF AllreduceResult, groupVars
<1>2. /\ phase'[p] = "last" /\ \A x \in Procs \ {p} : phase'[x] = phase[x]
  BY <1>0, <1>1 DEF CollTypeOK
<1>3. Call(p).kind # "broadcast" /\ Call(p).kind \in Kinds
  BY <1>0, <1>1, CallFacts DEF CallExact, DataExact
<1>4. chan'["broadcast"] = chan["broadcast"]
  <2>1. CASE rank[p] = 0
    <3>1. PICK v : SendTo(p, Others(0), v)
      BY <2>1 DEF AllreduceResult
    <3> QED BY <1>0, <1>3, <3>1, SendNone
  <2>2. CASE rank[p] # 0
    BY <2>2 DEF AllreduceResult
  <2> QED BY <2>1, <2>2
<1>5. /\ \A x \in Procs \ {p} : recvs'[x] = recvs[x] /\ data'[x] = data[x]
      /\ data' = [x \in Procs |-> data'[x]]
  <2>1. UNCHANGED recvs \/ recvs' = [recvs EXCEPT ![p] = {0}]
    BY DEF AllreduceResult, RecvFrom
  <2>2. UNCHANGED data \/ \E v : data' = [data EXCEPT ![p] = v]
    BY DEF AllreduceResult
  <2>3. recvs \in [Procs -> SUBSET Ranks] /\ data = [x \in Procs |-> data[x]]
    BY <1>0 DEF CollTypeOK, CastTypeOK
  <2>4. \A x \in Procs \ {p} : recvs'[x] = recvs[x]
    BY <2>1, <2>3
  <2>5. (\A x \in Procs \ {p} : data'[x] = data[x]) /\ data' = [x \in Procs |-> data'[x]]
    BY <2>2, <2>3
  <2> QED BY <2>4, <2>5
<1>6. MeshOrder' /\ CastTypeOK'
  BY <1>0, <1>1, <1>4, <1>5, OrderSame DEF CastTypeOK
<1>7. DataExact'
  BY <1>0, <1>1, <1>2, <1>3, <1>5 DEF DataExact, Call
<1>8. ASSUME NEW x \in Procs, NEW r \in Ranks PROVE Taken(x, r)' = Taken(x, r) /\ Entries(x, r)' = Entries(x, r)
  <2>1. Reached(x)' = Reached(x) /\ (Waits(x, r)' <=> Waits(x, r))
    BY <1>1, <1>2, <1>3, <1>5 DEF Reached, Waits, Call
  <2> QED BY <1>1, <2>1, TakenSame
<1>9. CastExact'
  BY <1>0, <1>1, <1>4, <1>8, CastQuiet DEF Assigned
<1> QED BY <1>6, <1>7, <1>9

LEMMA StartOtherCast ==
  ASSUME CastInv, NEW p \in Procs, Start(p), Call(p).kind # "broadcast"
  PROVE  MeshOrder' /\ CastTypeOK' /\ CastExact' /\ DataExact'
<1>0. IInv /\ CollTypeOK /\ CallExact /\ MeshOrder /\ CastTypeOK /\ CastExact /\ DataExact
  BY DEF CastInv, IInv
<1>1. /\ stage[p] = "created" /\ phase[p] = "out" /\ Call(p).kind \in Kinds
      /\ UNCHANGED <<stage, rank, ranks, Program, step>>
      /\ \A x \in Procs \ {p} : phase'[x] = phase[x] /\ recvs'[x] = recvs[x]
      /\ phase'[p] \in {"gather", "last"}
      /\ Reached(p) = step[p] /\ Reached(p)' = step[p] + 1
  BY <1>0, StartFacts
<1>2. UNCHANGED <<workers, reply, mesh>>
  BY DEF Start, groupVars
<1>3. PICK S, v : SendTo(p, S, v)
  BY DEF Start, Barrier, Broadcast, AllreduceGather
<1>4. chan'["broadcast"] = chan["broadcast"]
  BY <1>0, <1>1, <1>3, SendNone
<1>5. data' = [data EXCEPT ![p] = Argument(p)]
  BY DEF Start, Barrier, Broadcast, AllreduceGather, Enter
<1>6. (\A x \in Procs \ {p} : data'[x] = data[x]) /\ data' = [x \in Procs |-> data'[x]]
  BY <1>0, <1>5 DEF CastTypeOK
<1>7. MeshOrder' /\ CastTypeOK'
  BY <1>0, <1>1, <1>2, <1>4, <1>6, OrderSame DEF CastTypeOK
<1>8. DataExact'
  BY <1>0, <1>1, <1>6 DEF DataExact, Call
<1>9. ASSUME NEW x \in Procs, NEW r \in Ranks PROVE Taken(x, r)' = Taken(x, r) /\ Entries(x, r)' = Entries(x, r)
  <2>1. CASE x # p
    <3>1. Reached(x)' = Reached(x) /\ (Waits(x, r)' <=> Waits(x, r))
      BY <1>1, <2>1 DEF Reached, Waits, Call
    <3> QED BY <1>1, <3>1, TakenSame
  <2>2. CASE x = p
    <3>1. ~Waits(p, r) /\ ~Waits(p, r)'
      BY <1>1 DEF Waits, Call
    <3>2. Past(p, r) = step[p] /\ Past(p, r)' = step[p] + 1
      BY <1>1, <3>1 DEF Past
    <3>3. step[p] \in Nat /\ Program[step[p] + 1].kind # "broadcast"
      BY <1>0, CallFacts DEF Call
    <3>4. Casts(Program, r, step[p] + 1) = Casts(Program, r, step[p])
      BY <3>3, CastCount
    <3> QED BY <1>1, <2>2, <3>2, <3>4 DEF Taken, Entries
  <2> QED BY <2>1, <2>2
<1>10. CastExact'
  BY <1>0, <1>1, <1>2, <1>4, <1>9, CastQuiet DEF Assigned
<1> QED BY <1>7, <1>8, <1>10

\* Entering a broadcast, as the root or not.
LEMMA StartCastFacts ==
  ASSUME CastInv, NEW p \in Procs, Start(p), Call(p).kind = "broadcast"
  PROVE  /\ stage[p] = "created" /\ phase[p] = "out" /\ step[p] \in Nat /\ step[p] + 1 \in DOMAIN Program
         /\ Call(p).root \in Ranks /\ rank[p] \in Ranks /\ Assigned(p) = rank[p] /\ Argument(p) \in Values
         /\ UNCHANGED <<stage, rank, ranks, Program, step, workers, reply, mesh>>
         /\ phase'[p] = "last" /\ \A x \in Procs \ {p} : phase'[x] = phase[x] /\ recvs'[x] = recvs[x]
         /\ recvs'[p] = (IF rank[p] = Call(p).root THEN {} ELSE {Call(p).root})
         /\ SendTo(p, IF rank[p] = Call(p).root THEN Others(rank[p]) ELSE {}, Argument(p))
         /\ data'[p] = Argument(p) /\ \A x \in Procs \ {p} : data'[x] = data[x]
         /\ data' = [x \in Procs |-> data'[x]]
         /\ Reached(p) = step[p] /\ Reached(p)' = step[p] + 1
         /\ \A r \in Ranks : ~Waits(p, r)
<1>0. IInv /\ GroupInv /\ TypeOK /\ RankExact /\ CollTypeOK /\ CallExact /\ CastTypeOK
  BY DEF CastInv, IInv, GroupInv
<1>1. /\ stage[p] = "created" /\ phase[p] = "out" /\ step[p] + 1 \in DOMAIN Program
      /\ UNCHANGED <<stage, rank, ranks, Program, step>>
      /\ \A x \in Procs \ {p} : phase'[x] = phase[x] /\ recvs'[x] = recvs[x]
      /\ Reached(p) = step[p] /\ Reached(p)' = step[p] + 1
  BY <1>0, StartFacts
<1>2. UNCHANGED <<workers, reply, mesh>>
  BY DEF Start, groupVars
<1>3. Broadcast(p)
  BY DEF Start, Barrier, AllreduceGather
<1>4. /\ recvs' = [recvs EXCEPT ![p] = IF rank[p] = Call(p).root THEN {} ELSE {Call(p).root}]
      /\ SendTo(p, IF rank[p] = Call(p).root THEN Others(rank[p]) ELSE {}, Argument(p))
      /\ phase' = [phase EXCEPT ![p] = "last"] /\ data' = [data EXCEPT ![p] = Argument(p)]
  BY <1>3 DEF Broadcast, RecvFrom, Enter
<1>5. Call(p).root \in Ranks /\ step[p] + 1 \in DOMAIN Input
  BY <1>0, <1>1, CollectivesAssumption DEF Call, CollTypeOK
<1>6. rank[p] \in Ranks /\ Assigned(p) = rank[p]
  BY <1>0, <1>1, AssignedFacts DEF Meshed
<1>7. Argument(p) \in Values
  BY <1>5, <1>6 DEF Argument, Values
<1>8. recvs'[p] = (IF rank[p] = Call(p).root THEN {} ELSE {Call(p).root}) /\ phase'[p] = "last"
  BY <1>0, <1>4 DEF CollTypeOK
<1>9. /\ data'[p] = Argument(p) /\ \A x \in Procs \ {p} : data'[x] = data[x]
      /\ data' = [x \in Procs |-> data'[x]]
  BY <1>0, <1>4 DEF CastTypeOK
<1>10. step[p] \in Nat /\ \A r \in Ranks : ~Waits(p, r)
  BY <1>0, <1>1 DEF CollTypeOK, Waits
<1> QED BY <1>1, <1>2, <1>4, <1>5, <1>6, <1>7, <1>8, <1>9, <1>10

\* A message of a broadcast to every peer.
LEMMA SendCast ==
  ASSUME CollTypeOK, CastTypeOK, NEW p \in Procs, NEW S, NEW v \in Values, SendTo(p, S, v),
         Call(p).kind = "broadcast"
  PROVE  /\ chan'["broadcast"] \in [Procs -> [Procs -> Seq(Values)]]
         /\ \A x \in Procs \ {p} : chan'["broadcast"][x] = chan["broadcast"][x]
         /\ \A y \in Procs : chan'["broadcast"][p][y] =
              IF y \in Peers(p, S) THEN Append(chan["broadcast"][p][y], v) ELSE chan["broadcast"][p][y]
<1>1. chan["broadcast"] \in [Procs -> [Procs -> Seq(Values)]]
  BY DEF CastTypeOK
<1>2. chan'["broadcast"] = [chan["broadcast"] EXCEPT ![p] =
         [q \in Procs |-> IF q \in Peers(p, S) THEN Append(chan["broadcast"][p][q], v) ELSE chan["broadcast"][p][q]]]
  BY DEF SendTo, CollTypeOK, Kinds
<1>3. \A q \in Procs : chan["broadcast"][p][q] \in Seq(Values) /\ Append(chan["broadcast"][p][q], v) \in Seq(Values)
  BY <1>1
<1>4. chan'["broadcast"] \in [Procs -> [Procs -> Seq(Values)]]
  BY <1>1, <1>2, <1>3
<1>5. /\ \A x \in Procs \ {p} : chan'["broadcast"][x] = chan["broadcast"][x]
      /\ \A y \in Procs : chan'["broadcast"][p][y] =
           IF y \in Peers(p, S) THEN Append(chan["broadcast"][p][y], v) ELSE chan["broadcast"][p][y]
  BY <1>1, <1>2
<1> QED BY <1>4, <1>5

\* A member of the group enters and waits for the root.
LEMMA StartMemberCast ==
  ASSUME CastInv, NEW p \in Procs, Start(p), Call(p).kind = "broadcast", rank[p] # Call(p).root
  PROVE  MeshOrder' /\ CastTypeOK' /\ CastExact' /\ DataExact'
<1>0. CollTypeOK /\ CallExact /\ MeshOrder /\ CastTypeOK /\ CastExact /\ DataExact
  BY DEF CastInv, IInv
<1>1. /\ stage[p] = "created" /\ phase[p] = "out" /\ step[p] \in Nat /\ step[p] + 1 \in DOMAIN Program
      /\ Call(p).root \in Ranks /\ Assigned(p) = rank[p] /\ Argument(p) \in Values
      /\ UNCHANGED <<stage, rank, ranks, Program, step, workers, reply, mesh>>
      /\ phase'[p] = "last" /\ \A x \in Procs \ {p} : phase'[x] = phase[x] /\ recvs'[x] = recvs[x]
      /\ recvs'[p] = {Call(p).root} /\ SendTo(p, {}, Argument(p))
      /\ \A x \in Procs \ {p} : data'[x] = data[x]
      /\ data' = [x \in Procs |-> data'[x]]
      /\ Reached(p) = step[p] /\ Reached(p)' = step[p] + 1
      /\ \A r \in Ranks : ~Waits(p, r)
  BY StartCastFacts
<1>2. chan'["broadcast"] = chan["broadcast"]
  <2>1. Peers(p, {}) = {}
    BY DEF Peers
  <2>2. /\ chan'["broadcast"] \in [Procs -> [Procs -> Seq(Values)]]
        /\ \A x \in Procs \ {p} : chan'["broadcast"][x] = chan["broadcast"][x]
        /\ \A y \in Procs : chan'["broadcast"][p][y] =
             IF y \in Peers(p, {}) THEN Append(chan["broadcast"][p][y], Argument(p)) ELSE chan["broadcast"][p][y]
    BY <1>0, <1>1, SendCast
  <2>3. chan["broadcast"] \in [Procs -> [Procs -> Seq(Values)]]
    BY <1>0 DEF CastTypeOK
  <2>4. chan'["broadcast"][p] = chan["broadcast"][p]
    BY <2>1, <2>2, <2>3
  <2>5. PICK c \in [Procs -> [Procs -> Seq(Values)]] : c = chan["broadcast"]
    BY <2>3
  <2>6. PICK d \in [Procs -> [Procs -> Seq(Values)]] : d = chan'["broadcast"]
    BY <2>2
  <2>7. \A x \in Procs : d[x] = c[x]
    BY <2>2, <2>4, <2>5, <2>6
  <2>8. d = c
    BY <2>7
  <2> QED BY <2>5, <2>6, <2>8
<1>3. MeshOrder' /\ CastTypeOK'
  BY <1>0, <1>1, <1>2, OrderSame DEF CastTypeOK
<1>4. DataExact'
  <2>1. /\ phase'[p] = "last" /\ recvs'[p] \subseteq {Call(p).root} \ {rank[p]} /\ recvs'[p] # {}
        /\ rank' = rank /\ Call(p)' = Call(p)
    BY <1>1 DEF Call
  <2>2. ASSUME NEW x \in Procs, x # p
        PROVE  /\ phase'[x] # "out" /\ Call(x).kind' = "broadcast" =>
                    /\ phase'[x] = "last" /\ recvs'[x] \subseteq {Call(x).root'} \ {rank'[x]}
                    /\ recvs'[x] = {} => data'[x] = Input[step'[x] + 1][Call(x).root']
               /\ phase'[x] = "out" /\ step'[x] > 0 /\ Program'[step'[x]].kind = "broadcast" =>
                    data'[x] = Input[step'[x]][Program'[step'[x]].root]
    BY <1>0, <1>1, <2>2 DEF DataExact, Call
  <2> QED BY <2>1, <2>2 DEF DataExact
<1>5. ASSUME NEW x \in Procs, NEW r \in Ranks, x # p PROVE Taken(x, r)' = Taken(x, r) /\ Entries(x, r)' = Entries(x, r)
  <2>1. Reached(x)' = Reached(x) /\ (Waits(x, r)' <=> Waits(x, r))
    BY <1>1, <1>5 DEF Reached, Waits, Call
  <2> QED BY <1>1, <2>1, TakenSame
<1>6. ASSUME NEW r \in Ranks PROVE Taken(p, r)' = Taken(p, r) /\ (r # Call(p).root => Entries(p, r)' = Entries(p, r))
  <2>1. Past(p, r) = step[p]
    BY <1>1 DEF Past
  <2>2. CASE r = Call(p).root
    <3>1. Waits(p, r)'
      BY <1>1, <2>2 DEF Waits, Call
    <3>2. Past(p, r)' = step[p]
      BY <1>1, <3>1 DEF Past
    <3> QED BY <1>1, <2>1, <2>2, <3>2 DEF Taken
  <2>3. CASE r # Call(p).root
    <3>1. ~Waits(p, r)'
      BY <1>1, <2>3 DEF Waits, Call
    <3>2. Past(p, r)' = step[p] + 1
      BY <1>1, <3>1 DEF Past
    <3>3. Casts(Program, r, step[p] + 1) = Casts(Program, r, step[p])
      BY <1>1, <2>3, CastCount DEF Call
    <3> QED BY <1>1, <2>1, <3>2, <3>3 DEF Taken, Entries
  <2> QED BY <2>2, <2>3
<1>7. \A x \in Procs, r \in Ranks : Taken(x, r)' = Taken(x, r)
  BY <1>5, <1>6
<1>8. \A x \in Procs, r \in Ranks : Assigned(x) = r => Entries(x, r)' = Entries(x, r)
  BY <1>1, <1>5, <1>6
<1>9. CastExact'
  BY <1>0, <1>1, <1>2, <1>7, <1>8, CastQuiet DEF Assigned
<1> QED BY <1>3, <1>4, <1>9

\* Two processes do not have the same rank.
LEMMA OneRank ==
  ASSUME GroupInv, NEW p \in Procs, stage[p] \in Meshed, NEW x \in Procs, NEW y \in Procs,
         Assigned(x) = Assigned(y), Assigned(x) \in Ranks
  PROVE  x = y
BY FormedTable

\* The broadcasts of a rank are numbered without gaps or repeats.
LEMMA CastNumber ==
  ASSUME NEW prog, NEW r, NEW j \in Nat, NEW k \in Nat, j \in DOMAIN prog, k \in DOMAIN prog,
         prog[j].kind = "broadcast", prog[j].root = r, prog[k].kind = "broadcast", prog[k].root = r,
         Cardinality(Casts(prog, r, j)) = Cardinality(Casts(prog, r, k))
  PROVE  j = k
<1>1. Cardinality(Casts(prog, r, j)) \in Nat /\ Cardinality(Casts(prog, r, k)) \in Nat
  BY CastCount
<1>2. ~(j < k)
  BY <1>1, CastsGrow
<1>3. ~(k < j)
  BY <1>1, CastsGrow
<1> QED BY <1>2, <1>3

\* The root enters and sends the value of its call to everyone.
LEMMA StartRootCast ==
  ASSUME CastInv, NEW p \in Procs, Start(p), Call(p).kind = "broadcast", rank[p] = Call(p).root
  PROVE  MeshOrder' /\ CastTypeOK' /\ CastExact' /\ DataExact'
<1>0. GroupInv /\ CollTypeOK /\ CallExact /\ MeshOrder /\ CastTypeOK /\ CastExact /\ DataExact
  BY DEF CastInv, IInv
<1>1. /\ stage[p] = "created" /\ phase[p] = "out" /\ step[p] \in Nat /\ step[p] + 1 \in DOMAIN Program
      /\ Call(p).root \in Ranks /\ Assigned(p) = rank[p] /\ Argument(p) \in Values
      /\ UNCHANGED <<stage, rank, ranks, Program, step, workers, reply, mesh>>
      /\ phase'[p] = "last" /\ \A x \in Procs \ {p} : phase'[x] = phase[x] /\ recvs'[x] = recvs[x]
      /\ recvs'[p] = {} /\ SendTo(p, Others(rank[p]), Argument(p))
      /\ data'[p] = Argument(p) /\ \A x \in Procs \ {p} : data'[x] = data[x]
      /\ data' = [x \in Procs |-> data'[x]]
      /\ Reached(p) = step[p] /\ Reached(p)' = step[p] + 1
      /\ \A r \in Ranks : ~Waits(p, r)
  BY StartCastFacts
<1>2. /\ chan'["broadcast"] \in [Procs -> [Procs -> Seq(Values)]]
      /\ \A x \in Procs \ {p} : chan'["broadcast"][x] = chan["broadcast"][x]
      /\ \A y \in Procs : chan'["broadcast"][p][y] =
           IF y \in Peers(p, Others(rank[p])) THEN Append(chan["broadcast"][p][y], Argument(p))
           ELSE chan["broadcast"][p][y]
  BY <1>0, <1>1, SendCast
<1>3. \A y \in Procs \ {p} : chan'["broadcast"][p][y] = Append(chan["broadcast"][p][y], Argument(p))
  <2>1. \A y \in Procs \ {p} : y \in Peers(p, Others(rank[p]))
    BY <1>0, <1>1, AllPeers
  <2> QED BY <1>2, <2>1
<1>4. MeshOrder' /\ CastTypeOK'
  BY <1>0, <1>1, <1>2, OrderSame DEF CastTypeOK
<1>5. DataExact'
  <2>1. /\ phase'[p] = "last" /\ recvs'[p] = {} /\ Call(p)' = Call(p)
        /\ data'[p] = Input[step'[p] + 1][Call(p).root]
    BY <1>1 DEF Call, Argument
  <2>2. ASSUME NEW x \in Procs, x # p
        PROVE  /\ phase'[x] # "out" /\ Call(x).kind' = "broadcast" =>
                    /\ phase'[x] = "last" /\ recvs'[x] \subseteq {Call(x).root'} \ {rank'[x]}
                    /\ recvs'[x] = {} => data'[x] = Input[step'[x] + 1][Call(x).root']
               /\ phase'[x] = "out" /\ step'[x] > 0 /\ Program'[step'[x]].kind = "broadcast" =>
                    data'[x] = Input[step'[x]][Program'[step'[x]].root]
    BY <1>0, <1>1, <2>2 DEF DataExact, Call
  <2> QED BY <2>1, <2>2 DEF DataExact
<1>6. ASSUME NEW x \in Procs, NEW r \in Ranks, x # p
      PROVE  Taken(x, r)' = Taken(x, r) /\ Entries(x, r)' = Entries(x, r)
  <2>1. Reached(x)' = Reached(x) /\ (Waits(x, r)' <=> Waits(x, r))
    BY <1>1, <1>6 DEF Reached, Waits, Call
  <2> QED BY <1>1, <2>1, TakenSame
<1>7. ASSUME NEW r \in Ranks, r # Call(p).root PROVE Taken(p, r)' = Taken(p, r)
  <2>1. ~Waits(p, r)'
    BY <1>1 DEF Waits
  <2>2. Past(p, r) = step[p] /\ Past(p, r)' = step[p] + 1
    BY <1>1, <2>1 DEF Past
  <2>3. Casts(Program, r, step[p] + 1) = Casts(Program, r, step[p])
    BY <1>1, <1>7, CastCount DEF Call
  <2> QED BY <1>1, <2>2, <2>3 DEF Taken
<1>8. ASSUME NEW x \in Procs, NEW y \in Procs, NEW r \in Ranks, x # y, Assigned(x)' = r
      PROVE  /\ Len(chan'["broadcast"][x][y]) + Taken(y, r)' = Entries(x, r)'
             /\ \A i \in 1..Len(chan'["broadcast"][x][y]), k \in DOMAIN Program' :
                  /\ Program'[k].kind = "broadcast" /\ Program'[k].root = r
                  /\ Cardinality(Casts(Program', r, k)) = Taken(y, r)' + i
                  => chan'["broadcast"][x][y][i] = Input[k][r]
  <2>1. Assigned(x) = r
    BY <1>1, <1>8 DEF Assigned
  <2>2. /\ Len(chan["broadcast"][x][y]) + Taken(y, r) = Entries(x, r)
        /\ \A i \in 1..Len(chan["broadcast"][x][y]), k \in DOMAIN Program :
             /\ Program[k].kind = "broadcast" /\ Program[k].root = r
             /\ Cardinality(Casts(Program, r, k)) = Taken(y, r) + i
             => chan["broadcast"][x][y][i] = Input[k][r]
    BY <1>0, <1>8, <2>1, CastPair
  <2>3. CASE x # p
    <3>1. r # Call(p).root
      BY <1>0, <1>1, <2>1, <2>3, OneRank DEF Meshed
    <3>2. Taken(y, r)' = Taken(y, r) /\ Entries(x, r)' = Entries(x, r)
      BY <1>6, <1>7, <2>3, <3>1
    <3>3. chan'["broadcast"][x] = chan["broadcast"][x]
      BY <1>2, <2>3
    <3> QED BY <1>1, <2>2, <3>2, <3>3
  <2>4. CASE x = p
    <3>1. r = Call(p).root /\ r = rank[p] /\ y \in Procs \ {p}
      BY <1>1, <1>8, <2>1, <2>4
    <3>c. PICK c \in Seq(Values) : c = chan["broadcast"][p][y]
      BY <1>0 DEF CastTypeOK
    <3>d. PICK d : d = chan'["broadcast"][p][y]
      OBVIOUS
    <3>v. PICK v \in Values : v = Argument(p)
      BY <1>1
    <3>2. d = Append(c, v)
      BY <1>3, <3>1, <3>c, <3>d, <3>v
    <3>3. Len(d) = Len(c) + 1 /\ (\A i \in 1..Len(c) : d[i] = c[i]) /\ d[Len(c) + 1] = v /\ Len(c) \in Nat
      BY <3>2
    <3>4. Taken(y, r)' = Taken(y, r)
      BY <1>6, <3>1
    <3>n. PICK n : n = step[p] + 1
      OBVIOUS
    <3>5. n \in Nat /\ n \in DOMAIN Program /\ Program[n].kind = "broadcast" /\ Program[n].root = r
      BY <1>1, <3>1, <3>n DEF Call
    <3>6. /\ Entries(p, r) = Cardinality(Casts(Program, r, step[p]))
          /\ Entries(p, r)' = Cardinality(Casts(Program, r, n))
      BY <1>1, <3>n DEF Entries
    <3>7. Cardinality(Casts(Program, r, n)) = Entries(p, r) + 1 /\ Entries(p, r) \in Nat
      BY <1>1, <3>5, <3>6, <3>n, CastCount
    <3>e. PICK e \in Nat : e = Entries(p, r)
      BY <3>7
    <3>8. Taken(y, r) \in Nat
      <4>1. Past(y, r) \in Nat
        BY <1>0, CallFacts DEF Past
      <4> QED BY <4>1, CastCount DEF Taken
    <3>t. PICK t \in Nat : t = Taken(y, r)
      BY <3>8
    <3>9. Len(c) + t = e
      BY <2>2, <2>4, <3>c, <3>e, <3>t
    <3>10. Len(d) + t = e + 1
      BY <3>3, <3>9
    <3>11. ASSUME NEW i \in 1..Len(d), NEW k \in DOMAIN Program,
                  Program[k].kind = "broadcast", Program[k].root = r,
                  Cardinality(Casts(Program, r, k)) = t + i
           PROVE  d[i] = Input[k][r]
      <4>1. CASE i \in 1..Len(c)
        BY <2>2, <2>4, <3>3, <3>11, <3>c, <3>t, <4>1
      <4>2. CASE i = Len(c) + 1
        <5>1. Cardinality(Casts(Program, r, k)) = e + 1
          BY <3>3, <3>9, <3>11, <4>2
        <5>2. Cardinality(Casts(Program, r, k)) = Cardinality(Casts(Program, r, n))
          BY <3>7, <3>e, <5>1
        <5>3. k \in Nat
          BY <1>0, CallFacts
        <5>4. k = n
          BY <3>5, <3>11, <5>2, <5>3, CastNumber
        <5> QED BY <3>1, <3>3, <3>n, <3>v, <4>2, <5>4 DEF Argument
      <4>3. i \in 1..Len(c) \/ i = Len(c) + 1
        BY <3>3
      <4> QED BY <4>1, <4>2, <4>3
    <3>12. Len(d) + Taken(y, r)' = Entries(p, r)'
      BY <3>4, <3>6, <3>7, <3>10, <3>e, <3>t
    <3> QED BY <1>1, <2>4, <3>4, <3>11, <3>12, <3>d, <3>t
  <2> QED BY <2>3, <2>4
<1>9. (\A x \in Procs : stage'[x] \notin {"created", "closed"}) =>
        \A x, y \in Procs : chan'["broadcast"][x][y] = <<>>
  BY <1>1
<1>10. CastExact'
  BY <1>8, <1>9 DEF CastExact
<1> QED BY <1>4, <1>5, <1>10

\* What a delivery leaves alone.
LEMMA DeliverFacts ==
  ASSUME BaseInv, NEW p \in Procs, NEW r \in Ranks, Deliver(p, r)
  PROVE  /\ r \in recvs[p] /\ phase[p] # "out" /\ stage[p] = "created"
         /\ step[p] \in Nat /\ step[p] + 1 \in DOMAIN Program /\ Call(p).kind \in Kinds
         /\ UNCHANGED <<stage, rank, ranks, workers, reply, mesh, Program, step, phase>>
         /\ recvs'[p] = recvs[p] \ {r} /\ \A x \in Procs \ {p} : recvs'[x] = recvs[x] /\ data'[x] = data[x]
         /\ data' = [x \in Procs |-> data'[x]]
<1>0. CollTypeOK /\ CallExact /\ DataOK
  BY DEF BaseInv, IInv
<1>1. /\ r \in recvs[p] /\ recvs' = [recvs EXCEPT ![p] = recvs[p] \ {r}]
      /\ UNCHANGED <<stage, rank, ranks, workers, reply, mesh, Program, step, phase>>
  BY DEF Deliver, groupVars
<1>2. phase[p] # "out" /\ step[p] < Len(Program) /\ stage[p] = "created"
  BY <1>0, <1>1 DEF CallExact
<1>3. recvs'[p] = recvs[p] \ {r} /\ \A x \in Procs \ {p} : recvs'[x] = recvs[x]
  BY <1>0, <1>1 DEF CollTypeOK
<1>4. UNCHANGED data \/ \E v : data' = [data EXCEPT ![p] = v]
  BY DEF Deliver
<1>5. (\A x \in Procs \ {p} : data'[x] = data[x]) /\ data' = [x \in Procs |-> data'[x]]
  BY <1>0, <1>4 DEF DataOK
<1> QED BY <1>0, <1>1, <1>2, <1>3, <1>5, CallFacts

\* A receive of another collective completes.
LEMMA DeliverOtherCast ==
  ASSUME CastInv, NEW p \in Procs, NEW r \in Ranks, Deliver(p, r), Call(p).kind # "broadcast"
  PROVE  MeshOrder' /\ CastTypeOK' /\ CastExact' /\ DataExact'
<1>0. CollTypeOK /\ MeshOrder /\ CastTypeOK /\ CastExact /\ DataExact
  BY DEF CastInv, IInv
<1>f. BaseInv
  BY DEF CastInv, CastTypeOK, BaseInv, DataOK
<1>1. /\ phase[p] # "out" /\ Call(p).kind \in Kinds
      /\ UNCHANGED <<stage, rank, ranks, workers, reply, mesh, Program, step, phase>>
      /\ \A x \in Procs \ {p} : recvs'[x] = recvs[x] /\ data'[x] = data[x]
      /\ data' = [x \in Procs |-> data'[x]]
  BY <1>f, DeliverFacts
<1>2. chan'["broadcast"] = chan["broadcast"]
  <2>1. \E s, t : chan' = [chan EXCEPT ![Call(p).kind][s][p] = t]
    BY DEF Deliver
  <2> QED BY <1>0, <1>1, <2>1 DEF CollTypeOK, Kinds
<1>3. MeshOrder' /\ CastTypeOK'
  BY <1>0, <1>1, <1>2, OrderSame DEF CastTypeOK
<1>4. DataExact'
  BY <1>0, <1>1 DEF DataExact, Call
<1>5. ASSUME NEW x \in Procs, NEW l \in Ranks PROVE Taken(x, l)' = Taken(x, l) /\ Entries(x, l)' = Entries(x, l)
  <2>1. Reached(x)' = Reached(x) /\ (Waits(x, l)' <=> Waits(x, l))
    BY <1>1 DEF Reached, Waits, Call
  <2> QED BY <1>1, <2>1, TakenSame
<1>6. CastExact'
  BY <1>0, <1>1, <1>2, <1>5, CastQuiet DEF Assigned
<1> QED BY <1>3, <1>4, <1>6

\* The receive of a broadcast completes: the oldest message of the root is the
\* one of this call.
LEMMA DeliverCast ==
  ASSUME CastInv, NEW p \in Procs, NEW r \in Ranks, Deliver(p, r), Call(p).kind = "broadcast"
  PROVE  MeshOrder' /\ CastTypeOK' /\ CastExact' /\ DataExact'
<1>0. /\ GroupInv /\ TypeOK /\ RankExact /\ CollTypeOK /\ CallExact /\ MeshOrder /\ CastTypeOK
      /\ CastExact /\ DataExact
  BY DEF CastInv, IInv, GroupInv
<1>f. BaseInv
  BY DEF CastInv, CastTypeOK, BaseInv, DataOK
<1>1. /\ r \in recvs[p] /\ phase[p] # "out" /\ stage[p] = "created"
      /\ step[p] \in Nat /\ step[p] + 1 \in DOMAIN Program
      /\ UNCHANGED <<stage, rank, ranks, workers, reply, mesh, Program, step, phase>>
      /\ recvs'[p] = recvs[p] \ {r} /\ \A x \in Procs \ {p} : recvs'[x] = recvs[x] /\ data'[x] = data[x]
      /\ data' = [x \in Procs |-> data'[x]]
  BY <1>f, DeliverFacts
<1>2. phase[p] = "last" /\ r = Call(p).root /\ r # rank[p] /\ recvs[p] = {r} /\ recvs'[p] = {}
  BY <1>0, <1>1 DEF DataExact
<1>s. PICK s : s = ranks[p][r]
  OBVIOUS
<1>n. PICK n \in Nat : n = step[p] + 1
  BY <1>1
<1>3. n \in DOMAIN Program /\ Program[n].kind = "broadcast" /\ Program[n].root = r
  BY <1>1, <1>2, <1>n DEF Call
<1>4. s \in Procs /\ Assigned(s) = r /\ s # p
  <2>1. rank[p] \in Ranks /\ Assigned(p) = rank[p]
    BY <1>0, <1>1, AssignedFacts DEF Meshed
  <2>2. CASE OnlyRoot0
    <3>1. r = 0
      BY <1>3, <2>2 DEF OnlyRoot0
    <3>2. r < rank[p]
      BY <1>2, <2>1, <3>1, GroupAssumption DEF Ranks
    <3> QED BY <1>0, <1>1, <1>2, <1>s, <2>1, <3>2, PeersInOrder
  <2>3. CASE ~OnlyRoot0
    BY <1>0, <1>1, <1>2, <1>s, <2>1, <2>3, PeersInOrder
  <2> QED BY <2>2, <2>3
<1>b. PICK b \in [Procs -> [Procs -> Seq(Values)]] : b = chan["broadcast"]
  BY <1>0 DEF CastTypeOK
<1>c. PICK c \in Seq(Values) : c = b[s][p]
  BY <1>4
<1>5. c # <<>> /\ chan' = [chan EXCEPT !["broadcast"][s][p] = Tail(c)] /\ data' = [data EXCEPT ![p] = Head(c)]
  BY <1>2, <1>b, <1>c, <1>s DEF Deliver
<1>d. PICK d \in Seq(Values) : d = Tail(c)
  <2>1. c # <<>>
    BY <1>5
  <2>2. Tail(c) \in Seq(Values)
    BY <2>1
  <2> QED BY <2>2
<1>6. /\ Len(c) \in Nat \ {0} /\ Len(d) = Len(c) - 1 /\ Head(c) = c[1]
      /\ \A i \in 1..Len(d) : d[i] = c[i + 1] /\ i + 1 \in 1..Len(c)
  BY <1>5, <1>d
<1>e. PICK e : e = chan'["broadcast"]
  OBVIOUS
<1>7. /\ e \in [Procs -> [Procs -> Seq(Values)]] /\ e[s][p] = d
      /\ \A x, y \in Procs : ~(x = s /\ y = p) => e[x][y] = b[x][y]
  <2>1. e = [b EXCEPT ![s] = [b[s] EXCEPT ![p] = d]]
    BY <1>0, <1>5, <1>b, <1>d, <1>e DEF CollTypeOK, Kinds
  <2>2. [b[s] EXCEPT ![p] = d] \in [Procs -> Seq(Values)]
    BY <1>4
  <2> QED BY <1>4, <2>1, <2>2
<1>8. MeshOrder' /\ CastTypeOK'
  BY <1>0, <1>1, <1>7, <1>e, OrderSame DEF CastTypeOK
<1>9. \A x \in Procs, l \in Ranks : Entries(x, l)' = Entries(x, l)
  BY <1>1 DEF Entries, Reached
<1>10. ASSUME NEW x \in Procs, NEW l \in Ranks, x # p \/ l # r PROVE Taken(x, l)' = Taken(x, l)
  <2>1. Reached(x)' = Reached(x) /\ (Waits(x, l)' <=> Waits(x, l))
    BY <1>1, <1>2, <1>10 DEF Reached, Waits, Call
  <2> QED BY <1>1, <2>1, TakenSame
<1>11. /\ Taken(p, r) \in Nat /\ Taken(p, r)' = Taken(p, r) + 1
       /\ Cardinality(Casts(Program, r, n)) = Taken(p, r) + 1
  <2>1. Waits(p, r) /\ ~Waits(p, r)'
    BY <1>1, <1>2 DEF Waits
  <2>2. Past(p, r) = step[p] /\ Past(p, r)' = n
    BY <1>1, <1>n, <2>1 DEF Past, Reached
  <2>3. Taken(p, r) = Cardinality(Casts(Program, r, step[p])) /\ Taken(p, r)' = Cardinality(Casts(Program, r, n))
    BY <1>1, <2>2 DEF Taken
  <2> QED BY <1>1, <1>3, <1>n, <2>3, CastCount
<1>t. PICK t \in Nat : t = Taken(p, r)
  BY <1>11
<1>12. /\ Len(c) + t = Entries(s, r)
       /\ \A i \in 1..Len(c), k \in DOMAIN Program :
            /\ Program[k].kind = "broadcast" /\ Program[k].root = r
            /\ Cardinality(Casts(Program, r, k)) = t + i
            => c[i] = Input[k][r]
  <2>1. /\ Len(chan["broadcast"][s][p]) + Taken(p, r) = Entries(s, r)
        /\ \A i \in 1..Len(chan["broadcast"][s][p]), k \in DOMAIN Program :
             /\ Program[k].kind = "broadcast" /\ Program[k].root = r
             /\ Cardinality(Casts(Program, r, k)) = Taken(p, r) + i
             => chan["broadcast"][s][p][i] = Input[k][r]
    BY <1>0, <1>4, CastPair
  <2>2. chan["broadcast"][s][p] = c
    BY <1>b, <1>c
  <2> QED BY <1>t, <2>1, <2>2
<1>13. Head(c) = Input[n][r]
  <2>1. 1 \in 1..Len(c)
    BY <1>6
  <2> QED BY <1>3, <1>6, <1>11, <1>12, <1>t, <2>1
<1>14. DataExact'
  <2>1. data'[p] = Input[step'[p] + 1][Call(p).root] /\ phase'[p] = "last" /\ recvs'[p] = {}
    <3>1. data'[p] = Head(c)
      BY <1>0, <1>5 DEF CastTypeOK
    <3> QED BY <1>1, <1>2, <1>13, <1>n, <3>1
  <2>2. \A x \in Procs : /\ Call(x)' = Call(x) /\ phase'[x] = phase[x] /\ step'[x] = step[x] /\ rank'[x] = rank[x]
                         /\ Program' = Program
    BY <1>1 DEF Call
  <2>3. \A x \in Procs \ {p} : recvs'[x] = recvs[x] /\ data'[x] = data[x]
    BY <1>1
  <2>4. ASSUME NEW x \in Procs
        PROVE  /\ phase'[x] # "out" /\ Call(x)'.kind = "broadcast" =>
                    /\ phase'[x] = "last" /\ recvs'[x] \subseteq {Call(x)'.root} \ {rank'[x]}
                    /\ recvs'[x] = {} => data'[x] = Input[step'[x] + 1][Call(x)'.root]
               /\ phase'[x] = "out" /\ step'[x] > 0 /\ Program'[step'[x]].kind = "broadcast" =>
                    data'[x] = Input[step'[x]][Program'[step'[x]].root]
    <3>1. CASE x = p
      BY <2>1, <2>2, <3>1
    <3>2. CASE x # p
      <4>1. /\ phase[x] # "out" /\ Call(x).kind = "broadcast" =>
                 /\ phase[x] = "last" /\ recvs[x] \subseteq {Call(x).root} \ {rank[x]}
                 /\ recvs[x] = {} => data[x] = Input[step[x] + 1][Call(x).root]
            /\ phase[x] = "out" /\ step[x] > 0 /\ Program[step[x]].kind = "broadcast" =>
                 data[x] = Input[step[x]][Program[step[x]].root]
        BY <1>0 DEF DataExact
      <4>2. /\ Call(x)' = Call(x) /\ phase'[x] = phase[x] /\ step'[x] = step[x] /\ rank'[x] = rank[x]
            /\ Program' = Program /\ recvs'[x] = recvs[x] /\ data'[x] = data[x]
        BY <2>2, <2>3, <3>2
      <4> QED BY <4>1, <4>2
    <3> QED BY <3>1, <3>2
  <2> QED BY <2>4 DEF DataExact
<1>15. ASSUME NEW x \in Procs, NEW y \in Procs, NEW l \in Ranks, x # y, Assigned(x)' = l
       PROVE  /\ Len(e[x][y]) + Taken(y, l)' = Entries(x, l)'
              /\ \A i \in 1..Len(e[x][y]), k \in DOMAIN Program' :
                   /\ Program'[k].kind = "broadcast" /\ Program'[k].root = l
                   /\ Cardinality(Casts(Program', l, k)) = Taken(y, l)' + i
                   => e[x][y][i] = Input[k][l]
  <2>1. Assigned(x) = l
    BY <1>1, <1>15 DEF Assigned
  <2>2. CASE x = s /\ y = p
    <3>1. l = r /\ Taken(y, l)' = t + 1 /\ Entries(x, l)' = Entries(s, r)
      BY <1>4, <1>9, <1>11, <1>t, <2>1, <2>2
    <3>2. Len(d) + (t + 1) = Entries(s, r)
      BY <1>6, <1>12
    <3>3. ASSUME NEW i \in 1..Len(d), NEW k \in DOMAIN Program,
                 Program[k].kind = "broadcast", Program[k].root = r,
                 Cardinality(Casts(Program, r, k)) = (t + 1) + i
          PROVE  d[i] = Input[k][r]
      <4>1. (t + 1) + i = t + (i + 1) /\ i + 1 \in 1..Len(c) /\ d[i] = c[i + 1]
        BY <1>6
      <4> QED BY <1>12, <3>3, <4>1
    <3>4. e[x][y] = d /\ Program' = Program
      BY <1>1, <1>7, <2>2
    <3> QED BY <3>1, <3>2, <3>3, <3>4
  <2>3. CASE ~(x = s /\ y = p)
    <3>1. y # p \/ l # r
      BY <1>0, <1>1, <1>4, <2>1, <2>3, OneRank DEF Meshed
    <3>2. e[x][y] = b[x][y] /\ Taken(y, l)' = Taken(y, l) /\ Entries(x, l)' = Entries(x, l)
      BY <1>7, <1>9, <1>10, <2>3, <3>1
    <3>3. /\ Len(b[x][y]) + Taken(y, l) = Entries(x, l)
          /\ \A i \in 1..Len(b[x][y]), k \in DOMAIN Program :
               /\ Program[k].kind = "broadcast" /\ Program[k].root = l
               /\ Cardinality(Casts(Program, l, k)) = Taken(y, l) + i
               => b[x][y][i] = Input[k][l]
      <4>1. /\ Len(chan["broadcast"][x][y]) + Taken(y, l) = Entries(x, l)
            /\ \A i \in 1..Len(chan["broadcast"][x][y]), k \in DOMAIN Program :
                 /\ Program[k].kind = "broadcast" /\ Program[k].root = l
                 /\ Cardinality(Casts(Program, l, k)) = Taken(y, l) + i
                 => chan["broadcast"][x][y][i] = Input[k][l]
        BY <1>0, <1>15, <2>1, CastPair
      <4> QED BY <1>b, <4>1
    <3> QED BY <1>1, <3>2, <3>3
  <2> QED BY <2>2, <2>3
<1>16. (\A x \in Procs : stage'[x] \notin {"created", "closed"}) => \A x, y \in Procs : e[x][y] = <<>>
  BY <1>1
<1>17. CastExact'
  <2>1. \A x, y \in Procs, l \in Ranks : x # y /\ Assigned(x)' = l =>
          /\ Len(chan'["broadcast"][x][y]) + Taken(y, l)' = Entries(x, l)'
          /\ \A i \in 1..Len(chan'["broadcast"][x][y]), k \in DOMAIN Program' :
               /\ Program'[k].kind = "broadcast" /\ Program'[k].root = l
               /\ Cardinality(Casts(Program', l, k)) = Taken(y, l)' + i
               => chan'["broadcast"][x][y][i] = Input[k][l]
    <3>1. \A x, y \in Procs, l \in Ranks : x # y /\ Assigned(x)' = l =>
            /\ Len(e[x][y]) + Taken(y, l)' = Entries(x, l)'
            /\ \A i \in 1..Len(e[x][y]), k \in DOMAIN Program' :
                 /\ Program'[k].kind = "broadcast" /\ Program'[k].root = l
                 /\ Cardinality(Casts(Program', l, k)) = Taken(y, l)' + i
                 => e[x][y][i] = Input[k][l]
      BY <1>15
    <3> QED BY <1>e, <3>1
  <2>2. (\A x \in Procs : stage'[x] \notin {"created", "closed"}) =>
          \A x, y \in Procs : chan'["broadcast"][x][y] = <<>>
    BY <1>16, <1>e
  <2> QED BY <2>1, <2>2 DEF CastExact
<1> QED BY <1>8, <1>14, <1>17

LEMMA CastInit == Init => CastInv
<1> SUFFICES ASSUME Init PROVE CastInv
  OBVIOUS
<1>1. IInv /\ CollTypeOK /\ CallExact
  BY IInvInit DEF IInv
<1>2. /\ \A p \in Procs : stage[p] = "out" /\ step[p] = 0 /\ phase[p] = "out"
      /\ \A p \in Procs : mesh[p] = <<>> /\ ranks[p] = NoPeers
      /\ chan["broadcast"] = [p \in Procs |-> [q \in Procs |-> <<>>]] /\ data = [p \in Procs |-> 0]
  BY DEF Init, GroupInit, Kinds
<1>3. MeshOrder
  <2>1. \A p \in Procs : ToSet(mesh[p]) = {} /\ DOMAIN mesh[p] = {}
    BY <1>2 DEF ToSet
  <2>2. \A p \in Procs, j \in Ranks : ranks[p][j] = None
    BY <1>2 DEF NoPeers
  <2>3. None \notin Procs
    BY GroupAssumption DEF Procs
  <2> QED BY <1>2, <2>1, <2>2, <2>3 DEF MeshOrder, InOrder, Accepted
<1>4. <<>> \in Seq(Values)
  OBVIOUS
<1>5. CastTypeOK
  BY <1>2, <1>4 DEF CastTypeOK
<1>6. \A p \in Procs, r \in Ranks : Taken(p, r) = 0 /\ Entries(p, r) = 0
  BY <1>1, <1>2, CastNone
<1>7. \A p, q \in Procs : chan["broadcast"][p][q] = <<>> /\ Len(chan["broadcast"][p][q]) = 0
  <2>1. \A p, q \in Procs : chan["broadcast"][p][q] = <<>>
    BY <1>2
  <2> QED BY <2>1
<1>8. CastExact
  BY <1>6, <1>7 DEF CastExact
<1>9. DataExact
  BY <1>2 DEF DataExact
<1> QED BY <1>1, <1>3, <1>5, <1>8, <1>9 DEF CastInv

\* What is in order after a step was so before it.
LEMMA OrderlyStays ==
  ASSUME BaseInv, [Next]_vars, Orderly'
  PROVE  /\ Orderly
         /\ \A p \in Procs : CreateGroup(p) => OnlyRoot0 \/ ConnectsInOrder(p)
<1>1. Program' = Program
  BY DEF Next, vars, collVars, CreateGroup, CloseGroup, Start, AllreduceResult, Finish, Deliver
<1>2. OnlyRoot0' => OnlyRoot0
  BY <1>1 DEF OnlyRoot0
<1>3. ~permuted' => ~permuted /\ \A p \in Procs : CreateGroup(p) => ConnectsInOrder(p)
  <2>1. \A p \in Procs : CreateGroup(p) => (permuted' = (permuted \/ ~ConnectsInOrder(p)))
    BY DEF CreateGroup
  <2>2. (\E p \in Procs : CreateGroup(p)) \/ permuted' = permuted
    BY DEF Next, vars, CloseGroup, Start, AllreduceResult, Finish, Deliver
  <2> QED BY <2>1, <2>2
<1> QED BY <1>2, <1>3 DEF Orderly

\* The buffers are those of the processes.
LEMMA BaseNext ==
  ASSUME BaseInv, [Next]_vars
  PROVE  BaseInv'
<1>1. IInv'
  BY IInvNext DEF BaseInv
<1>2. UNCHANGED data \/ \E p \in Procs : \E v : data' = [data EXCEPT ![p] = v]
  BY DEF Next, vars, collVars, CreateGroup, CloseGroup, Start, Barrier, Broadcast, AllreduceGather, Enter,
         AllreduceResult, Finish, Deliver
<1>3. DataOK'
  BY <1>2 DEF BaseInv, DataOK
<1> QED BY <1>1, <1>3 DEF BaseInv

LEMMA CastNext ==
  ASSUME CastInv, [Next]_vars, \A p \in Procs : CreateGroup(p) => OnlyRoot0 \/ ConnectsInOrder(p)
  PROVE  CastInv'
<1>1. IInv'
  BY IInvNext DEF CastInv
<1>2. MeshOrder' /\ CastTypeOK' /\ CastExact' /\ DataExact'
  <2>1. CASE UNCHANGED vars
    <3>1. MeshOrder /\ CastTypeOK /\ CastExact /\ DataExact
      BY DEF CastInv
    <3>2. UNCHANGED <<stage, rank, ranks, workers, reply, mesh, Program, step, phase, recvs, chan, data>>
      BY <2>1 DEF vars, groupVars, collVars
    <3>3. MeshOrder' /\ CastTypeOK' /\ DataExact'
      BY <3>1, <3>2, OrderSame DEF CastTypeOK, DataExact, Call
    <3>4. ASSUME NEW x \in Procs, NEW r \in Ranks PROVE Taken(x, r)' = Taken(x, r) /\ Entries(x, r)' = Entries(x, r)
      <4>1. Reached(x)' = Reached(x) /\ (Waits(x, r)' <=> Waits(x, r))
        BY <3>2 DEF Reached, Waits, Call
      <4> QED BY <3>2, <4>1, TakenSame
    <3>5. CastExact'
      BY <3>1, <3>2, <3>4, CastQuiet DEF Assigned
    <3> QED BY <3>3, <3>5
  <2>2. ASSUME NEW p \in Procs, CreateGroup(p) \/ CloseGroup(p) \/ AllreduceResult(p) \/ Finish(p)
        PROVE  MeshOrder' /\ CastTypeOK' /\ CastExact' /\ DataExact'
    BY <2>2, CreateCast, CloseCast, AllreduceResultCast, FinishCast
  <2>3. ASSUME NEW p \in Procs, Start(p) PROVE MeshOrder' /\ CastTypeOK' /\ CastExact' /\ DataExact'
    BY <2>3, StartOtherCast, StartMemberCast, StartRootCast
  <2>4. ASSUME NEW p \in Procs, NEW r \in Ranks, Deliver(p, r)
        PROVE  MeshOrder' /\ CastTypeOK' /\ CastExact' /\ DataExact'
    BY <2>4, DeliverCast, DeliverOtherCast
  <2> QED BY <2>1, <2>2, <2>3, <2>4 DEF Next
<1> QED BY <1>1, <1>2 DEF CastInv

LEMMA OrderlyInit == Init => OrderlyInv
<1>1. Init => IInv /\ CastInv
  BY CastInit DEF CastInv
<1>2. Init => DataOK
  BY DEF Init, DataOK
<1> QED BY <1>1, <1>2 DEF OrderlyInv, BaseInv

LEMMA OrderlyNext ==
  ASSUME OrderlyInv, [Next]_vars
  PROVE  OrderlyInv'
<1>1. BaseInv'
  BY BaseNext DEF OrderlyInv
<1>2. Orderly' => CastInv'
  <2> SUFFICES ASSUME Orderly' PROVE CastInv'
    OBVIOUS
  <2>1. Orderly /\ \A p \in Procs : CreateGroup(p) => OnlyRoot0 \/ ConnectsInOrder(p)
    BY OrderlyStays DEF OrderlyInv
  <2>2. CastInv
    BY <2>1 DEF OrderlyInv
  <2> QED BY <2>1, <2>2, CastNext
<1> QED BY <1>1, <1>2 DEF OrderlyInv

\* lfi_broadcast: a process that has returned from a broadcast holds what the
\* root passed to that very call, for any number of processes, any program of
\* collectives and any interleaving, although every broadcast uses the one tag
\* and a fast root may be several calls ahead of a slow member.  The processes
\* connect in any order; of a mesh accepted out of order it speaks only when
\* every root is 0, as the property says.
THEOREM BroadcastDeliversInvariant == Spec => []BroadcastDelivers
<1>1. OrderlyInv => BroadcastDelivers
  BY DEF OrderlyInv, CastInv, DataExact, BroadcastDelivers
<1>2. Init => OrderlyInv
  BY OrderlyInit
<1>3. OrderlyInv /\ [Next]_vars => OrderlyInv'
  BY OrderlyNext
<1> QED BY <1>1, <1>2, <1>3, PTL DEF Spec

-----------------------------------------------------------------------------
(* The inductive invariant: allreduce.                                     *)

\* The reductions among the first k calls of a program, their number, and all of
\* them.
Reduces(prog, k) == {i \in 1..k : i \in DOMAIN prog /\ prog[i].kind = "allreduce"}
Number(prog, k) == Cardinality(Reduces(prog, k))

Reductions(prog) == {k \in DOMAIN prog : prog[k].kind = "allreduce"}

\* What a rank contributes to the calls of a program, and what they should give.
Contribution(prog, r) == [k \in Reductions(prog) |-> Input[k][r]]
Reduced(prog) == [k \in Reductions(prog) |-> Reduction(prog[k].op, Input[k])]

\* The channel c holds the reductions after the first t up to the e-th, in the
\* order of the calls, each message with the value V has for its call.
Pipe(prog, c, t, e, V) ==
  /\ Len(c) + t = e
  /\ \A i \in 1..Len(c), k \in Reductions(prog) : Number(prog, k) = t + i => c[i] = V[k]

\* In the gather p still waits for q; p does not have the result of its call.
Gathers(p, q) == phase[p] = "gather" /\ \E r \in recvs[p] : ranks[p][r] = q
Lacks(p) == \/ phase[p] = "gather"
            \/ phase[p] = "last" /\ Call(p).kind = "allreduce" /\ recvs[p] # {}

\* The calls up to which p has the contribution of q, and has the results.
Gotten(p, q) == IF Gathers(p, q) THEN step[p] ELSE Reached(p)
Have(p) == IF Lacks(p) THEN step[p] ELSE Reached(p)

ReduceValues ==
  {Input[k][r] : k \in DOMAIN Input, r \in Ranks} \cup {Reduced(Program)[k] : k \in Reductions(Program)}

ReduceTypeOK ==
  /\ chan["allreduce"] \in [Procs -> [Procs -> Seq(ReduceValues)]]
  /\ gathered = [p \in Procs |-> [r \in Ranks |-> gathered[p][r]]]

\* Between rank 0 and another process: contributions on their way to rank 0,
\* results on their way back.
ReduceExact ==
  /\ \A m, q \in Procs : rank[m] = 0 /\ q # m =>
       /\ Pipe(Program, chan["allreduce"][q][m], Number(Program, Gotten(m, q)),
               Number(Program, Reached(q)), Contribution(Program, Assigned(q)))
       /\ Pipe(Program, chan["allreduce"][m][q], Number(Program, Have(q)),
               Number(Program, Have(m)), Reduced(Program))
  /\ (\A p \in Procs : stage[p] \notin {"created", "closed"}) =>
       \A p, q \in Procs : chan["allreduce"][p][q] = <<>>

\* The buffers of a process, in either half of an allreduce and right after it.
GatherOK(p) ==
  phase[p] = "gather" =>
    /\ Call(p).kind = "allreduce"
    /\ data[p] = Input[step[p] + 1][rank[p]]
    /\ recvs[p] \subseteq IF rank[p] = 0 THEN Others(0) ELSE {}
    /\ rank[p] = 0 => \A r \in Others(0) \ recvs[p] :
         gathered[p][r] = Input[step[p] + 1][Assigned(ranks[p][r])]
ResultOK(p) ==
  /\ phase[p] = "last" /\ Call(p).kind = "allreduce" =>
       /\ recvs[p] \subseteq IF rank[p] = 0 THEN {} ELSE {0}
       /\ recvs[p] = {} => data[p] = Reduced(Program)[step[p] + 1]
  /\ phase[p] = "out" /\ step[p] > 0 /\ Program[step[p]].kind = "allreduce" =>
       data[p] = Reduced(Program)[step[p]]
BuffersExact == \A p \in Procs : GatherOK(p) /\ ResultOK(p)

ReduceInv == BaseInv /\ ReduceTypeOK /\ ReduceExact /\ BuffersExact

-----------------------------------------------------------------------------
(* Allreduce.                                                              *)

\* The reductions among the first k calls of a program.
LEMMA ReduceCount ==
  ASSUME NEW prog, NEW k \in Nat
  PROVE  /\ IsFiniteSet(Reduces(prog, k)) /\ Number(prog, k) \in Nat
         /\ k + 1 \in Reductions(prog) => Number(prog, k + 1) = Number(prog, k) + 1
         /\ k + 1 \notin Reductions(prog) => Number(prog, k + 1) = Number(prog, k)
<1>1. IsFiniteSet(1..k)
  BY FS_Interval
<1>2. Reduces(prog, k) \subseteq 1..k
  BY DEF Reduces
<1>3. IsFiniteSet(Reduces(prog, k))
  BY <1>1, <1>2, FS_Subset
<1>4. Number(prog, k) \in Nat
  BY <1>3, FS_CardinalityType DEF Number
<1>5. ASSUME k + 1 \in Reductions(prog)
      PROVE  Number(prog, k + 1) = Number(prog, k) + 1
  <2>1. Reduces(prog, k + 1) = Reduces(prog, k) \cup {k + 1} /\ k + 1 \notin Reduces(prog, k)
    BY <1>5 DEF Reduces, Reductions
  <2> QED BY <1>3, <2>1, FS_AddElement DEF Number
<1>6. k + 1 \notin Reductions(prog) => Reduces(prog, k + 1) = Reduces(prog, k)
  BY DEF Reduces, Reductions
<1> QED BY <1>3, <1>4, <1>5, <1>6 DEF Number

\* They are numbered without repeats.
LEMMA ReduceNumber ==
  ASSUME NEW prog, NEW j \in Nat, NEW k \in Nat, j \in Reductions(prog), k \in Reductions(prog),
         Number(prog, j) = Number(prog, k)
  PROVE  j = k
<1>1. ASSUME NEW a \in Nat, NEW b \in Nat, a < b, b \in Reductions(prog)
      PROVE  Number(prog, a) # Number(prog, b)
  <2>1. IsFiniteSet(Reduces(prog, a)) /\ IsFiniteSet(Reduces(prog, b))
    BY ReduceCount
  <2>2. Reduces(prog, a) \subseteq Reduces(prog, b)
    BY <1>1 DEF Reduces
  <2>3. b \in Reduces(prog, b) /\ b \notin Reduces(prog, a)
    BY <1>1 DEF Reduces, Reductions
  <2> QED BY <2>1, <2>2, <2>3, FS_Subset DEF Number
<1> QED BY <1>1

\* The next reduction is sent.
LEMMA PipeSend ==
  ASSUME NEW prog, DOMAIN prog \subseteq Nat, NEW S, NEW c \in Seq(S), NEW t \in Nat, NEW V, NEW v \in S,
         NEW n \in Nat, n + 1 \in Reductions(prog), Pipe(prog, c, t, Number(prog, n), V), v = V[n + 1]
  PROVE  Pipe(prog, Append(c, v), t, Number(prog, n + 1), V)
<1>0. Append(c, v) \in Seq(S)
  OBVIOUS
<1>d. PICK d \in Seq(S) : d = Append(c, v)
  BY <1>0
<1>1. /\ Len(c) \in Nat /\ Len(d) = Len(c) + 1 /\ d[Len(c) + 1] = v
      /\ \A i \in 1..Len(c) : d[i] = c[i]
  BY <1>d
<1>2. Number(prog, n + 1) = Number(prog, n) + 1 /\ Number(prog, n) \in Nat
  BY ReduceCount
<1>3. Len(c) + t = Number(prog, n)
  BY DEF Pipe
<1>4. Len(d) + t = Number(prog, n + 1)
  BY <1>1, <1>2, <1>3
<1>5. ASSUME NEW i \in 1..Len(d), NEW k \in Reductions(prog), Number(prog, k) = t + i
      PROVE  d[i] = V[k]
  <2>1. CASE i \in 1..Len(c)
    BY <1>1, <1>5, <2>1 DEF Pipe
  <2>2. CASE i = Len(c) + 1
    <3>1. Number(prog, k) = Number(prog, n + 1)
      BY <1>1, <1>2, <1>3, <1>5, <2>2
    <3>2. k \in Nat /\ n + 1 \in Nat
      BY DEF Reductions
    <3>3. k = n + 1
      BY <3>1, <3>2, ReduceNumber
    <3> QED BY <1>1, <2>2, <3>3
  <2> QED BY <1>1, <2>1, <2>2
<1> QED BY <1>4, <1>5, <1>d DEF Pipe

\* The oldest message is the one of the call that takes it.
LEMMA PipeTake ==
  ASSUME NEW prog, NEW S, NEW c \in Seq(S), NEW e, NEW V, c # <<>>,
         NEW n \in Nat, n + 1 \in Reductions(prog), Pipe(prog, c, Number(prog, n), e, V)
  PROVE  /\ Tail(c) \in Seq(S) /\ Head(c) = V[n + 1]
         /\ Pipe(prog, Tail(c), Number(prog, n + 1), e, V)
<1>t. PICK t \in Nat : t = Number(prog, n) /\ Number(prog, n + 1) = t + 1
  BY ReduceCount
<1>0. Tail(c) \in Seq(S)
  OBVIOUS
<1>d. PICK d \in Seq(S) : d = Tail(c)
  BY <1>0
<1>1. /\ Len(c) \in Nat \ {0} /\ Len(d) = Len(c) - 1 /\ Head(c) = c[1] /\ 1 \in 1..Len(c)
      /\ \A i \in 1..Len(d) : d[i] = c[i + 1] /\ i + 1 \in 1..Len(c)
  BY <1>d
<1>2. Len(c) + t = e /\ \A i \in 1..Len(c), k \in Reductions(prog) : Number(prog, k) = t + i => c[i] = V[k]
  BY <1>t DEF Pipe
<1>3. Head(c) = V[n + 1]
  BY <1>1, <1>2, <1>t
<1>4. Len(d) + (t + 1) = e
  BY <1>1, <1>2
<1>5. ASSUME NEW i \in 1..Len(d), NEW k \in Reductions(prog), Number(prog, k) = (t + 1) + i
      PROVE  d[i] = V[k]
  <2>1. (t + 1) + i = t + (i + 1) /\ i + 1 \in 1..Len(c) /\ d[i] = c[i + 1]
    BY <1>1
  <2> QED BY <1>2, <1>5, <2>1
<1> QED BY <1>3, <1>4, <1>5, <1>d, <1>t DEF Pipe

\* A step that neither sends nor delivers a message of an allreduce.
LEMMA ReduceQuiet ==
  ASSUME ReduceExact, chan'["allreduce"] = chan["allreduce"], Program' = Program,
         \A m \in Procs : rank'[m] = 0 => rank[m] = 0,
         \A m, q \in Procs : rank[m] = 0 /\ q # m =>
           /\ Number(Program, Gotten(m, q)') = Number(Program, Gotten(m, q))
           /\ Number(Program, Reached(q)') = Number(Program, Reached(q))
           /\ Number(Program, Have(m)') = Number(Program, Have(m))
           /\ Number(Program, Have(q)') = Number(Program, Have(q))
           /\ Assigned(q)' = Assigned(q),
         \A p \in Procs : stage[p] \in {"created", "closed"} => stage'[p] \in {"created", "closed"}
  PROVE  ReduceExact'
<1>1. ASSUME NEW m \in Procs, NEW q \in Procs, rank'[m] = 0, q # m
      PROVE  /\ Pipe(Program', chan'["allreduce"][q][m], Number(Program', Gotten(m, q)'),
                     Number(Program', Reached(q)'), Contribution(Program', Assigned(q)'))
             /\ Pipe(Program', chan'["allreduce"][m][q], Number(Program', Have(q)'),
                     Number(Program', Have(m)'), Reduced(Program'))
  <2>1. rank[m] = 0
    BY <1>1
  <2>2. /\ Pipe(Program, chan["allreduce"][q][m], Number(Program, Gotten(m, q)),
                Number(Program, Reached(q)), Contribution(Program, Assigned(q)))
        /\ Pipe(Program, chan["allreduce"][m][q], Number(Program, Have(q)),
                Number(Program, Have(m)), Reduced(Program))
    BY <1>1, <2>1 DEF ReduceExact
  <2> QED BY <1>1, <2>1, <2>2
<1>2. (\A p \in Procs : stage'[p] \notin {"created", "closed"}) =>
        \A p, q \in Procs : chan'["allreduce"][p][q] = <<>>
  BY DEF ReduceExact
<1> QED BY <1>1, <1>2 DEF ReduceExact

\* A process whose place in the program does not change, or only by the return.
LEMMA PlaceSame ==
  ASSUME NEW p, NEW q, Reached(p)' = Reached(p), Gathers(p, q)' <=> Gathers(p, q), Lacks(p)' <=> Lacks(p),
         Lacks(p) => step'[p] = step[p]
  PROVE  Gotten(p, q)' = Gotten(p, q) /\ Have(p)' = Have(p)
<1>1. Gathers(p, q) => Lacks(p)
  BY DEF Gathers, Lacks
<1> QED BY <1>1 DEF Gotten, Have

LEMMA BuffersSame ==
  ASSUME NEW p \in Procs, GatherOK(p), ResultOK(p), Program' = Program, step'[p] = step[p], phase'[p] = phase[p],
         recvs'[p] = recvs[p], data'[p] = data[p], gathered'[p] = gathered[p], rank'[p] = rank[p],
         phase[p] = "gather" /\ rank[p] = 0 => \A r \in Others(0) : Assigned(ranks[p][r])' = Assigned(ranks[p][r])
  PROVE  GatherOK(p)' /\ ResultOK(p)'
<1>1. Call(p)' = Call(p)
  BY DEF Call
<1>2. GatherOK(p)'
  BY <1>1 DEF GatherOK
<1>3. ResultOK(p)'
  BY <1>1 DEF ResultOK
<1> QED BY <1>2, <1>3

\* The other processes of a step that changes no rank.
LEMMA BuffersOthers ==
  ASSUME BuffersExact, NEW p \in Procs, UNCHANGED <<rank, ranks, reply, Program>>,
         \A x \in Procs \ {p} : /\ step'[x] = step[x] /\ phase'[x] = phase[x] /\ recvs'[x] = recvs[x]
                                /\ data'[x] = data[x] /\ gathered'[x] = gathered[x],
         GatherOK(p)', ResultOK(p)'
  PROVE  BuffersExact'
<1>1. ASSUME NEW x \in Procs, x # p PROVE GatherOK(x)' /\ ResultOK(x)'
  <2>1. GatherOK(x) /\ ResultOK(x)
    BY DEF BuffersExact
  <2>2. \A r \in Others(0) : Assigned(ranks[x][r])' = Assigned(ranks[x][r])
    BY DEF Assigned
  <2> QED BY <1>1, <2>1, <2>2, BuffersSame
<1> QED BY <1>1 DEF BuffersExact

LEMMA ReduceNone ==
  ASSUME CollTypeOK, NEW p \in Procs, step[p] = 0, phase[p] = "out", NEW q
  PROVE  Number(Program, Gotten(p, q)) = 0 /\ Number(Program, Reached(p)) = 0 /\ Number(Program, Have(p)) = 0
<1>1. Reached(p) = 0 /\ Gotten(p, q) = 0 /\ Have(p) = 0
  BY DEF Reached, Gotten, Gathers, Have, Lacks
<1>2. Reduces(Program, 0) = {}
  BY DEF Reduces
<1> QED BY <1>1, <1>2, FS_EmptySet DEF Number

\* Nothing has been sent.
LEMMA PipeEmpty ==
  ASSUME NEW prog, NEW c, c = <<>>, NEW V
  PROVE  Pipe(prog, c, 0, 0, V)
<1>1. Len(c) = 0
  OBVIOUS
<1> QED BY <1>1 DEF Pipe

LEMMA ReduceValuesSame ==
  ASSUME Program' = Program
  PROVE  ReduceValues' = ReduceValues
BY DEF ReduceValues

LEMMA ReduceTypeSame ==
  ASSUME ReduceTypeOK, Program' = Program, chan'["allreduce"] = chan["allreduce"],
         gathered' = [p \in Procs |-> [r \in Ranks |-> gathered'[p][r]]]
  PROVE  ReduceTypeOK'
<1>1. ReduceValues' = ReduceValues
  BY ReduceValuesSame
<1> QED BY <1>1 DEF ReduceTypeOK

LEMMA CreateReduce ==
  ASSUME ReduceInv, NEW p \in Procs, CreateGroup(p)
  PROVE  ReduceTypeOK' /\ ReduceExact' /\ BuffersExact'
<1>0. GroupInv /\ CollTypeOK /\ CallExact /\ ReduceTypeOK /\ ReduceExact /\ BuffersExact
  BY DEF ReduceInv, BaseInv, IInv
<1>1. /\ CreateStep(p)
      /\ UNCHANGED <<Program, step, phase, recvs, sends, chan, data, gathered, rendezvous>>
  BY DEF CreateGroup, collVars
<1>2. /\ stage[p] \notin {"created", "closed"}
      /\ \A x \in Procs \ {p} : stage'[x] = stage[x] /\ rank'[x] = rank[x] /\ ranks'[x] = ranks[x]
      /\ rank'[p] = 0 => rank[p] = 0 \/ stage[p] = "out"
  BY <1>0, <1>1, CreateFrame
<1>3. phase[p] = "out" /\ step[p] = 0
  BY <1>0, <1>2 DEF CallExact
<1>4. ReduceTypeOK'
  <2>1. gathered' = [x \in Procs |-> [r \in Ranks |-> gathered'[x][r]]]
    BY <1>0, <1>1 DEF ReduceTypeOK
  <2> QED BY <1>0, <1>1, <2>1, ReduceTypeSame
<1>5. CASE \A x \in Procs : stage[x] \notin {"created", "closed"}
  <2>1. \A x \in Procs : step'[x] = 0 /\ phase'[x] = "out"
    BY <1>0, <1>1, <1>5 DEF CallExact
  <2>2. CollTypeOK'
    BY <1>0, <1>1 DEF CollTypeOK
  <2>3. \A x, y \in Procs : /\ Number(Program', Gotten(x, y)') = 0 /\ Number(Program', Reached(x)') = 0
                            /\ Number(Program', Have(x)') = 0
    <3>1. ASSUME NEW x \in Procs, NEW y \in Procs
          PROVE  /\ Number(Program, Gotten(x, y)) = 0 /\ Number(Program, Reached(x)) = 0
                 /\ Number(Program, Have(x)) = 0
      BY <1>0, <1>1, <2>1, ReduceNone
    <3>2. \A x, y \in Procs : Gotten(x, y)' = Gotten(x, y) /\ Reached(x)' = Reached(x) /\ Have(x)' = Have(x)
      BY <1>1, <2>1 DEF Gotten, Gathers, Reached, Have, Lacks
    <3> QED BY <1>1, <3>1, <3>2
  <2>4. \A x, y \in Procs : chan'["allreduce"][x][y] = <<>>
    BY <1>0, <1>1, <1>5 DEF ReduceExact
  <2>5. ReduceExact'
    BY <2>3, <2>4, PipeEmpty DEF ReduceExact
  <2>6. BuffersExact'
    BY <2>1 DEF BuffersExact, GatherOK, ResultOK
  <2> QED BY <1>4, <2>5, <2>6
<1>6. CASE ~ \A x \in Procs : stage[x] \notin {"created", "closed"}
  <2>1. /\ Len(workers) = Size - 1
        /\ \A x \in Procs : stage[x] # "out" /\ (reply[x] # None \/ rank[x] = 0)
    BY <1>0, <1>6, FormedAll DEF Meshed
  <2>2. \A x \in Procs : Assigned(x)' = Assigned(x)
    BY <1>0, <1>1, <2>1, CreateKeepsRanks
  <2>3. \A x \in Procs : stage[x] \in {"created", "closed"} => stage'[x] \in {"created", "closed"}
    BY <1>2
  <2>4. \A m \in Procs : rank'[m] = 0 => rank[m] = 0
    BY <1>2, <2>1
  <2>5. \A x, y \in Procs : Gotten(x, y)' = Gotten(x, y) /\ Reached(x)' = Reached(x) /\ Have(x)' = Have(x)
    <3>1. \A x, y \in Procs : Gathers(x, y)' <=> Gathers(x, y)
      BY <1>1, <1>2, <1>3 DEF Gathers
    <3>2. \A x \in Procs : Reached(x)' = Reached(x) /\ (Lacks(x)' <=> Lacks(x))
      BY <1>1 DEF Reached, Lacks, Call
    <3> QED BY <1>1, <3>1, <3>2, PlaceSame
  <2>6. ReduceExact'
    BY <1>0, <1>1, <2>2, <2>3, <2>4, <2>5, ReduceQuiet
  <2>7. ASSUME NEW x \in Procs PROVE GatherOK(x)' /\ ResultOK(x)'
    <3>1. CASE x = p
      BY <1>1, <1>3, <3>1 DEF GatherOK, ResultOK
    <3>2. CASE x # p
      <4>1. GatherOK(x) /\ ResultOK(x)
        BY <1>0 DEF BuffersExact
      <4>2. ASSUME phase[x] = "gather", rank[x] = 0, NEW r \in Others(0)
            PROVE  Assigned(ranks[x][r])' = Assigned(ranks[x][r])
        <5>1. stage[x] = "created"
          BY <1>0, <4>2 DEF CallExact
        <5>2. PICK y \in Procs : y = ranks[x][r] /\ y = ranks'[x][r]
          BY <1>0, <1>2, <3>2, <4>2, <5>1, BarrierPeers
        <5> QED BY <2>2, <5>2
      <4> QED BY <1>1, <1>2, <3>2, <4>1, <4>2, BuffersSame
    <3> QED BY <3>1, <3>2
  <2>8. BuffersExact'
    BY <2>7 DEF BuffersExact
  <2> QED BY <1>4, <2>6, <2>8
<1> QED BY <1>5, <1>6

LEMMA CloseReduce ==
  ASSUME ReduceInv, NEW p \in Procs, CloseGroup(p)
  PROVE  ReduceTypeOK' /\ ReduceExact' /\ BuffersExact'
<1>0. TypeOK /\ CallExact /\ ReduceTypeOK /\ ReduceExact /\ BuffersExact
  BY DEF ReduceInv, BaseInv, IInv, GroupInv
<1>1. /\ phase[p] = "out" /\ stage[p] = "created" /\ stage' = [stage EXCEPT ![p] = "closed"]
      /\ ranks' = [ranks EXCEPT ![p] = NoPeers]
      /\ UNCHANGED <<rank, reply, Program, step, phase, recvs, sends, chan, data, gathered, rendezvous>>
  BY DEF CloseGroup, GroupClose, Enters, collVars
<1>2. stage'[p] = "closed" /\ \A x \in Procs \ {p} : stage'[x] = stage[x] /\ ranks'[x] = ranks[x]
  BY <1>0, <1>1 DEF TypeOK
<1>3. ReduceTypeOK'
  <2>1. gathered' = [x \in Procs |-> [r \in Ranks |-> gathered'[x][r]]]
    BY <1>0, <1>1 DEF ReduceTypeOK
  <2> QED BY <1>0, <1>1, <2>1, ReduceTypeSame
<1>4. \A x, y \in Procs : Gotten(x, y)' = Gotten(x, y) /\ Reached(x)' = Reached(x) /\ Have(x)' = Have(x)
  <2>1. \A x, y \in Procs : Gathers(x, y)' <=> Gathers(x, y)
    BY <1>1, <1>2 DEF Gathers
  <2>2. \A x \in Procs : Reached(x)' = Reached(x) /\ (Lacks(x)' <=> Lacks(x))
    BY <1>1 DEF Reached, Lacks, Call
  <2> QED BY <1>1, <2>1, <2>2, PlaceSame
<1>5. \A x \in Procs : stage[x] \in {"created", "closed"} => stage'[x] \in {"created", "closed"}
  BY <1>2
<1>6. \A x \in Procs : Assigned(x)' = Assigned(x)
  BY <1>1 DEF Assigned
<1>7. ReduceExact'
  BY <1>0, <1>1, <1>4, <1>5, <1>6, ReduceQuiet
<1>8. ASSUME NEW x \in Procs PROVE GatherOK(x)' /\ ResultOK(x)'
  <2>1. GatherOK(x) /\ ResultOK(x)
    BY <1>0 DEF BuffersExact
  <2>2. phase[x] = "gather" => \A r \in Others(0) : Assigned(ranks[x][r])' = Assigned(ranks[x][r])
    BY <1>1, <1>2 DEF Assigned
  <2> QED BY <1>1, <2>1, <2>2, BuffersSame
<1> QED BY <1>3, <1>7, <1>8 DEF BuffersExact

LEMMA FinishReduce ==
  ASSUME ReduceInv, NEW p \in Procs, Finish(p)
  PROVE  ReduceTypeOK' /\ ReduceExact' /\ BuffersExact'
<1>0. CollTypeOK /\ CallExact /\ ReduceTypeOK /\ ReduceExact /\ BuffersExact
  BY DEF ReduceInv, BaseInv, IInv
<1>1. /\ phase[p] = "last" /\ recvs[p] = {}
      /\ step' = [step EXCEPT ![p] = step[p] + 1] /\ phase' = [phase EXCEPT ![p] = "out"]
      /\ UNCHANGED <<stage, rank, ranks, reply, Program, recvs, chan, data, gathered>>
  BY DEF Finish, groupVars
<1>2. /\ step'[p] = step[p] + 1 /\ phase'[p] = "out" /\ step[p] \in Nat
      /\ \A x \in Procs \ {p} : step'[x] = step[x] /\ phase'[x] = phase[x]
  BY <1>0, <1>1 DEF CollTypeOK
<1>3. ReduceTypeOK'
  <2>1. gathered' = [x \in Procs |-> [r \in Ranks |-> gathered'[x][r]]]
    BY <1>0, <1>1 DEF ReduceTypeOK
  <2> QED BY <1>0, <1>1, <2>1, ReduceTypeSame
<1>4. ASSUME NEW x \in Procs, NEW y \in Procs
      PROVE  Gotten(x, y)' = Gotten(x, y) /\ Reached(x)' = Reached(x) /\ Have(x)' = Have(x)
  <2>1. /\ Reached(x)' = Reached(x) /\ (Gathers(x, y)' <=> Gathers(x, y)) /\ (Lacks(x)' <=> Lacks(x))
        /\ (Lacks(x) => step'[x] = step[x])
    BY <1>1, <1>2 DEF Reached, Gathers, Lacks, Call
  <2> QED BY <2>1, PlaceSame
<1>5. \A x \in Procs : Assigned(x)' = Assigned(x)
  BY <1>1 DEF Assigned
<1>6. ReduceExact'
  BY <1>0, <1>1, <1>4, <1>5, ReduceQuiet
<1>7. GatherOK(p)' /\ ResultOK(p)'
  <2>1. ResultOK(p)
    BY <1>0 DEF BuffersExact
  <2>2. Program[step[p] + 1].kind = "allreduce" => data[p] = Reduced(Program)[step[p] + 1]
    BY <1>1, <2>1 DEF ResultOK, Call
  <2>3. Reduced(Program)' = Reduced(Program)
    BY <1>1 DEF Reduced
  <2> QED BY <1>1, <1>2, <2>2, <2>3 DEF GatherOK, ResultOK
<1>8. BuffersExact'
  BY <1>0, <1>1, <1>2, <1>7, BuffersOthers
<1> QED BY <1>3, <1>6, <1>8

\* Messages of other collectives leave those of allreduce alone.
LEMMA SendNotReduce ==
  ASSUME CollTypeOK, NEW p \in Procs, NEW S, NEW v, SendTo(p, S, v),
         Call(p).kind \in Kinds, Call(p).kind # "allreduce"
  PROVE  chan'["allreduce"] = chan["allreduce"]
BY DEF CollTypeOK, SendTo, Kinds

\* The buffers as a process enters a call.
LEMMA StartBuffers ==
  ASSUME ReduceInv, NEW p \in Procs, Start(p)
  PROVE  /\ data'[p] = Argument(p) /\ \A x \in Procs \ {p} : data'[x] = data[x] /\ gathered'[x] = gathered[x]
         /\ gathered' = [x \in Procs |-> [r \in Ranks |-> gathered'[x][r]]]
         /\ UNCHANGED reply
<1>0. DataOK /\ ReduceTypeOK
  BY DEF ReduceInv, BaseInv
<1>1. data' = [data EXCEPT ![p] = Argument(p)] /\ gathered' = [gathered EXCEPT ![p] = [r \in Ranks |-> 0]]
  BY DEF Start, Barrier, Broadcast, AllreduceGather, Enter
<1>2. data'[p] = Argument(p) /\ \A x \in Procs \ {p} : data'[x] = data[x]
  BY <1>0, <1>1 DEF DataOK
<1>3. PICK g : g = gathered /\ g = [x \in Procs |-> [r \in Ranks |-> g[x][r]]]
  BY <1>0 DEF ReduceTypeOK
<1>4. \A x \in Procs \ {p} : gathered'[x] = gathered[x]
  BY <1>1, <1>3
<1>5. gathered' = [x \in Procs |-> [r \in Ranks |-> gathered'[x][r]]]
  BY <1>1, <1>3
<1> QED BY <1>2, <1>4, <1>5 DEF Start, groupVars

LEMMA StartOtherReduce ==
  ASSUME ReduceInv, NEW p \in Procs, Start(p), Call(p).kind # "allreduce"
  PROVE  ReduceTypeOK' /\ ReduceExact' /\ BuffersExact'
<1>0. IInv /\ CollTypeOK /\ CallExact /\ ReduceTypeOK /\ ReduceExact /\ BuffersExact
  BY DEF ReduceInv, BaseInv, IInv
<1>1. /\ stage[p] = "created" /\ phase[p] = "out" /\ Call(p).kind \in Kinds
      /\ UNCHANGED <<stage, rank, ranks, Program, step>>
      /\ \A x \in Procs \ {p} : phase'[x] = phase[x] /\ recvs'[x] = recvs[x]
      /\ Reached(p) = step[p] /\ Reached(p)' = step[p] + 1
  BY <1>0, StartFacts
<1>2. /\ \A x \in Procs \ {p} : data'[x] = data[x] /\ gathered'[x] = gathered[x]
      /\ gathered' = [x \in Procs |-> [r \in Ranks |-> gathered'[x][r]]]
      /\ UNCHANGED reply
  BY StartBuffers
<1>3. PICK S, v : SendTo(p, S, v)
  BY DEF Start, Barrier, Broadcast, AllreduceGather
<1>4. chan'["allreduce"] = chan["allreduce"]
  BY <1>0, <1>1, <1>3, SendNotReduce
<1>5. phase'[p] = "last"
  BY <1>0 DEF Start, Barrier, Broadcast, AllreduceGather, Enter, CollTypeOK
<1>6. ReduceTypeOK'
  BY <1>0, <1>1, <1>2, <1>4, ReduceTypeSame
<1>7. \A x \in Procs, y \in Procs : x # p => Gotten(x, y)' = Gotten(x, y) /\ Reached(x)' = Reached(x) /\ Have(x)' = Have(x)
  BY <1>1 DEF Gotten, Gathers, Reached, Have, Lacks, Call
<1>8. \A y \in Procs : /\ Number(Program, Gotten(p, y)') = Number(Program, Gotten(p, y))
                       /\ Number(Program, Reached(p)') = Number(Program, Reached(p))
                       /\ Number(Program, Have(p)') = Number(Program, Have(p))
  <2>1. ASSUME NEW y \in Procs
        PROVE  /\ Gotten(p, y) = step[p] /\ Gotten(p, y)' = step[p] + 1
               /\ Have(p) = step[p] /\ Have(p)' = step[p] + 1
    BY <1>1, <1>5 DEF Gotten, Gathers, Have, Lacks, Call
  <2>2. step[p] \in Nat /\ step[p] + 1 \notin Reductions(Program)
    BY <1>0, CallFacts DEF Call, Reductions
  <2>3. Number(Program, step[p] + 1) = Number(Program, step[p])
    BY <2>2, ReduceCount
  <2> QED BY <1>1, <2>1, <2>3
<1>9. \A x \in Procs : Assigned(x)' = Assigned(x)
  BY <1>1, <1>2 DEF Assigned
<1>10. \A x, y \in Procs : /\ Number(Program, Gotten(x, y)') = Number(Program, Gotten(x, y))
                           /\ Number(Program, Reached(x)') = Number(Program, Reached(x))
                           /\ Number(Program, Have(x)') = Number(Program, Have(x))
  BY <1>7, <1>8
<1>11. ReduceExact'
  BY <1>0, <1>1, <1>4, <1>9, <1>10, ReduceQuiet
<1>12. GatherOK(p)' /\ ResultOK(p)'
  BY <1>1, <1>5 DEF GatherOK, ResultOK, Call
<1>13. BuffersExact'
  BY <1>0, <1>1, <1>2, <1>12, BuffersOthers
<1> QED BY <1>6, <1>11, <1>13

\* Entering an allreduce.
LEMMA StartReduceFacts ==
  ASSUME ReduceInv, NEW p \in Procs, Start(p), Call(p).kind = "allreduce"
  PROVE  /\ stage[p] = "created" /\ phase[p] = "out" /\ step[p] \in Nat /\ step[p] + 1 \in Reductions(Program)
         /\ rank[p] \in Ranks /\ Assigned(p) = rank[p]
         /\ UNCHANGED <<stage, rank, ranks, Program, step, reply>>
         /\ phase'[p] = "gather" /\ \A x \in Procs \ {p} : phase'[x] = phase[x] /\ recvs'[x] = recvs[x]
         /\ recvs'[p] = (IF rank[p] = 0 THEN Others(0) ELSE {})
         /\ IF rank[p] = 0 THEN SendTo(p, {}, 0) ELSE SendTo(p, {0}, Argument(p))
         /\ Argument(p) = Input[step[p] + 1][rank[p]] /\ Argument(p) \in ReduceValues
         /\ Reached(p) = step[p] /\ Reached(p)' = step[p] + 1
         /\ Have(p) = step[p] /\ Have(p)' = step[p]
         /\ \A y \in Procs : Gotten(p, y) = step[p]
         /\ \A x \in Procs \ {p} : /\ Reached(x)' = Reached(x) /\ Have(x)' = Have(x)
                                   /\ \A y \in Procs : Gotten(x, y)' = Gotten(x, y)
<1>0. IInv /\ GroupInv /\ TypeOK /\ RankExact /\ CollTypeOK /\ CallExact
  BY DEF ReduceInv, BaseInv, IInv, GroupInv
<1>1. /\ stage[p] = "created" /\ phase[p] = "out" /\ step[p] + 1 \in DOMAIN Program
      /\ UNCHANGED <<stage, rank, ranks, Program, step>>
      /\ \A x \in Procs \ {p} : phase'[x] = phase[x] /\ recvs'[x] = recvs[x]
      /\ Reached(p) = step[p] /\ Reached(p)' = step[p] + 1
  BY <1>0, StartFacts
<1>2. UNCHANGED reply
  BY DEF Start, groupVars
<1>3. AllreduceGather(p)
  BY DEF Start, Barrier, Broadcast
<1>4. /\ recvs' = [recvs EXCEPT ![p] = IF rank[p] = 0 THEN Others(0) ELSE {}]
      /\ IF rank[p] = 0 THEN SendTo(p, {}, 0) ELSE SendTo(p, {0}, Argument(p))
      /\ phase' = [phase EXCEPT ![p] = "gather"]
  BY <1>3 DEF AllreduceGather, RecvFrom, Enter
<1>5. step[p] + 1 \in DOMAIN Input /\ step[p] \in Nat /\ step[p] + 1 \in Reductions(Program)
  BY <1>0, <1>1, CollectivesAssumption DEF Call, CollTypeOK, Reductions
<1>6. rank[p] \in Ranks /\ Assigned(p) = rank[p]
  BY <1>0, <1>1, AssignedFacts DEF Meshed
<1>7. Argument(p) = Input[step[p] + 1][rank[p]] /\ Argument(p) \in ReduceValues
  BY <1>5, <1>6 DEF Argument, ReduceValues
<1>8. recvs'[p] = (IF rank[p] = 0 THEN Others(0) ELSE {}) /\ phase'[p] = "gather"
  BY <1>0, <1>4 DEF CollTypeOK
<1>9. /\ Have(p) = step[p] /\ Have(p)' = step[p] /\ \A y \in Procs : Gotten(p, y) = step[p]
  BY <1>1, <1>8 DEF Have, Lacks, Gotten, Gathers
<1>10. \A x \in Procs \ {p} : /\ Reached(x)' = Reached(x) /\ Have(x)' = Have(x)
                              /\ \A y \in Procs : Gotten(x, y)' = Gotten(x, y)
  BY <1>1 DEF Reached, Have, Lacks, Gotten, Gathers, Call
<1> QED BY <1>1, <1>2, <1>4, <1>5, <1>6, <1>7, <1>8, <1>9, <1>10

\* A message of an allreduce to the peers of p.
LEMMA SendReduce ==
  ASSUME CollTypeOK, ReduceTypeOK, Program' = Program, NEW p \in Procs, NEW S, NEW v, SendTo(p, S, v),
         Peers(p, S) # {} => v \in ReduceValues, Call(p).kind = "allreduce"
  PROVE  /\ chan'["allreduce"] \in [Procs -> [Procs -> Seq(ReduceValues')]]
         /\ \A x \in Procs \ {p} : chan'["allreduce"][x] = chan["allreduce"][x]
         /\ \A y \in Procs : chan'["allreduce"][p][y] =
              IF y \in Peers(p, S) THEN Append(chan["allreduce"][p][y], v) ELSE chan["allreduce"][p][y]
<1>v. PICK T : T = ReduceValues /\ T = ReduceValues'
  BY ReduceValuesSame
<1>1. PICK b \in [Procs -> [Procs -> Seq(T)]] : b = chan["allreduce"]
  BY <1>v DEF ReduceTypeOK
<1>2. chan'["allreduce"] = [b EXCEPT ![p] =
         [q \in Procs |-> IF q \in Peers(p, S) THEN Append(b[p][q], v) ELSE b[p][q]]]
  BY <1>1 DEF SendTo, CollTypeOK, Kinds
<1>3. \A q \in Procs : b[p][q] \in Seq(T) /\ (q \in Peers(p, S) => Append(b[p][q], v) \in Seq(T))
  BY <1>v
<1>4. [q \in Procs |-> IF q \in Peers(p, S) THEN Append(b[p][q], v) ELSE b[p][q]] \in [Procs -> Seq(T)]
  BY <1>3
<1>5. chan'["allreduce"] \in [Procs -> [Procs -> Seq(T)]]
  BY <1>2, <1>4
<1>6. /\ \A x \in Procs \ {p} : chan'["allreduce"][x] = b[x]
      /\ \A y \in Procs : chan'["allreduce"][p][y] =
           IF y \in Peers(p, S) THEN Append(b[p][y], v) ELSE b[p][y]
  BY <1>2
<1> QED BY <1>1, <1>5, <1>6, <1>v

\* Rank 0 enters and waits for everyone.
LEMMA StartRootReduce ==
  ASSUME ReduceInv, NEW p \in Procs, Start(p), Call(p).kind = "allreduce", rank[p] = 0
  PROVE  ReduceTypeOK' /\ ReduceExact' /\ BuffersExact'
<1>0. GroupInv /\ CollTypeOK /\ ReduceTypeOK /\ ReduceExact /\ BuffersExact
  BY DEF ReduceInv, BaseInv, IInv
<1>1. /\ stage[p] = "created" /\ phase[p] = "out" /\ step[p] \in Nat
      /\ UNCHANGED <<stage, rank, ranks, Program, step, reply>>
      /\ phase'[p] = "gather" /\ \A x \in Procs \ {p} : phase'[x] = phase[x] /\ recvs'[x] = recvs[x]
      /\ recvs'[p] = Others(0) /\ SendTo(p, {}, 0)
      /\ Argument(p) = Input[step[p] + 1][rank[p]]
      /\ Have(p) = step[p] /\ Have(p)' = step[p]
      /\ \A y \in Procs : Gotten(p, y) = step[p]
      /\ \A x \in Procs \ {p} : /\ Reached(x)' = Reached(x) /\ Have(x)' = Have(x)
                                /\ \A y \in Procs : Gotten(x, y)' = Gotten(x, y)
  BY StartReduceFacts
<1>2. /\ data'[p] = Argument(p) /\ \A x \in Procs \ {p} : data'[x] = data[x] /\ gathered'[x] = gathered[x]
      /\ gathered' = [x \in Procs |-> [r \in Ranks |-> gathered'[x][r]]]
  BY StartBuffers
<1>3. chan'["allreduce"] = chan["allreduce"]
  <2>v. PICK T : T = ReduceValues /\ T = ReduceValues'
    BY <1>1, ReduceValuesSame
  <2>1. Peers(p, {}) = {}
    BY DEF Peers
  <2>2. /\ chan'["allreduce"] \in [Procs -> [Procs -> Seq(T)]]
        /\ \A x \in Procs \ {p} : chan'["allreduce"][x] = chan["allreduce"][x]
        /\ \A y \in Procs : chan'["allreduce"][p][y] =
             IF y \in Peers(p, {}) THEN Append(chan["allreduce"][p][y], 0) ELSE chan["allreduce"][p][y]
    BY <1>0, <1>1, <2>1, <2>v, SendReduce
  <2>5. PICK c \in [Procs -> [Procs -> Seq(T)]] : c = chan["allreduce"]
    BY <1>0, <2>v DEF ReduceTypeOK
  <2>6. PICK d \in [Procs -> [Procs -> Seq(T)]] : d = chan'["allreduce"]
    BY <2>2
  <2>7. d[p] = c[p]
    BY <2>1, <2>2, <2>5, <2>6
  <2>8. \A x \in Procs : d[x] = c[x]
    BY <2>2, <2>5, <2>6, <2>7
  <2>9. d = c
    BY <2>8
  <2> QED BY <2>5, <2>6, <2>9
<1>4. ReduceTypeOK'
  BY <1>0, <1>1, <1>2, <1>3, ReduceTypeSame
<1>5. \A m \in Procs : rank[m] = 0 => m = p
  BY <1>0, <1>1, BarrierPeers
<1>6. \A q \in Procs \ {p} : Gotten(p, q)' = step[p]
  <2>1. ASSUME NEW q \in Procs \ {p} PROVE Gotten(p, q)' = step[p]
    <3>1. PICK r \in Others(0) : ranks[p][r] = q
      BY <1>0, <1>1, BarrierPeers
    <3>2. Gathers(p, q)'
      BY <1>1, <3>1 DEF Gathers
    <3> QED BY <1>1, <3>2 DEF Gotten
  <2> QED BY <2>1
<1>7. \A x \in Procs : Assigned(x)' = Assigned(x)
  BY <1>1 DEF Assigned
<1>8. ReduceExact'
  <2>1. ASSUME NEW m \in Procs, NEW q \in Procs, rank[m] = 0, q # m
        PROVE  /\ Gotten(m, q)' = Gotten(m, q) /\ Reached(q)' = Reached(q)
               /\ Have(m)' = Have(m) /\ Have(q)' = Have(q)
    <3>1. m = p
      BY <1>5, <2>1
    <3>2. q # p
      BY <2>1, <3>1
    <3>3. Gotten(p, q)' = step[p] /\ Gotten(p, q) = step[p]
      BY <1>1, <1>6, <3>2
    <3> QED BY <1>1, <3>1, <3>2, <3>3
  <2> QED BY <1>0, <1>1, <1>3, <1>7, <2>1, ReduceQuiet
<1>9. GatherOK(p)' /\ ResultOK(p)'
  <2>1. Call(p)' = Call(p)
    BY <1>1 DEF Call
  <2> QED BY <1>1, <1>2, <2>1 DEF GatherOK, ResultOK
<1>10. BuffersExact'
  BY <1>0, <1>1, <1>2, <1>9, BuffersOthers
<1> QED BY <1>4, <1>8, <1>10

\* Another rank enters and sends its contribution to rank 0.
LEMMA StartMemberReduce ==
  ASSUME ReduceInv, NEW p \in Procs, Start(p), Call(p).kind = "allreduce", rank[p] # 0
  PROVE  ReduceTypeOK' /\ ReduceExact' /\ BuffersExact'
<1>0. GroupInv /\ CollTypeOK /\ CallExact /\ ReduceTypeOK /\ ReduceExact /\ BuffersExact
  BY DEF ReduceInv, BaseInv, IInv
<1>1. /\ stage[p] = "created" /\ phase[p] = "out" /\ step[p] \in Nat /\ step[p] + 1 \in Reductions(Program)
      /\ Assigned(p) = rank[p]
      /\ UNCHANGED <<stage, rank, ranks, Program, step, reply>>
      /\ phase'[p] = "gather" /\ \A x \in Procs \ {p} : phase'[x] = phase[x] /\ recvs'[x] = recvs[x]
      /\ recvs'[p] = {} /\ SendTo(p, {0}, Argument(p))
      /\ Argument(p) = Input[step[p] + 1][rank[p]] /\ Argument(p) \in ReduceValues
      /\ Reached(p) = step[p] /\ Reached(p)' = step[p] + 1
      /\ Have(p) = step[p] /\ Have(p)' = step[p]
      /\ \A x \in Procs \ {p} : /\ Reached(x)' = Reached(x) /\ Have(x)' = Have(x)
                                /\ \A y \in Procs : Gotten(x, y)' = Gotten(x, y)
  BY StartReduceFacts
<1>2. /\ data'[p] = Argument(p) /\ \A x \in Procs \ {p} : data'[x] = data[x] /\ gathered'[x] = gathered[x]
      /\ gathered' = [x \in Procs |-> [r \in Ranks |-> gathered'[x][r]]]
  BY StartBuffers
<1>v. PICK T : T = ReduceValues /\ T = ReduceValues'
  BY <1>1, ReduceValuesSame
<1>3. /\ chan'["allreduce"] \in [Procs -> [Procs -> Seq(T)]]
      /\ \A x \in Procs \ {p} : chan'["allreduce"][x] = chan["allreduce"][x]
      /\ \A y \in Procs : chan'["allreduce"][p][y] =
           IF y \in Peers(p, {0}) THEN Append(chan["allreduce"][p][y], Argument(p)) ELSE chan["allreduce"][p][y]
  BY <1>0, <1>1, <1>v, SendReduce
<1>4. ReduceTypeOK'
  BY <1>2, <1>3, <1>v DEF ReduceTypeOK
<1>5. Peers(p, {0}) = {ranks[p][0]} /\ \A m \in Procs : rank[m] = 0 => ranks[p][0] = m
  BY <1>0, <1>1, BarrierPeers DEF Peers
<1>6. \A x \in Procs : Assigned(x)' = Assigned(x)
  BY <1>1 DEF Assigned
<1>7. ASSUME NEW m \in Procs, NEW q \in Procs, rank'[m] = 0, q # m
      PROVE  /\ Pipe(Program', chan'["allreduce"][q][m], Number(Program', Gotten(m, q)'),
                     Number(Program', Reached(q)'), Contribution(Program', Assigned(q)'))
             /\ Pipe(Program', chan'["allreduce"][m][q], Number(Program', Have(q)'),
                     Number(Program', Have(m)'), Reduced(Program'))
  <2>1. rank[m] = 0 /\ m # p
    BY <1>1, <1>7
  <2>2. /\ Pipe(Program, chan["allreduce"][q][m], Number(Program, Gotten(m, q)),
                Number(Program, Reached(q)), Contribution(Program, Assigned(q)))
        /\ Pipe(Program, chan["allreduce"][m][q], Number(Program, Have(q)),
                Number(Program, Have(m)), Reduced(Program))
    BY <1>0, <1>7, <2>1 DEF ReduceExact
  <2>3. Gotten(m, q)' = Gotten(m, q) /\ Have(m)' = Have(m) /\ Have(q)' = Have(q)
    BY <1>1, <2>1
  <2>4. chan'["allreduce"][m][q] = chan["allreduce"][m][q]
    BY <1>3, <2>1
  <2>5. Pipe(Program', chan'["allreduce"][m][q], Number(Program', Have(q)'), Number(Program', Have(m)'), Reduced(Program'))
    BY <1>1, <2>2, <2>3, <2>4
  <2>6. CASE q # p
    <3>1. chan'["allreduce"][q][m] = chan["allreduce"][q][m] /\ Reached(q)' = Reached(q)
      BY <1>1, <1>3, <2>6
    <3> QED BY <1>1, <1>6, <2>2, <2>3, <2>5, <3>1
  <2>7. CASE q = p
    <3>c. PICK c \in Seq(T) : c = chan["allreduce"][p][m]
      BY <1>0, <1>v DEF ReduceTypeOK
    <3>1. chan'["allreduce"][p][m] = Append(c, Argument(p))
      BY <1>3, <1>5, <2>1, <3>c
    <3>g. PICK t \in Nat : t = Number(Program, Gotten(m, p))
      <4>1. Gotten(m, p) \in Nat
        BY <1>0, CallFacts DEF Gotten
      <4> QED BY <4>1, ReduceCount
    <3>V. PICK V : V = Contribution(Program, Assigned(p))
      OBVIOUS
    <3>2. Pipe(Program, c, t, Number(Program, step[p]), V)
      BY <1>1, <2>2, <2>7, <3>c, <3>g, <3>V
    <3>3. Argument(p) = V[step[p] + 1]
      BY <1>1, <3>V DEF Contribution
    <3>4. DOMAIN Program \subseteq Nat
      BY <1>0, CallFacts
    <3>5. Pipe(Program, Append(c, Argument(p)), t, Number(Program, step[p] + 1), V)
      BY <1>1, <1>v, <3>2, <3>3, <3>4, PipeSend
    <3> QED BY <1>1, <1>6, <2>3, <2>5, <2>7, <3>1, <3>5, <3>g, <3>V
  <2> QED BY <2>6, <2>7
<1>8. (\A x \in Procs : stage'[x] \notin {"created", "closed"}) =>
        \A x, y \in Procs : chan'["allreduce"][x][y] = <<>>
  BY <1>1
<1>9. ReduceExact'
  BY <1>7, <1>8 DEF ReduceExact
<1>10. GatherOK(p)' /\ ResultOK(p)'
  <2>1. Call(p)' = Call(p)
    BY <1>1 DEF Call
  <2> QED BY <1>1, <1>2, <2>1 DEF GatherOK, ResultOK
<1>11. BuffersExact'
  BY <1>0, <1>1, <1>2, <1>10, BuffersOthers
<1> QED BY <1>4, <1>9, <1>11

\* What rank 0 computes from the gathered contributions.
LEMMA RootResult ==
  ASSUME OperateIsReduction, ReduceInv, NEW p \in Procs, phase[p] = "gather", rank[p] = 0, recvs[p] = {}
  PROVE  Operate(Call(p).op, data[p], [i \in 1..(Size - 1) |-> gathered[p][i]]) = Reduced(Program)[step[p] + 1]
<1>0. GroupInv /\ CollTypeOK /\ CallExact /\ BuffersExact
  BY DEF ReduceInv, BaseInv, IInv
<1>k. PICK k : k = step[p] + 1
  OBVIOUS
<1>b. PICK b \in Nat : b = Size - 1
  BY GroupAssumption
<1>1. stage[p] = "created" /\ k \in DOMAIN Program /\ Program \in Programs
  BY <1>0, <1>k, CallFacts DEF CallExact, CollTypeOK
<1>2. /\ Program[k].kind = "allreduce" /\ data[p] = Input[k][0]
      /\ \A r \in Others(0) : gathered[p][r] = Input[k][Assigned(ranks[p][r])]
  BY <1>0, <1>k DEF BuffersExact, GatherOK, Call
<1>3. Others(0) = 1..b
  BY <1>b, GroupAssumption DEF Others, Ranks
<1>f. PICK f : f = [i \in 1..b |-> Assigned(ranks[p][i])]
  OBVIOUS
<1>4. \A i \in 1..b : f[i] \in 1..b
  <2>1. {Assigned(ranks[p][j]) : j \in (rank[p] + 1)..(Size - 1)} = (rank[p] + 1)..(Size - 1)
    BY <1>0, <1>1, UpperRanks
  <2>2. (rank[p] + 1)..(Size - 1) = 1..b
    BY <1>b
  <2> QED BY <1>f, <2>1, <2>2
<1>5. \A i, j \in 1..b : f[i] = f[j] => i = j
  <2>1. ASSUME NEW i \in 1..b, NEW j \in 1..b, f[i] = f[j] PROVE i = j
    <3>1. ranks[p][i] \in Procs /\ ranks[p][j] \in Procs
      BY <1>0, <1>1, <1>3, BarrierPeers
    <3>2. Assigned(ranks[p][i]) = Assigned(ranks[p][j]) /\ Assigned(ranks[p][i]) \in Ranks
      <4>1. f[i] \in Ranks
        BY <1>3, <1>4 DEF Others
      <4> QED BY <1>f, <2>1, <4>1
    <3>3. ranks[p][i] = ranks[p][j]
      BY <1>0, <1>1, <3>1, <3>2, OneRank DEF Meshed
    <3> QED BY <1>0, <1>1, <1>3, <3>3, BarrierPeers
  <2> QED BY <2>1
<1>6. f \in AcceptOrders
  BY <1>3, <1>4, <1>5, <1>b, <1>f DEF AcceptOrders
<1>7. [i \in 1..(Size - 1) |-> gathered[p][i]] = [i \in 1..(Size - 1) |-> Input[k][f[i]]]
  BY <1>2, <1>3, <1>b, <1>f
<1>8. Operate(Program[k].op, Input[k][0], [i \in 1..(Size - 1) |-> Input[k][f[i]]]) = Reduction(Program[k].op, Input[k])
  BY <1>1, <1>2, <1>6 DEF OperateIsReduction
<1>9. Reduced(Program)[k] = Reduction(Program[k].op, Input[k])
  BY <1>1, <1>2 DEF Reduced, Reductions
<1> QED BY <1>2, <1>7, <1>8, <1>9, <1>k DEF Call

\* The second half of an allreduce begins.
LEMMA ResultFacts ==
  ASSUME ReduceInv, NEW p \in Procs, AllreduceResult(p)
  PROVE  /\ phase[p] = "gather" /\ recvs[p] = {} /\ stage[p] = "created" /\ Call(p).kind = "allreduce"
         /\ step[p] \in Nat /\ step[p] + 1 \in Reductions(Program)
         /\ UNCHANGED <<stage, rank, ranks, reply, Program, step, gathered>>
         /\ phase'[p] = "last" /\ \A x \in Procs \ {p} : phase'[x] = phase[x]
         /\ \A x \in Procs \ {p} : recvs'[x] = recvs[x] /\ data'[x] = data[x]
         /\ \A x \in Procs : Reached(x)' = Reached(x)
         /\ Reached(p) = step[p] + 1 /\ Have(p) = step[p] /\ \A y \in Procs : Gotten(p, y) = step[p] + 1
         /\ \A x \in Procs \ {p} : Have(x)' = Have(x) /\ \A y \in Procs : Gotten(x, y)' = Gotten(x, y)
         /\ \A y \in Procs : Gotten(p, y)' = step[p] + 1
<1>0. CollTypeOK /\ CallExact /\ DataOK /\ BuffersExact
  BY DEF ReduceInv, BaseInv, IInv
<1>1. /\ phase[p] = "gather" /\ recvs[p] = {} /\ phase' = [phase EXCEPT ![p] = "last"]
      /\ UNCHANGED <<stage, rank, ranks, reply, Program, step, gathered>>
  BY DEF AllreduceResult, groupVars
<1>2. phase'[p] = "last" /\ \A x \in Procs \ {p} : phase'[x] = phase[x]
  BY <1>0, <1>1 DEF CollTypeOK
<1>3. Call(p).kind = "allreduce" /\ stage[p] = "created" /\ step[p] < Len(Program)
  BY <1>0, <1>1 DEF BuffersExact, GatherOK, CallExact
<1>4. step[p] \in Nat /\ step[p] + 1 \in Reductions(Program)
  BY <1>0, <1>3, CallFacts DEF Reductions, Call
<1>5. \A x \in Procs \ {p} : recvs'[x] = recvs[x] /\ data'[x] = data[x]
  <2>1. UNCHANGED recvs \/ recvs' = [recvs EXCEPT ![p] = {0}]
    BY DEF AllreduceResult, RecvFrom
  <2>2. UNCHANGED data \/ \E v : data' = [data EXCEPT ![p] = v]
    BY DEF AllreduceResult
  <2>3. recvs \in [Procs -> SUBSET Ranks] /\ data = [x \in Procs |-> data[x]]
    BY <1>0 DEF CollTypeOK, DataOK
  <2>4. \A x \in Procs \ {p} : recvs'[x] = recvs[x]
    BY <2>1, <2>3
  <2>5. \A x \in Procs \ {p} : data'[x] = data[x]
    BY <2>2, <2>3
  <2> QED BY <2>4, <2>5
<1>6. \A x \in Procs : Reached(x)' = Reached(x)
  BY <1>1, <1>2 DEF Reached
<1>7. /\ Reached(p) = step[p] + 1 /\ Have(p) = step[p] /\ \A y \in Procs : Gotten(p, y) = step[p] + 1
      /\ \A y \in Procs : Gotten(p, y)' = step[p] + 1
  BY <1>1, <1>2 DEF Reached, Have, Lacks, Gotten, Gathers
<1>8. \A x \in Procs \ {p} : Have(x)' = Have(x) /\ \A y \in Procs : Gotten(x, y)' = Gotten(x, y)
  BY <1>1, <1>2, <1>5 DEF Reached, Have, Lacks, Gotten, Gathers, Call
<1> QED BY <1>1, <1>2, <1>3, <1>4, <1>5, <1>6, <1>7, <1>8

\* A member has sent its contribution and posts the receive of the result.
LEMMA ResultMemberReduce ==
  ASSUME ReduceInv, NEW p \in Procs, AllreduceResult(p), rank[p] # 0
  PROVE  ReduceTypeOK' /\ ReduceExact' /\ BuffersExact'
<1>0. CollTypeOK /\ ReduceTypeOK /\ ReduceExact /\ BuffersExact
  BY DEF ReduceInv, BaseInv, IInv
<1>1. /\ Call(p).kind = "allreduce"
      /\ UNCHANGED <<stage, rank, ranks, reply, Program, step, gathered>>
      /\ phase'[p] = "last" /\ \A x \in Procs \ {p} : phase'[x] = phase[x]
      /\ \A x \in Procs \ {p} : recvs'[x] = recvs[x] /\ data'[x] = data[x]
      /\ \A x \in Procs : Reached(x)' = Reached(x)
      /\ Have(p) = step[p] /\ \A y \in Procs : Gotten(p, y) = step[p] + 1
      /\ \A x \in Procs \ {p} : Have(x)' = Have(x) /\ \A y \in Procs : Gotten(x, y)' = Gotten(x, y)
      /\ \A y \in Procs : Gotten(p, y)' = step[p] + 1
  BY ResultFacts
<1>2. UNCHANGED <<data, chan>> /\ recvs' = [recvs EXCEPT ![p] = {0}]
  BY DEF AllreduceResult, RecvFrom
<1>3. recvs'[p] = {0}
  BY <1>0, <1>2 DEF CollTypeOK
<1>4. ReduceTypeOK'
  <2>1. gathered' = [x \in Procs |-> [r \in Ranks |-> gathered'[x][r]]]
    BY <1>0, <1>1 DEF ReduceTypeOK
  <2> QED BY <1>0, <1>1, <1>2, <2>1, ReduceTypeSame
<1>5. Have(p)' = Have(p)
  <2>1. Lacks(p)'
    BY <1>1, <1>3 DEF Lacks, Call
  <2> QED BY <1>1, <2>1 DEF Have
<1>6. \A x, y \in Procs : Gotten(x, y)' = Gotten(x, y) /\ Have(x)' = Have(x)
  BY <1>1, <1>5
<1>7. ReduceExact'
  BY <1>0, <1>1, <1>2, <1>6, ReduceQuiet DEF Assigned
<1>8. GatherOK(p)' /\ ResultOK(p)'
  BY <1>1, <1>3 DEF GatherOK, ResultOK
<1>9. BuffersExact'
  BY <1>0, <1>1, <1>8, BuffersOthers
<1> QED BY <1>4, <1>7, <1>9

\* Rank 0 has all contributions, reduces them and sends everyone the result.
LEMMA ResultRootReduce ==
  ASSUME OperateIsReduction, ReduceInv, NEW p \in Procs, AllreduceResult(p), rank[p] = 0
  PROVE  ReduceTypeOK' /\ ReduceExact' /\ BuffersExact'
<1>0. GroupInv /\ CollTypeOK /\ CallExact /\ DataOK /\ ReduceTypeOK /\ ReduceExact /\ BuffersExact
  BY DEF ReduceInv, BaseInv, IInv
<1>1. /\ phase[p] = "gather" /\ recvs[p] = {} /\ stage[p] = "created" /\ Call(p).kind = "allreduce"
      /\ step[p] \in Nat /\ step[p] + 1 \in Reductions(Program)
      /\ UNCHANGED <<stage, rank, ranks, reply, Program, step, gathered>>
      /\ phase'[p] = "last" /\ \A x \in Procs \ {p} : phase'[x] = phase[x]
      /\ \A x \in Procs \ {p} : recvs'[x] = recvs[x] /\ data'[x] = data[x]
      /\ \A x \in Procs : Reached(x)' = Reached(x)
      /\ Reached(p) = step[p] + 1 /\ Have(p) = step[p] /\ \A y \in Procs : Gotten(p, y) = step[p] + 1
      /\ \A x \in Procs \ {p} : Have(x)' = Have(x) /\ \A y \in Procs : Gotten(x, y)' = Gotten(x, y)
      /\ \A y \in Procs : Gotten(p, y)' = step[p] + 1
  BY ResultFacts
<1>v. PICK v : v = Reduced(Program)[step[p] + 1]
  OBVIOUS
<1>2. data' = [data EXCEPT ![p] = v] /\ SendTo(p, Others(0), v) /\ UNCHANGED recvs
  BY <1>1, <1>v, RootResult DEF AllreduceResult
<1>T. PICK T : T = ReduceValues /\ T = ReduceValues'
  BY <1>1, ReduceValuesSame
<1>3. v \in T
  BY <1>1, <1>T, <1>v DEF ReduceValues
<1>4. /\ chan'["allreduce"] \in [Procs -> [Procs -> Seq(T)]]
      /\ \A x \in Procs \ {p} : chan'["allreduce"][x] = chan["allreduce"][x]
      /\ \A y \in Procs : chan'["allreduce"][p][y] =
           IF y \in Peers(p, Others(0)) THEN Append(chan["allreduce"][p][y], v) ELSE chan["allreduce"][p][y]
  BY <1>0, <1>1, <1>2, <1>3, <1>T, SendReduce
<1>5. ReduceTypeOK'
  BY <1>0, <1>1, <1>4, <1>T DEF ReduceTypeOK
<1>6. data'[p] = v /\ recvs'[p] = {}
  BY <1>0, <1>1, <1>2 DEF DataOK
<1>7. Have(p)' = step[p] + 1
  <2>1. ~Lacks(p)'
    BY <1>1, <1>6 DEF Lacks
  <2> QED BY <1>1, <2>1 DEF Have
<1>8. \A m \in Procs : rank[m] = 0 => m = p
  BY <1>0, <1>1, BarrierPeers
<1>9. ASSUME NEW m \in Procs, NEW q \in Procs, rank'[m] = 0, q # m
      PROVE  /\ Pipe(Program', chan'["allreduce"][q][m], Number(Program', Gotten(m, q)'),
                     Number(Program', Reached(q)'), Contribution(Program', Assigned(q)'))
             /\ Pipe(Program', chan'["allreduce"][m][q], Number(Program', Have(q)'),
                     Number(Program', Have(m)'), Reduced(Program'))
  <2>1. rank[m] = 0 /\ m = p /\ q # p
    BY <1>1, <1>8, <1>9
  <2>2. /\ Pipe(Program, chan["allreduce"][q][p], Number(Program, Gotten(p, q)),
                Number(Program, Reached(q)), Contribution(Program, Assigned(q)))
        /\ Pipe(Program, chan["allreduce"][p][q], Number(Program, Have(q)),
                Number(Program, Have(p)), Reduced(Program))
    BY <1>0, <1>9, <2>1 DEF ReduceExact
  <2>3. /\ Gotten(p, q)' = Gotten(p, q) /\ Have(q)' = Have(q) /\ Reached(q)' = Reached(q)
        /\ chan'["allreduce"][q][p] = chan["allreduce"][q][p] /\ Assigned(q)' = Assigned(q)
    BY <1>1, <1>4, <2>1 DEF Assigned
  <2>4. Pipe(Program', chan'["allreduce"][q][p], Number(Program', Gotten(p, q)'),
             Number(Program', Reached(q)'), Contribution(Program', Assigned(q)'))
    BY <1>1, <2>2, <2>3
  <2>5. q \in Peers(p, Others(0))
    BY <1>0, <1>1, <2>1, AllPeers
  <2>c. PICK c \in Seq(T) : c = chan["allreduce"][p][q]
    BY <1>0, <1>T DEF ReduceTypeOK
  <2>6. chan'["allreduce"][p][q] = Append(c, v)
    BY <1>4, <2>5, <2>c
  <2>t. PICK t \in Nat : t = Number(Program, Have(q))
    <3>1. Have(q) \in Nat
      BY <1>0, CallFacts DEF Have
    <3> QED BY <3>1, ReduceCount
  <2>7. Pipe(Program, c, t, Number(Program, step[p]), Reduced(Program))
    BY <1>1, <2>2, <2>c, <2>t
  <2>8. DOMAIN Program \subseteq Nat
    BY <1>0, CallFacts
  <2>V. PICK V : V = Reduced(Program)
    OBVIOUS
  <2>9. Pipe(Program, Append(c, v), t, Number(Program, step[p] + 1), V)
    BY <1>1, <1>3, <1>v, <2>7, <2>8, <2>V, PipeSend
  <2>10. Pipe(Program', chan'["allreduce"][p][q], Number(Program', Have(q)'),
              Number(Program', Have(p)'), Reduced(Program'))
    BY <1>1, <1>7, <2>3, <2>6, <2>9, <2>t, <2>V
  <2> QED BY <2>1, <2>4, <2>10
<1>10. (\A x \in Procs : stage'[x] \notin {"created", "closed"}) =>
        \A x, y \in Procs : chan'["allreduce"][x][y] = <<>>
  BY <1>1
<1>11. ReduceExact'
  BY <1>9, <1>10 DEF ReduceExact
<1>12. GatherOK(p)' /\ ResultOK(p)'
  <2>1. Reduced(Program)' = Reduced(Program)
    BY <1>1 DEF Reduced
  <2> QED BY <1>1, <1>6, <1>v, <2>1 DEF GatherOK, ResultOK
<1>13. BuffersExact'
  BY <1>0, <1>1, <1>12, BuffersOthers
<1> QED BY <1>5, <1>11, <1>13

\* What a delivery does to the gathered values.
LEMMA DeliverGathered ==
  ASSUME ReduceInv, NEW p \in Procs, NEW r \in Ranks, Deliver(p, r)
  PROVE  /\ gathered' = [x \in Procs |-> [l \in Ranks |-> gathered'[x][l]]]
         /\ \A x \in Procs \ {p} : gathered'[x] = gathered[x]
<1>1. PICK g : g = gathered /\ g = [x \in Procs |-> [l \in Ranks |-> g[x][l]]]
  BY DEF ReduceInv, ReduceTypeOK
<1>2. UNCHANGED gathered \/ \E v : gathered' = [gathered EXCEPT ![p][r] = v]
  BY DEF Deliver
<1>3. CASE UNCHANGED gathered
  BY <1>1, <1>3
<1>4. CASE \E v : gathered' = [gathered EXCEPT ![p][r] = v]
  <2>1. PICK v : gathered' = [g EXCEPT ![p] = [g[p] EXCEPT ![r] = v]]
    BY <1>1, <1>4
  <2>2. \A x \in Procs \ {p} : gathered'[x] = g[x]
    BY <1>1, <2>1
  <2>3. gathered'[p] = [g[p] EXCEPT ![r] = v]
    BY <1>1, <2>1
  <2>4. g[p] = [l \in Ranks |-> g[p][l]]
    BY <1>1
  <2>5. gathered'[p] = [l \in Ranks |-> gathered'[p][l]]
    BY <2>3, <2>4
  <2>6. \A x \in Procs \ {p} : gathered'[x] = [l \in Ranks |-> gathered'[x][l]]
    BY <1>1, <2>2
  <2>7. gathered' = [x \in Procs |-> gathered'[x]]
    BY <1>1, <2>1
  <2>h. PICK h : h = gathered'
    OBVIOUS
  <2>8. \A x \in Procs : h[x] = [l \in Ranks |-> h[x][l]]
    BY <2>5, <2>6, <2>h
  <2>9. h = [x \in Procs |-> [l \in Ranks |-> h[x][l]]]
    BY <2>7, <2>8, <2>h
  <2> QED BY <1>1, <2>2, <2>9, <2>h
<1> QED BY <1>2, <1>3, <1>4

LEMMA DeliverOtherReduce ==
  ASSUME ReduceInv, NEW p \in Procs, NEW r \in Ranks, Deliver(p, r), Call(p).kind # "allreduce"
  PROVE  ReduceTypeOK' /\ ReduceExact' /\ BuffersExact'
<1>0. CollTypeOK /\ BaseInv /\ ReduceTypeOK /\ ReduceExact /\ BuffersExact
  BY DEF ReduceInv, BaseInv, IInv
<1>1. /\ phase[p] # "out" /\ Call(p).kind \in Kinds
      /\ UNCHANGED <<stage, rank, ranks, reply, Program, step, phase>>
      /\ \A x \in Procs \ {p} : recvs'[x] = recvs[x] /\ data'[x] = data[x]
  BY <1>0, DeliverFacts
<1>2. /\ gathered' = [x \in Procs |-> [l \in Ranks |-> gathered'[x][l]]]
      /\ \A x \in Procs \ {p} : gathered'[x] = gathered[x]
  BY DeliverGathered
<1>3. chan'["allreduce"] = chan["allreduce"]
  <2>1. \E s, t : chan' = [chan EXCEPT ![Call(p).kind][s][p] = t]
    BY DEF Deliver
  <2> QED BY <1>0, <1>1, <2>1 DEF CollTypeOK, Kinds
<1>4. ReduceTypeOK'
  BY <1>0, <1>1, <1>2, <1>3, ReduceTypeSame
<1>5. phase[p] # "gather"
  BY <1>0 DEF BuffersExact, GatherOK
<1>6. ASSUME NEW x \in Procs, NEW y \in Procs
      PROVE  Gotten(x, y)' = Gotten(x, y) /\ Reached(x)' = Reached(x) /\ Have(x)' = Have(x)
  <2>1. /\ Reached(x)' = Reached(x) /\ (Gathers(x, y)' <=> Gathers(x, y)) /\ (Lacks(x)' <=> Lacks(x))
        /\ step'[x] = step[x]
    BY <1>1, <1>5 DEF Reached, Gathers, Lacks, Call
  <2> QED BY <2>1, PlaceSame
<1>7. ReduceExact'
  BY <1>0, <1>1, <1>3, <1>6, ReduceQuiet DEF Assigned
<1>8. GatherOK(p)' /\ ResultOK(p)'
  <2>1. Call(p)' = Call(p)
    BY <1>1 DEF Call
  <2> QED BY <1>1, <1>5, <2>1 DEF GatherOK, ResultOK
<1>9. BuffersExact'
  BY <1>0, <1>1, <1>2, <1>8, BuffersOthers
<1> QED BY <1>4, <1>7, <1>9

\* The oldest message from s is taken.
LEMMA TakeReduce ==
  ASSUME CollTypeOK, ReduceTypeOK, Program' = Program, NEW p \in Procs, NEW r \in Ranks, Deliver(p, r),
         Call(p).kind = "allreduce", NEW s \in Procs, s = ranks[p][r]
  PROVE  /\ chan["allreduce"][s][p] # <<>>
         /\ chan'["allreduce"] \in [Procs -> [Procs -> Seq(ReduceValues')]]
         /\ chan'["allreduce"][s][p] = Tail(chan["allreduce"][s][p])
         /\ \A x, y \in Procs : ~(x = s /\ y = p) => chan'["allreduce"][x][y] = chan["allreduce"][x][y]
<1>T. PICK T : T = ReduceValues /\ T = ReduceValues'
  BY ReduceValuesSame
<1>b. PICK b \in [Procs -> [Procs -> Seq(T)]] : b = chan["allreduce"]
  BY <1>T DEF ReduceTypeOK
<1>c. PICK c \in Seq(T) : c = b[s][p]
  OBVIOUS
<1>1. c # <<>> /\ chan' = [chan EXCEPT !["allreduce"][s][p] = Tail(c)]
  BY <1>b, <1>c DEF Deliver
<1>2. Tail(c) \in Seq(T)
  <2>1. c # <<>>
    BY <1>1
  <2> QED BY <2>1
<1>d. PICK d \in Seq(T) : d = Tail(c)
  BY <1>2
<1>3. chan'["allreduce"] = [b EXCEPT ![s] = [b[s] EXCEPT ![p] = d]]
  BY <1>1, <1>b, <1>d DEF CollTypeOK, Kinds
<1>4. [b[s] EXCEPT ![p] = d] \in [Procs -> Seq(T)]
  OBVIOUS
<1>5. /\ chan'["allreduce"] \in [Procs -> [Procs -> Seq(T)]] /\ chan'["allreduce"][s][p] = d
      /\ \A x, y \in Procs : ~(x = s /\ y = p) => chan'["allreduce"][x][y] = b[x][y]
  BY <1>3, <1>4
<1> QED BY <1>1, <1>5, <1>b, <1>c, <1>d, <1>T

\* Rank 0 takes a contribution: it is the one of this call.
LEMMA DeliverGatherReduce ==
  ASSUME ReduceInv, NEW p \in Procs, NEW r \in Ranks, Deliver(p, r), Call(p).kind = "allreduce", phase[p] = "gather"
  PROVE  ReduceTypeOK' /\ ReduceExact' /\ BuffersExact'
<1>0. /\ GroupInv /\ CollTypeOK /\ BaseInv /\ DataOK
      /\ ReduceTypeOK /\ ReduceExact /\ BuffersExact /\ GatherOK(p)
  BY DEF ReduceInv, BaseInv, IInv, BuffersExact
<1>1. /\ r \in recvs[p] /\ stage[p] = "created" /\ step[p] \in Nat /\ step[p] + 1 \in DOMAIN Program
      /\ UNCHANGED <<stage, rank, ranks, reply, Program, step, phase>>
      /\ recvs'[p] = recvs[p] \ {r} /\ \A x \in Procs \ {p} : recvs'[x] = recvs[x] /\ data'[x] = data[x]
  BY <1>0, DeliverFacts
<1>2. rank[p] = 0 /\ recvs[p] \subseteq Others(0) /\ r \in Others(0) /\ step[p] + 1 \in Reductions(Program)
  BY <1>0, <1>1 DEF GatherOK, Reductions, Call
<1>s. PICK s \in Procs \ {p} : s = ranks[p][r]
  BY <1>0, <1>1, <1>2, BarrierPeers
<1>3. /\ gathered' = [x \in Procs |-> [l \in Ranks |-> gathered'[x][l]]]
      /\ \A x \in Procs \ {p} : gathered'[x] = gathered[x]
  BY DeliverGathered
<1>T. PICK T : T = ReduceValues /\ T = ReduceValues'
  BY <1>1, ReduceValuesSame
<1>c. PICK c \in Seq(T) : c = chan["allreduce"][s][p]
  BY <1>0, <1>T DEF ReduceTypeOK
<1>4. /\ c # <<>> /\ chan'["allreduce"] \in [Procs -> [Procs -> Seq(T)]]
      /\ chan'["allreduce"][s][p] = Tail(c)
      /\ \A x, y \in Procs : ~(x = s /\ y = p) => chan'["allreduce"][x][y] = chan["allreduce"][x][y]
  <2>1. s \in Procs /\ s = ranks[p][r] /\ Program' = Program /\ CollTypeOK /\ ReduceTypeOK
    BY <1>0, <1>1, <1>s
  <2>2. /\ chan["allreduce"][s][p] # <<>>
        /\ chan'["allreduce"] \in [Procs -> [Procs -> Seq(ReduceValues')]]
        /\ chan'["allreduce"][s][p] = Tail(chan["allreduce"][s][p])
        /\ \A x, y \in Procs : ~(x = s /\ y = p) => chan'["allreduce"][x][y] = chan["allreduce"][x][y]
    BY <2>1, TakeReduce
  <2> QED BY <1>c, <1>T, <2>2
<1>5. UNCHANGED data /\ gathered' = [gathered EXCEPT ![p][r] = Head(c)]
  BY <1>c, <1>s DEF Deliver
<1>6. gathered'[p][r] = Head(c) /\ \A l \in Ranks \ {r} : gathered'[p][l] = gathered[p][l]
  <2>1. PICK g : g = gathered /\ g = [x \in Procs |-> [l \in Ranks |-> g[x][l]]]
    BY <1>0 DEF ReduceTypeOK
  <2>2. gathered'[p] = [g[p] EXCEPT ![r] = Head(c)] /\ g[p] = [l \in Ranks |-> g[p][l]]
    BY <1>5, <2>1
  <2> QED BY <2>1, <2>2
<1>7. ReduceTypeOK'
  BY <1>3, <1>4, <1>T DEF ReduceTypeOK
<1>8. \A x \in Procs : Reached(x)' = Reached(x) /\ Have(x)' = Have(x)
  BY <1>1 DEF Reached, Have, Lacks, Call
<1>9. \A x, y \in Procs : ~(x = p /\ y = s) => Gotten(x, y)' = Gotten(x, y)
  <2>1. ASSUME NEW x \in Procs, NEW y \in Procs, ~(x = p /\ y = s) PROVE Gathers(x, y)' <=> Gathers(x, y)
    BY <1>1, <1>s, <2>1 DEF Gathers
  <2> QED BY <1>1, <1>8, <2>1 DEF Gotten
<1>10. Gotten(p, s) = step[p] /\ Gotten(p, s)' = step[p] + 1
  <2>1. Gathers(p, s)
    BY <1>1, <1>s DEF Gathers
  <2>2. ~Gathers(p, s)'
    <3>1. \A i \in Others(0) : ranks[p][i] = ranks[p][r] => i = r
      BY <1>0, <1>1, <1>2, BarrierPeers
    <3> QED BY <1>1, <1>2, <1>s, <3>1 DEF Gathers
  <2> QED BY <1>1, <2>1, <2>2 DEF Gotten, Reached
<1>11. \A m \in Procs : rank[m] = 0 => m = p
  BY <1>0, <1>1, <1>2, BarrierPeers
<1>V. PICK V : V = Contribution(Program, Assigned(s))
  OBVIOUS
<1>e. PICK e : e = Number(Program, Reached(s))
  OBVIOUS
<1>12. Pipe(Program, c, Number(Program, step[p]), e, V)
  <2>1. Pipe(Program, chan["allreduce"][s][p], Number(Program, Gotten(p, s)),
             Number(Program, Reached(s)), Contribution(Program, Assigned(s)))
    BY <1>0, <1>2 DEF ReduceExact
  <2> QED BY <1>10, <1>c, <1>e, <1>V, <2>1
<1>13. Head(c) = V[step[p] + 1] /\ Pipe(Program, Tail(c), Number(Program, step[p] + 1), e, V)
  BY <1>1, <1>2, <1>4, <1>12, PipeTake
<1>14. ASSUME NEW m \in Procs, NEW q \in Procs, rank'[m] = 0, q # m
       PROVE  /\ Pipe(Program', chan'["allreduce"][q][m], Number(Program', Gotten(m, q)'),
                      Number(Program', Reached(q)'), Contribution(Program', Assigned(q)'))
              /\ Pipe(Program', chan'["allreduce"][m][q], Number(Program', Have(q)'),
                      Number(Program', Have(m)'), Reduced(Program'))
  <2>1. m = p /\ q # p
    BY <1>1, <1>11, <1>14
  <2>2. /\ Pipe(Program, chan["allreduce"][q][p], Number(Program, Gotten(p, q)),
                Number(Program, Reached(q)), Contribution(Program, Assigned(q)))
        /\ Pipe(Program, chan["allreduce"][p][q], Number(Program, Have(q)),
                Number(Program, Have(p)), Reduced(Program))
    BY <1>0, <1>2, <2>1 DEF ReduceExact
  <2>3. chan'["allreduce"][p][q] = chan["allreduce"][p][q] /\ Assigned(q)' = Assigned(q)
    BY <1>1, <1>4, <1>s, <2>1 DEF Assigned
  <2>4. Pipe(Program', chan'["allreduce"][p][q], Number(Program', Have(q)'),
             Number(Program', Have(p)'), Reduced(Program'))
    BY <1>1, <1>8, <2>2, <2>3
  <2>5. CASE q # s
    <3>1. chan'["allreduce"][q][p] = chan["allreduce"][q][p] /\ Gotten(p, q)' = Gotten(p, q)
      BY <1>4, <1>9, <2>5
    <3> QED BY <1>1, <1>8, <2>1, <2>2, <2>3, <2>4, <3>1
  <2>6. CASE q = s
    BY <1>1, <1>4, <1>8, <1>10, <1>13, <1>e, <1>V, <2>1, <2>3, <2>4, <2>6
  <2> QED BY <2>5, <2>6
<1>15. (\A x \in Procs : stage'[x] \notin {"created", "closed"}) =>
         \A x, y \in Procs : chan'["allreduce"][x][y] = <<>>
  BY <1>1
<1>16. ReduceExact'
  BY <1>14, <1>15 DEF ReduceExact
<1>17. GatherOK(p)' /\ ResultOK(p)'
  <2>1. Call(p)' = Call(p) /\ \A l \in Others(0) : Assigned(ranks[p][l])' = Assigned(ranks[p][l])
    BY <1>1 DEF Call, Assigned
  <2>2. gathered'[p][r] = Input[step[p] + 1][Assigned(ranks[p][r])]
    BY <1>2, <1>6, <1>13, <1>s, <1>V DEF Contribution
  <2>3. \A l \in Others(0) \ recvs[p] : gathered'[p][l] = Input[step[p] + 1][Assigned(ranks[p][l])]
    BY <1>0, <1>1, <1>2, <1>6 DEF GatherOK, Others
  <2>4. \A l \in Others(0) \ recvs'[p] : gathered'[p][l] = Input[step[p] + 1][Assigned(ranks[p][l])]
    BY <1>1, <2>2, <2>3
  <2>5. GatherOK(p)'
    BY <1>0, <1>1, <1>2, <1>5, <2>1, <2>4 DEF GatherOK
  <2> QED BY <1>1, <2>5 DEF ResultOK
<1>18. BuffersExact'
  BY <1>0, <1>1, <1>3, <1>17, BuffersOthers
<1> QED BY <1>7, <1>16, <1>18

\* A member takes the result: it is the one of this call.
LEMMA DeliverResultReduce ==
  ASSUME ReduceInv, NEW p \in Procs, NEW r \in Ranks, Deliver(p, r), Call(p).kind = "allreduce", phase[p] # "gather"
  PROVE  ReduceTypeOK' /\ ReduceExact' /\ BuffersExact'
<1>0. /\ GroupInv /\ TypeOK /\ CollTypeOK /\ BaseInv /\ DataOK
      /\ ReduceTypeOK /\ ReduceExact /\ BuffersExact /\ ResultOK(p)
  BY DEF ReduceInv, BaseInv, IInv, BuffersExact, GroupInv
<1>1. /\ r \in recvs[p] /\ phase[p] # "out" /\ stage[p] = "created" /\ step[p] \in Nat
      /\ step[p] + 1 \in DOMAIN Program
      /\ UNCHANGED <<stage, rank, ranks, reply, Program, step, phase>>
      /\ recvs'[p] = recvs[p] \ {r} /\ \A x \in Procs \ {p} : recvs'[x] = recvs[x] /\ data'[x] = data[x]
  BY <1>0, DeliverFacts
<1>2. phase[p] = "last"
  BY <1>0, <1>1 DEF CollTypeOK
<1>3. rank[p] # 0 /\ r = 0 /\ recvs[p] = {0} /\ recvs'[p] = {} /\ step[p] + 1 \in Reductions(Program)
  BY <1>0, <1>1, <1>2 DEF ResultOK, Reductions, Call
<1>s. PICK s \in Procs : s = ranks[p][r] /\ rank[s] = 0
  <2>1. PICK m \in Procs : rank[m] = 0
    BY <1>0, <1>1, FormedTable DEF Meshed
  <2> QED BY <1>0, <1>1, <1>3, <2>1, BarrierPeers
<1>4. s # p /\ \A m \in Procs : rank[m] = 0 => m = s
  BY <1>0, <1>1, <1>3, <1>s, BarrierPeers
<1>5. /\ gathered' = [x \in Procs |-> [l \in Ranks |-> gathered'[x][l]]]
      /\ \A x \in Procs \ {p} : gathered'[x] = gathered[x]
  BY DeliverGathered
<1>T. PICK T : T = ReduceValues /\ T = ReduceValues'
  BY <1>1, ReduceValuesSame
<1>c. PICK c \in Seq(T) : c = chan["allreduce"][s][p]
  BY <1>0, <1>T DEF ReduceTypeOK
<1>6. /\ c # <<>> /\ chan'["allreduce"] \in [Procs -> [Procs -> Seq(T)]]
      /\ chan'["allreduce"][s][p] = Tail(c)
      /\ \A x, y \in Procs : ~(x = s /\ y = p) => chan'["allreduce"][x][y] = chan["allreduce"][x][y]
  <2>1. s \in Procs /\ s = ranks[p][r] /\ Program' = Program /\ CollTypeOK /\ ReduceTypeOK
    BY <1>0, <1>1, <1>s
  <2>2. /\ chan["allreduce"][s][p] # <<>>
        /\ chan'["allreduce"] \in [Procs -> [Procs -> Seq(ReduceValues')]]
        /\ chan'["allreduce"][s][p] = Tail(chan["allreduce"][s][p])
        /\ \A x, y \in Procs : ~(x = s /\ y = p) => chan'["allreduce"][x][y] = chan["allreduce"][x][y]
    BY <2>1, TakeReduce
  <2> QED BY <1>c, <1>T, <2>2
<1>7. data' = [data EXCEPT ![p] = Head(c)]
  BY <1>2, <1>c, <1>s DEF Deliver
<1>8. data'[p] = Head(c)
  BY <1>0, <1>7 DEF DataOK
<1>9. ReduceTypeOK'
  BY <1>5, <1>6, <1>T DEF ReduceTypeOK
<1>10. \A x \in Procs : Reached(x)' = Reached(x) /\ (x # p => Have(x)' = Have(x))
  BY <1>1 DEF Reached, Have, Lacks, Call
<1>11. \A x, y \in Procs : Gotten(x, y)' = Gotten(x, y)
  <2>1. ASSUME NEW x \in Procs, NEW y \in Procs PROVE Gathers(x, y)' <=> Gathers(x, y)
    BY <1>1, <1>2 DEF Gathers
  <2> QED BY <1>1, <1>10, <2>1 DEF Gotten
<1>12. Have(p) = step[p] /\ Have(p)' = step[p] + 1
  <2>1. Lacks(p) /\ ~Lacks(p)'
    BY <1>1, <1>2, <1>3 DEF Lacks
  <2> QED BY <1>1, <2>1 DEF Have, Reached
<1>V. PICK V : V = Reduced(Program)
  OBVIOUS
<1>e. PICK e : e = Number(Program, Have(s))
  OBVIOUS
<1>13. Pipe(Program, c, Number(Program, step[p]), e, V)
  <2>1. Pipe(Program, chan["allreduce"][s][p], Number(Program, Have(p)), Number(Program, Have(s)), Reduced(Program))
    BY <1>0, <1>4, <1>s DEF ReduceExact
  <2> QED BY <1>12, <1>c, <1>e, <1>V, <2>1
<1>14. Head(c) = V[step[p] + 1] /\ Pipe(Program, Tail(c), Number(Program, step[p] + 1), e, V)
  BY <1>1, <1>3, <1>6, <1>13, PipeTake
<1>15. ASSUME NEW m \in Procs, NEW q \in Procs, rank'[m] = 0, q # m
       PROVE  /\ Pipe(Program', chan'["allreduce"][q][m], Number(Program', Gotten(m, q)'),
                      Number(Program', Reached(q)'), Contribution(Program', Assigned(q)'))
              /\ Pipe(Program', chan'["allreduce"][m][q], Number(Program', Have(q)'),
                      Number(Program', Have(m)'), Reduced(Program'))
  <2>1. m = s /\ q # s
    BY <1>1, <1>4, <1>15
  <2>2. /\ Pipe(Program, chan["allreduce"][q][s], Number(Program, Gotten(s, q)),
                Number(Program, Reached(q)), Contribution(Program, Assigned(q)))
        /\ Pipe(Program, chan["allreduce"][s][q], Number(Program, Have(q)),
                Number(Program, Have(s)), Reduced(Program))
    BY <1>0, <1>s, <2>1 DEF ReduceExact
  <2>3. chan'["allreduce"][q][s] = chan["allreduce"][q][s] /\ Assigned(q)' = Assigned(q)
    BY <1>1, <1>4, <1>6, <2>1 DEF Assigned
  <2>4. Pipe(Program', chan'["allreduce"][q][s], Number(Program', Gotten(s, q)'),
             Number(Program', Reached(q)'), Contribution(Program', Assigned(q)'))
    BY <1>1, <1>10, <1>11, <2>2, <2>3
  <2>5. CASE q # p
    <3>1. chan'["allreduce"][s][q] = chan["allreduce"][s][q] /\ Have(q)' = Have(q) /\ Have(s)' = Have(s)
      BY <1>4, <1>6, <1>10, <2>5
    <3> QED BY <1>1, <2>1, <2>2, <2>4, <3>1
  <2>6. CASE q = p
    <3>1. Have(s)' = Have(s)
      BY <1>4, <1>10
    <3> QED BY <1>1, <1>6, <1>12, <1>14, <1>e, <1>V, <2>1, <2>4, <2>6, <3>1
  <2> QED BY <2>5, <2>6
<1>16. (\A x \in Procs : stage'[x] \notin {"created", "closed"}) =>
         \A x, y \in Procs : chan'["allreduce"][x][y] = <<>>
  BY <1>1
<1>17. ReduceExact'
  BY <1>15, <1>16 DEF ReduceExact
<1>18. GatherOK(p)' /\ ResultOK(p)'
  <2>1. Reduced(Program)' = Reduced(Program)
    BY <1>1 DEF Reduced
  <2> QED BY <1>1, <1>2, <1>3, <1>8, <1>14, <1>V, <2>1 DEF GatherOK, ResultOK
<1>19. BuffersExact'
  BY <1>0, <1>1, <1>5, <1>18, BuffersOthers
<1> QED BY <1>9, <1>17, <1>19

LEMMA ReduceInit == Init => ReduceInv
<1> SUFFICES ASSUME Init PROVE ReduceInv
  OBVIOUS
<1>1. BaseInv /\ CollTypeOK
  BY OrderlyInit DEF OrderlyInv, BaseInv, IInv
<1>2. /\ \A p \in Procs : stage[p] = "out" /\ step[p] = 0 /\ phase[p] = "out"
      /\ chan["allreduce"] = [p \in Procs |-> [q \in Procs |-> <<>>]]
      /\ gathered = [p \in Procs |-> [r \in Ranks |-> 0]]
  BY DEF Init, GroupInit, Kinds
<1>3. <<>> \in Seq(ReduceValues)
  OBVIOUS
<1>4. ReduceTypeOK
  BY <1>2, <1>3 DEF ReduceTypeOK
<1>5. \A p, q \in Procs : /\ Number(Program, Gotten(p, q)) = 0 /\ Number(Program, Reached(p)) = 0
                          /\ Number(Program, Have(p)) = 0
  BY <1>1, <1>2, ReduceNone
<1>6. \A p, q \in Procs : chan["allreduce"][p][q] = <<>>
  BY <1>2
<1>7. ReduceExact
  BY <1>5, <1>6, PipeEmpty DEF ReduceExact
<1>8. BuffersExact
  BY <1>2 DEF BuffersExact, GatherOK, ResultOK
<1> QED BY <1>1, <1>4, <1>7, <1>8 DEF ReduceInv

LEMMA ReduceNext ==
  ASSUME OperateIsReduction, ReduceInv, [Next]_vars
  PROVE  ReduceInv'
<1>1. BaseInv'
  BY BaseNext DEF ReduceInv
<1>2. ReduceTypeOK' /\ ReduceExact' /\ BuffersExact'
  <2>1. CASE UNCHANGED vars
    <3>1. ReduceTypeOK /\ ReduceExact /\ BuffersExact
      BY DEF ReduceInv
    <3>2. UNCHANGED <<stage, rank, ranks, reply, Program, step, phase, recvs, chan, data, gathered>>
      BY <2>1 DEF vars, groupVars, collVars
    <3>3. ReduceTypeOK'
      <4>1. gathered' = [p \in Procs |-> [r \in Ranks |-> gathered'[p][r]]]
        BY <3>1, <3>2 DEF ReduceTypeOK
      <4> QED BY <3>1, <3>2, <4>1, ReduceTypeSame
    <3>4. \A x, y \in Procs : Gotten(x, y)' = Gotten(x, y) /\ Reached(x)' = Reached(x) /\ Have(x)' = Have(x)
      BY <3>2 DEF Gotten, Gathers, Reached, Have, Lacks, Call
    <3>5. ReduceExact'
      BY <3>1, <3>2, <3>4, ReduceQuiet DEF Assigned
    <3>6. ASSUME NEW x \in Procs PROVE GatherOK(x)' /\ ResultOK(x)'
      <4>1. GatherOK(x) /\ ResultOK(x)
        BY <3>1 DEF BuffersExact
      <4>2. \A r \in Others(0) : Assigned(ranks[x][r])' = Assigned(ranks[x][r])
        BY <3>2 DEF Assigned
      <4> QED BY <3>2, <4>1, <4>2, BuffersSame
    <3> QED BY <3>3, <3>5, <3>6 DEF BuffersExact
  <2>2. ASSUME NEW p \in Procs, CreateGroup(p) \/ CloseGroup(p) \/ AllreduceResult(p) \/ Finish(p)
        PROVE  ReduceTypeOK' /\ ReduceExact' /\ BuffersExact'
    BY <2>2, CreateReduce, CloseReduce, ResultMemberReduce, ResultRootReduce, FinishReduce
  <2>3. ASSUME NEW p \in Procs, Start(p) PROVE ReduceTypeOK' /\ ReduceExact' /\ BuffersExact'
    BY <2>3, StartOtherReduce, StartMemberReduce, StartRootReduce
  <2>4. ASSUME NEW p \in Procs, NEW r \in Ranks, Deliver(p, r)
        PROVE  ReduceTypeOK' /\ ReduceExact' /\ BuffersExact'
    BY <2>4, DeliverOtherReduce, DeliverGatherReduce, DeliverResultReduce
  <2> QED BY <2>1, <2>2, <2>3, <2>4 DEF Next
<1> QED BY <1>1, <1>2 DEF ReduceInv

\* lfi_allreduce: a process that has returned from an allreduce holds the
\* reduction of what all ranks passed to that very call, for any number of
\* processes, any program, any kind of send and any order in which rank 0
\* accepted the others.  That operate computes the reduction from the right
\* operands (OperateIsReduction) is a fact about its fold, which TLC evaluates.
THEOREM AllreduceAgreesInvariant ==
  ASSUME OperateIsReduction
  PROVE  Spec => []AllreduceAgrees
<1>1. ReduceInv => AllreduceAgrees
  <2> SUFFICES ASSUME ReduceInv, NEW p \in Procs, phase[p] = "out", step[p] > 0,
                      Program[step[p]].kind = "allreduce"
               PROVE  data[p] = Reduction(Program[step[p]].op, Input[step[p]])
    BY DEF AllreduceAgrees
  <2>1. CollTypeOK /\ CallExact /\ ResultOK(p)
    BY DEF ReduceInv, BaseInv, IInv, BuffersExact
  <2>2. step[p] \in DOMAIN Program
    <3>1. DOMAIN Program = 1..Len(Program) /\ step[p] \in Nat /\ Len(Program) \in Nat
      BY <2>1, CallFacts
    <3>2. step[p] <= Len(Program)
      BY <2>1 DEF CallExact
    <3> QED BY <3>1, <3>2
  <2>3. data[p] = Reduced(Program)[step[p]]
    BY <2>1 DEF ResultOK
  <2> QED BY <2>2, <2>3 DEF Reduced, Reductions
<1>2. Init => ReduceInv
  BY ReduceInit
<1>3. ReduceInv /\ [Next]_vars => ReduceInv'
  BY ReduceNext
<1> QED BY <1>1, <1>2, <1>3, PTL DEF Spec
=============================================================================
