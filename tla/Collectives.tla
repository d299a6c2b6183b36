----------------------------- MODULE Collectives -----------------------------
(***************************************************************************)
(* lfi_barrier, lfi_broadcast and lfi_allreduce (src/lfi_coll.cpp) on the   *)
(* group that module Group creates: its processes run the same sequence of  *)
(* collectives and close the group.  A                                      *)
(* collective posts its receives and sends at once and waits for all of     *)
(* them; allreduce does so twice, gathering at rank 0 first.  The rounds    *)
(* reuse one tag per kind of collective, so it is the order of messages     *)
(* between two processes that pairs the calls.                              *)
(*                                                                         *)
(* The fabric (external) keeps the messages of one tag between two          *)
(* processes in order.  A send completes when it is buffered or, for the    *)
(* kinds in rendezvous, when the peer has received it: libfabric decides by *)
(* provider and message size.  Every post succeeds: the error path (cancel, *)
(* wait, free) is left out.                                                 *)
(***************************************************************************)
EXTENDS Group

CONSTANTS
  Programs,    \* sequences of collectives [kind, root, op] the processes may run
  Input,       \* Input[k][r]: what rank r passes to call k
  Modulus      \* 2^w for the operand type (unsigned)

Kinds == {"barrier", "broadcast", "allreduce"}

ASSUME CollectivesAssumption ==
  /\ Modulus \in Nat \ {0}
  /\ \A prog \in Programs : /\ prog \in Seq(Range(prog))
                            /\ prog[1].kind = "barrier"
                            /\ \A k \in DOMAIN prog : prog[k].root \in Ranks /\ prog[k].kind \in Kinds
                            /\ DOMAIN prog \subseteq DOMAIN Input

VARIABLES
  Program,   \* the collectives of this run, the barrier of lfi_group_create first
  step,      \* calls a process has returned from
  phase,     \* "out" of the library, in the "gather" or in the "last" wait_all
  recvs,     \* ranks an outstanding receive is posted for
  sends,     \* processes an outstanding send is addressed to
  chan,      \* [kind][from][to]: messages on their way
  data,      \* the user's buffer
  gathered,  \* gather_buffers, fresh in every call
  rendezvous,\* kinds whose sends complete only when they are received
  permuted   \* history: a process has reached a mesh server before one of a lower rank

collVars == <<Program, step, phase, recvs, sends, chan, data, gathered, rendezvous>>
vars == <<groupVars, collVars, permuted>>

Others(r) == Ranks \ {r}

Init ==
  /\ GroupInit
  /\ Program \in Programs
  /\ step = [p \in Procs |-> 0]
  /\ phase = [p \in Procs |-> "out"]
  /\ recvs = [p \in Procs |-> {}]
  /\ sends = [p \in Procs |-> {}]
  /\ chan = [k \in Kinds |-> [p \in Procs |-> [q \in Procs |-> <<>>]]]
  /\ data = [p \in Procs |-> 0]
  /\ gathered = [p \in Procs |-> [r \in Ranks |-> 0]]
  /\ rendezvous \in SUBSET Kinds
  /\ permuted = FALSE

\* The call a process is in, or enters next.
Call(p) == Program[step[p] + 1]
Argument(p) == Input[step[p] + 1][rank[p]]

\* The processes at the other end of the connections of p to the ranks in S.
Peers(p, S) == {ranks[p][r] : r \in S}

\* lfi_tsend_async of v to every rank in S.
SendTo(p, S, v) ==
  /\ chan' = [chan EXCEPT ![Call(p).kind][p] =
                [q \in Procs |-> IF q \in Peers(p, S) THEN Append(@[q], v) ELSE @[q]]]
  /\ sends' = [sends EXCEPT ![p] = IF Call(p).kind \in rendezvous THEN Peers(p, S) ELSE {}]

\* lfi_trecv_async from every rank in S.
RecvFrom(p, S) == recvs' = [recvs EXCEPT ![p] = S]

\* The application fills the buffer, calls, and is in the wait ph.
Enter(p, ph) ==
  /\ phase' = [phase EXCEPT ![p] = ph]
  /\ data' = [data EXCEPT ![p] = Argument(p)]

\* Mutant: rank 0 posts no receives.
BarrierDeafRoot(p) ==
  /\ Call(p).kind = "barrier"
  /\ RecvFrom(p, IF rank[p] = 0 THEN {} ELSE {0})
  /\ SendTo(p, IF rank[p] = 0 THEN Others(0) ELSE {0}, 0)
  /\ Enter(p, "last")

\* Rank 0 posts a receive and a send for every member, a member one of each.
Barrier(p) ==
  /\ Call(p).kind = "barrier"
  /\ LET peers == IF rank[p] = 0 THEN Others(0) ELSE {0}
     IN  RecvFrom(p, peers) /\ SendTo(p, peers, 0)
  /\ Enter(p, "last")

\* Mutant: a member sends and the root receives.
BroadcastReversed(p) ==
  /\ Call(p).kind = "broadcast"
  /\ IF rank[p] = Call(p).root
     THEN SendTo(p, {}, Argument(p)) /\ RecvFrom(p, Others(rank[p]))
     ELSE SendTo(p, {Call(p).root}, Argument(p)) /\ RecvFrom(p, {})
  /\ Enter(p, "last")

Broadcast(p) ==
  /\ Call(p).kind = "broadcast"
  /\ IF rank[p] = Call(p).root
     THEN SendTo(p, Others(rank[p]), Argument(p)) /\ RecvFrom(p, {})
     ELSE SendTo(p, {}, Argument(p)) /\ RecvFrom(p, {Call(p).root})
  /\ Enter(p, "last")

\* The first half of allreduce: gather at rank 0.
AllreduceGather(p) ==
  /\ Call(p).kind = "allreduce"
  /\ IF rank[p] = 0
     THEN SendTo(p, {}, 0) /\ RecvFrom(p, Others(0))
     ELSE SendTo(p, {0}, Argument(p)) /\ RecvFrom(p, {})
  /\ Enter(p, "gather")

Start(p) ==
  /\ stage[p] = "created" /\ phase[p] = "out"
  /\ step[p] < Len(Program)
  /\ Barrier(p) \/ Broadcast(p) \/ AllreduceGather(p)
  /\ gathered' = [gathered EXCEPT ![p] = [r \in Ranks |-> 0]]
  /\ UNCHANGED <<groupVars, Program, step, rendezvous, permuted>>

\* operate<T>: fold the gathered values into the root's own.
Combine(op, x, y) ==
  CASE op = "MIN"  -> IF y < x THEN y ELSE x
    [] op = "MAX"  -> IF y > x THEN y ELSE x
    [] op = "SUM"  -> (x + y) % Modulus
    [] op = "PROD" -> (x * y) % Modulus

Operate(op, own, buffers) ==
  FoldLeft(LAMBDA x, y : Combine(op, x, y), own, buffers)

\* Mutant: the root does not wait for the members' contributions.
AllreduceResultEarly(p) ==
  /\ phase[p] = "gather" /\ sends[p] = {}
  /\ IF rank[p] = 0
     THEN LET result == Operate(Call(p).op, data[p], [i \in 1..(Size - 1) |-> gathered[p][i]])
          IN  /\ data' = [data EXCEPT ![p] = result]
              /\ SendTo(p, Others(0), result)
              /\ UNCHANGED recvs
     ELSE RecvFrom(p, {0}) /\ UNCHANGED <<data, chan, sends>>
  /\ phase' = [phase EXCEPT ![p] = "last"]
  /\ UNCHANGED <<groupVars, Program, step, gathered, rendezvous, permuted>>

\* Mutant: the loop that sends the result stops one member short.
AllreduceResultShort(p) ==
  /\ phase[p] = "gather"
  /\ recvs[p] = {} /\ sends[p] = {}
  /\ IF rank[p] = 0
     THEN LET result == Operate(Call(p).op, data[p], [i \in 1..(Size - 1) |-> gathered[p][i]])
          IN  /\ data' = [data EXCEPT ![p] = result]
              /\ SendTo(p, Others(0) \ {Size - 1}, result)
              /\ UNCHANGED recvs
     ELSE RecvFrom(p, {0}) /\ UNCHANGED <<data, chan, sends>>
  /\ phase' = [phase EXCEPT ![p] = "last"]
  /\ UNCHANGED <<groupVars, Program, step, gathered, rendezvous, permuted>>

\* The second half: rank 0 reduces and sends the result to everyone.
AllreduceResult(p) ==
  /\ phase[p] = "gather"
  /\ recvs[p] = {} /\ sends[p] = {}
  /\ IF rank[p] = 0
     THEN LET result == Operate(Call(p).op, data[p], [i \in 1..(Size - 1) |-> gathered[p][i]])
          IN  /\ data' = [data EXCEPT ![p] = result]
              /\ SendTo(p, Others(0), result)
              /\ UNCHANGED recvs
     ELSE RecvFrom(p, {0}) /\ UNCHANGED <<data, chan, sends>>
  /\ phase' = [phase EXCEPT ![p] = "last"]
  /\ UNCHANGED <<groupVars, Program, step, gathered, rendezvous, permuted>>

\* A posted receive of p for rank r takes the oldest message of that connection.
Deliver(p, r) ==
  LET kind == Call(p).kind
      q == ranks[p][r]
  IN  /\ r \in recvs[p]
      /\ chan[kind][q][p] # <<>>
      /\ LET v == Head(chan[kind][q][p])
         IN  CASE kind = "barrier" -> UNCHANGED <<data, gathered>>
               [] phase[p] = "gather" -> /\ gathered' = [gathered EXCEPT ![p][r] = v]
                                         /\ UNCHANGED data
               [] OTHER -> data' = [data EXCEPT ![p] = v] /\ UNCHANGED gathered
      /\ chan' = [chan EXCEPT ![kind][q][p] = Tail(@)]
      /\ recvs' = [recvs EXCEPT ![p] = @ \ {r}]
      /\ sends' = IF kind \in rendezvous THEN [sends EXCEPT ![q] = @ \ {p}] ELSE sends
      /\ UNCHANGED <<groupVars, Program, step, phase, rendezvous, permuted>>

\* wait_all and the return.
Finish(p) ==
  /\ phase[p] = "last"
  /\ recvs[p] = {} /\ sends[p] = {}
  /\ step' = [step EXCEPT ![p] = @ + 1]
  /\ phase' = [phase EXCEPT ![p] = "out"]
  /\ UNCHANGED <<groupVars, Program, recvs, sends, chan, data, gathered, rendezvous, permuted>>

\* The process that p connects to accepts its connections in the order they are
\* made and numbers them by their ranks: that is right when every process of a
\* rank in between has connected before p.
ConnectsInOrder(p) ==
  \A j \in 0..(rank[p] - 1), q \in Procs :
    /\ ranks[p][j] = None /\ ranks'[p][j] # None
    /\ Assigned(q) \in (j + 1)..(rank[p] - 1)
    => ranks[q][j] # None

\* The group is created, by processes that connect in any order.
CreateGroup(p) ==
  /\ CreateStep(p)
  /\ permuted' = (permuted \/ ~ConnectsInOrder(p))
  /\ UNCHANGED collVars

CloseGroup(p) ==
  /\ step[p] = Len(Program) /\ phase[p] = "out"
  /\ GroupClose(p)
  /\ UNCHANGED <<collVars, permuted>>

Next ==
  \E p \in Procs :
    \/ CreateGroup(p) \/ CloseGroup(p)
    \/ Start(p) \/ AllreduceResult(p) \/ Finish(p)
    \/ \E r \in Ranks : Deliver(p, r)

Spec == Init /\ [][Next]_vars
Fairness == WF_vars(Next)
FairSpec == Spec /\ Fairness

-----------------------------------------------------------------------------
(* Properties.                                                             *)

Entered(p, k) == step[p] >= k \/ (step[p] = k - 1 /\ phase[p] # "out")
Left(p, k) == step[p] >= k

\* lfi_coll.h of lfi_barrier: no process proceeds beyond the barrier until all
\* participating processes have reached it.  The code does not keep this: rank 0
\* posts the sends that release the members together with its receives.
BarrierSynchronises ==
  \A k \in DOMAIN Program : Program[k].kind = "barrier" =>
    \A p, q \in Procs : Left(p, k) => Entered(q, k)

\* What lfi_barrier does guarantee: rank 0 leaves after everyone has entered, and
\* a member after rank 0 has entered, in every barrier of the sequence.
BarrierWithRoot ==
  \A k \in DOMAIN Program : Program[k].kind = "barrier" =>
    \A p, q \in Procs : rank[p] = 0 => /\ Left(p, k) => Entered(q, k)
                                       /\ Left(q, k) => Entered(p, k)

\* The connections are where lfi_broadcast looks for them: every broadcast is
\* from rank 0, which all connect to, or the processes happened to reach the mesh
\* servers in the order of their ranks.
OnlyRoot0 == \A k \in DOMAIN Program : Program[k].root = 0
Orderly == OnlyRoot0 \/ ~permuted

\* A process that has just left a broadcast holds what the root passed to that
\* very call, although consecutive broadcasts share a tag.  It may hold another
\* root's data, or wait for ever, when the mesh was accepted out of order.
BroadcastDelivers ==
  \A p \in Procs : Orderly /\ phase[p] = "out" /\ step[p] > 0 =>
    LET k == step[p]
    IN  Program[k].kind = "broadcast" => data[p] = Input[k][Program[k].root]

\* What an operation on the operands v[r] of all ranks should give.
Reduction(op, v) ==
  CASE op = "MIN"  -> Min({v[r] : r \in Ranks})
    [] op = "MAX"  -> Max({v[r] : r \in Ranks})
    [] op = "SUM"  -> MapThenSumSet(LAMBDA r : v[r], Ranks) % Modulus
    [] op = "PROD" -> FoldSet(LAMBDA r, acc : acc * v[r], 1, Ranks) % Modulus

\* operate gives the reduction for the calls of the programs, whichever order
\* the mesh of rank 0 was accepted in.
AcceptOrders ==
  {f \in [1..(Size - 1) -> Others(0)] : \A i, j \in 1..(Size - 1) : f[i] = f[j] => i = j}
OperateIsReduction ==
  \A prog \in Programs : \A k \in DOMAIN prog, f \in AcceptOrders :
    prog[k].kind = "allreduce" =>
      Operate(prog[k].op, Input[k][0], [i \in 1..(Size - 1) |-> Input[k][f[i]]]) =
        Reduction(prog[k].op, Input[k])

\* Every process that has just left an allreduce holds the reduction of what
\* all of them passed to that call, in whatever order the mesh was accepted.
AllreduceAgrees ==
  \A p \in Procs : phase[p] = "out" /\ step[p] > 0 =>
    LET k == step[p]
    IN  Program[k].kind = "allreduce" => data[p] = Reduction(Program[k].op, Input[k])

\* The hosts of the processes are those of the group, slot for slot.
HostsMatch ==
  \A h \in {Hostnames[r] : r \in Ranks} :
    Quantify(Procs, LAMBDA p : host[p] = h) = Quantify(Ranks, LAMBDA r : Hostnames[r] = h)

\* When the processes run on the hosts of the group, every one of them gets
\* through the creation of the group, the whole sequence of collectives and the
\* close: nobody waits for a message or a connection that will not come.  Only a
\* broadcast on a mesh that was accepted out of order may wait for ever.
AllReturn == HostsMatch => <>(~Orderly \/ \A p \in Procs : stage[p] = "closed")
=============================================================================
