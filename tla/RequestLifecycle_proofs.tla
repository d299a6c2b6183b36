----------------------- MODULE RequestLifecycle_proofs -----------------------
(***************************************************************************)
(* Proofs about RequestLifecycle, for any threads, requests, contexts and   *)
(* workloads.  The inductive invariant IInv holds until two threads complete *)
(* one request at the same time; the theorems say so, in the property or    *)
(* with ~collided.                                                         *)
(***************************************************************************)
EXTENDS RequestLifecycle, WellFoundedInduction, TLAPS

-----------------------------------------------------------------------------
(* Where a thread is.                                                      *)

PCs == {"idle", "reset", "push", "register", "complete", "ft_complete", "finish", "read",
        "entry", "fill", "destroy", "post", "injected", "failed", "callbacks", "cancel",
        "cancel_progress", "cancel_complete"}

\* In complete, called from a place in R.
Returns(t, R) == pc[t] \in {"complete", "ft_complete", "finish"} /\ call[t].ret \in R

\* In progress; in post_pending_ops.
Leads(t) ==
  \/ pc[t] \in {"read", "entry", "fill", "destroy", "post", "injected", "failed", "callbacks"}
  \/ Returns(t, {"destroy", "injected", "failed"})

Posts(t) == pc[t] \in {"post", "injected", "failed"} \/ Returns(t, {"injected", "failed"})

\* With the context of a completion entry; with the front of the queues.
Holds(t) == pc[t] \in {"fill", "destroy"} \/ Returns(t, {"destroy"})
AtFront(t) == pc[t] \in {"injected", "failed"} \/ Returns(t, {"injected", "failed"})

\* About to complete a request from progress.
Completes(t) == pc[t] = "fill" \/ Returns(t, {"destroy", "injected", "failed"})

\* In cancel, for request r.
Cancels(t, r) == cancelling[t].req = r \/ (Returns(t, {"idle"}) /\ call[t].req = r)

-----------------------------------------------------------------------------
(* The inductive invariant.                                                *)

CallType == call = [t \in Threads |-> [req |-> call[t].req, err |-> call[t].err, op |-> call[t].op,
                                       ctx |-> call[t].ctx, ret |-> call[t].ret]]

TypeOK ==
  /\ workload \in Workloads
  /\ wait_context \in [Requests -> Contexts \cup {Null}]
  /\ ctx_req \in [Contexts -> Requests \cup {Null}]
  /\ gen \in [Requests -> Nat]
  /\ error = [r \in Requests |-> error[r]] /\ op_type \in [Requests -> Types \cup {"NONE"}]
  /\ size = [r \in Requests |-> size[r]] /\ ended = [r \in Requests |-> ended[r]]
  /\ created \subseteq Contexts /\ pool \in Seq(Contexts)
  /\ leader \in Threads \cup {Null}
  /\ pc \in [Threads -> PCs]
  /\ CallType
  /\ cancelling = [t \in Threads |-> cancelling[t]]

\* The operations in the queues, at the provider and in the entries.
Ops == [ctx : Contexts, type : Types \cup {"NONE"}, op : Requests \X Nat]
Entries == [ctx : Contexts, op : Requests \X Nat, err : Errors]

QueueTypeOK ==
  /\ priority_ops \in Seq(Ops) /\ pending_ops \in Seq(Ops)
  /\ posted \subseteq [ctx : Contexts, op : Requests \X Nat]
  /\ cq \in Seq(Entries) /\ comp \in Seq(Entries)
  /\ callbacks \in Seq(Requests \X Nat)

\* What a thread holds and works on.
ThreadOK(t) ==
  /\ pc[t] # "idle" => t \in workload.threads
  /\ Leads(t) <=> leader = t
  /\ Posts(t) <=> pending_ops_mutex = t
  /\ FT => (pc[t] \in {"push", "register"} <=> ft_mutex = t)
  /\ pc[t] = "ft_complete" => FT
  /\ pc[t] \in {"reset", "push", "register"} =>
       call[t].req \in Requests /\ Owner[call[t].req] = t /\ cancelling[t].req = Null
  /\ pc[t] \in {"fill", "complete", "ft_complete", "finish"} =>
       /\ call[t].req \in Requests
       /\ call[t].ret \in {"idle", "destroy", "injected", "failed"}
  /\ pc[t] \in {"fill", "destroy"} => call[t].ret = "destroy"
  /\ pc[t] \in {"cancel", "cancel_progress", "cancel_complete"} => cancelling[t].req # Null
  /\ pc[t] = "idle" => cancelling[t].req = Null
  /\ cancelling[t].req # Null =>
       /\ t \in workload.cancellers
       /\ cancelling[t].req \in Requests /\ Owner[cancelling[t].req] = t
       /\ cancelling[t].op = <<cancelling[t].req, gen[cancelling[t].req]>>
  /\ Returns(t, {"idle"}) =>
       /\ t \in workload.cancellers /\ cancelling[t].req = Null
       /\ Owner[call[t].req] = t /\ call[t].op = <<call[t].req, gen[call[t].req]>>
  /\ Leads(t) /\ pc[t] # "entry" /\ ~Holds(t) => comp = <<>>

Control ==
  /\ \A t \in Threads : ThreadOK(t)
  /\ leader = Null => comp = <<>>

\* A request and its context point to each other until the request is
\* completed; what progress calls complete for is still running.
Links ==
  /\ \A r \in Requests : wait_context[r] # Null => ctx_req[wait_context[r]] = r
  /\ \A c \in Contexts : ctx_req[c] # Null => wait_context[ctx_req[c]] = c
  /\ \A c \in Contexts : c \in ToSet(pool) \/ c \notin created => ctx_req[c] = Null

ThreadLinks(t) ==
  /\ pc[t] = "reset" => wait_context[call[t].req] = Null
  /\ pc[t] = "push" \/ (FT /\ pc[t] = "register") => wait_context[call[t].req] # Null
  /\ pc[t] \in {"ft_complete", "finish"} => wait_context[call[t].req] # Null
  /\ Completes(t) =>
       /\ call[t].ctx \in Contexts /\ wait_context[call[t].req] = call[t].ctx
       /\ call[t].op = <<call[t].req, gen[call[t].req]>>
  /\ pc[t] \in {"destroy", "injected", "failed"} =>
       call[t].ctx \in Contexts /\ ctx_req[call[t].ctx] = Null

RunningOps == \A t \in Threads : ThreadLinks(t)

\* The context thread t has taken from an entry; the one it is about to push.
HeldBy(t, c) == Holds(t) /\ call[t].ctx = c
FreshBy(t, c) == pc[t] = "push" /\ wait_context[call[t].req] = c

\* Where context c is.
Spots == {"priority", "pending", "posted", "cq", "comp", "pool", "held", "fresh"}
In(k, c) ==
  \/ k = "priority" /\ \E e \in ToSet(priority_ops) : e.ctx = c
  \/ k = "pending" /\ \E e \in ToSet(pending_ops) : e.ctx = c
  \/ k = "posted" /\ \E p \in posted : p.ctx = c
  \/ k = "cq" /\ \E e \in ToSet(cq) : e.ctx = c
  \/ k = "comp" /\ \E e \in ToSet(comp) : e.ctx = c
  \/ k = "pool" /\ c \in ToSet(pool)
  \/ k = "held" /\ \E t \in Threads : HeldBy(t, c)
  \/ k = "fresh" /\ \E t \in Threads : FreshBy(t, c)

NoRepeat(s) == \A i, j \in DOMAIN s : s[i].ctx = s[j].ctx => i = j

OneSpot == \A c \in Contexts : \A k, l \in Spots : In(k, c) /\ In(l, c) => k = l
SpotsExact ==
  /\ NoRepeat(priority_ops) /\ NoRepeat(pending_ops) /\ NoRepeat(cq) /\ NoRepeat(comp)
  /\ IsInjective(pool)
  /\ \A p, q \in posted : p.ctx = q.ctx => p = q
  /\ \A c \in Contexts : \A k \in Spots : In(k, c) => c \in created
  /\ \A t \in Threads : AtFront(t) => SomeOp /\ call[t].ctx = FrontOp.ctx

\* An operation whose context still has its request is the request's last one.
OpsExact ==
  /\ \A e \in ToSet(priority_ops) \cup ToSet(pending_ops) :
       ctx_req[e.ctx] # Null =>
         /\ e.op = <<ctx_req[e.ctx], gen[ctx_req[e.ctx]]>>
         /\ e.type = op_type[ctx_req[e.ctx]]
  /\ \A e \in posted \cup ToSet(cq) \cup ToSet(comp) :
       ctx_req[e.ctx] # Null => e.op = <<ctx_req[e.ctx], gen[ctx_req[e.ctx]]>>

\* The context of a running operation is somewhere, or cancel has taken it.
Outstanding ==
  \A r \in Requests, c \in Contexts : wait_context[r] = c =>
    \/ \E k \in Spots : In(k, c)
    \/ \E t \in Threads : Cancels(t, r)

\* FtListExact, CompletedByOwnOp and ReceivedSize in a state.
FtListNow == FT => \A r \in Requests \ InTransit : r \in ft_requests <=> wait_context[r] # Null
OwnOpNow == \A r \in Requests : wait_context[r] = Null => ended[r] = <<r, gen[r]>>
SizesNow ==
  \A r \in Requests :
    op_type[r] = "RECV" /\ wait_context[r] = Null /\ error[r] = "SUCCESS" => size[r] = "got"

\* The list of outstanding requests while a thread takes a request out.
FtExact ==
  /\ FtListNow
  /\ FT => \A t, u \in Threads : pc[t] = "finish" =>
       /\ call[t].req \notin ft_requests
       /\ pc[u] \in {"push", "register"} => call[u].req # call[t].req

\* The size and the error of a request that is being completed.
SizeOK(t) ==
  /\ Returns(t, {"destroy"}) /\ call[t].err = "SUCCESS" /\ op_type[call[t].req] = "RECV" =>
       size[call[t].req] = "got"
  /\ Returns(t, {"injected"}) => op_type[call[t].req] = "INJECT"
  /\ Returns(t, {"failed", "idle"}) => call[t].err # "SUCCESS"

SizeExact == SizesNow /\ \A t \in Threads : SizeOK(t)

IInv ==
  /\ TypeOK /\ QueueTypeOK /\ Control /\ Links /\ RunningOps /\ OneSpot
  /\ SpotsExact /\ OpsExact /\ Outstanding /\ FtExact /\ SizeExact /\ CallbackKept /\ OwnOpNow

-----------------------------------------------------------------------------
(* Queues of operations and entries.                                       *)

\* A set of naturals has a least element: induction, for what follows.
LEMMA LeastNat ==
  ASSUME NEW T, T \subseteq Nat, T # {}
  PROVE  \E n \in T : \A m \in T : n <= m
<1>1. IsWellFoundedOn(OpToRel(<, Nat), Nat)
  BY NatLessThanWellFounded
<1>2. PICK n \in T : \A m \in T : ~(<<m, n>> \in OpToRel(<, Nat))
  BY <1>1, WFMin
<1>3. \A m \in T : ~(m < n)
  BY <1>2 DEF OpToRel
<1> QED BY <1>3

\* Appending an operation with a context that is not there.
LEMMA AppendOp ==
  ASSUME NEW S, NEW s \in Seq(S), NEW x \in S
  PROVE  /\ Append(s, x) \in Seq(S)
         /\ ToSet(Append(s, x)) = ToSet(s) \cup {x}
         /\ NoRepeat(s) /\ (\A e \in ToSet(s) : e.ctx # x.ctx) => NoRepeat(Append(s, x))
<1>1. /\ Append(s, x) \in Seq(S) /\ Len(s) \in Nat
      /\ DOMAIN s = 1..Len(s) /\ DOMAIN Append(s, x) = 1..(Len(s) + 1)
      /\ \A i \in 1..Len(s) : Append(s, x)[i] = s[i]
      /\ Append(s, x)[Len(s) + 1] = x
  OBVIOUS
<1>2. \A i \in 1..(Len(s) + 1) : i \in 1..Len(s) \/ i = Len(s) + 1
  BY <1>1
<1>3. 1..Len(s) \subseteq 1..(Len(s) + 1) /\ Len(s) + 1 \in 1..(Len(s) + 1)
  BY <1>1
<1>4. ToSet(Append(s, x)) = ToSet(s) \cup {x}
  BY <1>1, <1>2, <1>3 DEF ToSet
<1>5. ASSUME NoRepeat(s), \A e \in ToSet(s) : e.ctx # x.ctx PROVE NoRepeat(Append(s, x))
  BY <1>1, <1>2, <1>5 DEF NoRepeat, ToSet
<1> QED BY <1>1, <1>4, <1>5

\* erase_if keeps the operations of the other contexts, and their order.
LEMMA EraseIfOps ==
  ASSUME NEW S, NEW s \in Seq(S), NEW c
  PROVE  /\ EraseIf(s, c) \in Seq(S)
         /\ ToSet(EraseIf(s, c)) = {e \in ToSet(s) : e.ctx # c}
         /\ NoRepeat(s) => NoRepeat(EraseIf(s, c))
<1> DEFINE Put(f, i) == IF s[i].ctx = c THEN f[i - 1] ELSE Append(f[i - 1], s[i])
           Kept(f, n) == f = [i \in 0..n |-> IF i = 0 THEN <<>> ELSE Put(f, i)]
           Bad == {n \in 0..Len(s) : ~ \E f : Kept(f, n)}
<1>0. Len(s) \in Nat /\ DOMAIN s = 1..Len(s) /\ \A i \in 1..Len(s) : s[i] \in S
  OBVIOUS
\* the recursive function exists
<1>1. Bad = {}
  <2> SUFFICES ASSUME Bad # {} PROVE FALSE
    OBVIOUS
  <2>1. PICK n \in Bad : \A m \in Bad : n <= m
    <3>1. Bad \subseteq Nat
      BY <1>0
    <3> HIDE DEF Bad
    <3> QED BY <3>1, LeastNat
  <2>2. n \in 0..Len(s)
    OBVIOUS
  <2>3. CASE n = 0
    <3> DEFINE g == [i \in 0..0 |-> <<>>]
    <3>1. Kept(g, 0)
      OBVIOUS
    <3> QED BY <2>3, <3>1
  <2>4. CASE n # 0
    <3>1. n - 1 \in 0..Len(s) /\ n \in Nat
      BY <1>0, <2>2, <2>4
    <3>2. n - 1 \notin Bad
      <4>1. ~(n <= n - 1)
        BY <3>1
      <4> QED BY <2>1, <4>1
    <3>3. PICK f : Kept(f, n - 1)
      BY <3>1, <3>2
    <3> DEFINE g == [i \in 0..n |-> IF i = n THEN Put(f, n) ELSE f[i]]
    <3>4. \A i \in 0..(n - 1) : f[i] = IF i = 0 THEN <<>> ELSE Put(f, i)
      <4> HIDE DEF Put
      <4> QED BY <3>3
    <3>5. ASSUME NEW i \in 0..n PROVE g[i] = IF i = 0 THEN <<>> ELSE Put(g, i)
      <4>1. CASE i = n
        <5>1. g[i] = Put(f, n) /\ n - 1 \in 0..n /\ g[n - 1] = f[n - 1]
          BY <3>1, <4>1
        <5> QED BY <2>4, <4>1, <5>1
      <4>2. CASE i # n
        <5>1. i \in 0..(n - 1) /\ g[i] = f[i]
          BY <3>1, <4>2
        <5>2. CASE i = 0
          BY <3>4, <5>1, <5>2
        <5>3. CASE i # 0
          <6>1. i - 1 \in 0..n /\ i - 1 # n /\ g[i - 1] = f[i - 1]
            BY <3>1, <5>1, <5>3
          <6>2. f[i] = Put(f, i)
            BY <3>4, <5>1, <5>3
          <6> QED BY <5>1, <5>3, <6>1, <6>2
        <5> QED BY <5>2, <5>3
      <4> QED BY <4>1, <4>2
    <3>6. Kept(g, n)
      BY <3>5
    <3> QED BY <3>6
  <2> QED BY <2>3, <2>4
<1>2. \E f : Kept(f, Len(s))
  <2> HIDE DEF Kept
  <2> SUFFICES ASSUME ~ \E f : Kept(f, Len(s)) PROVE FALSE
    OBVIOUS
  <2>1. Len(s) \in 0..Len(s)
    BY <1>0
  <2>2. Len(s) \in Bad
    BY <2>1
  <2> HIDE DEF Bad
  <2> QED BY <1>1, <2>2
<1>3. PICK f : Kept(f, Len(s)) /\ EraseIf(s, c) = f[Len(s)]
  BY <1>2 DEF EraseIf
<1>4. /\ f[0] = <<>>
      /\ \A i \in 1..Len(s) : f[i] = Put(f, i)
  <2> HIDE DEF Put
  <2>1. 0 \in 0..Len(s) /\ \A i \in 1..Len(s) : i \in 0..Len(s) /\ i # 0
    BY <1>0
  <2> QED BY <1>3, <2>1
\* what it has kept after n steps
<1> DEFINE Right(n) == /\ f[n] \in Seq(S)
                       /\ \A e : e \in ToSet(f[n]) <=> \E i \in 1..n : e = s[i] /\ e.ctx # c
                       /\ NoRepeat(s) => NoRepeat(f[n])
           Wrong == {n \in 0..Len(s) : ~Right(n)}
<1>5. Wrong = {}
  <2> SUFFICES ASSUME Wrong # {} PROVE FALSE
    OBVIOUS
  <2>1. PICK n \in Wrong : \A m \in Wrong : n <= m
    <3>1. Wrong \subseteq Nat
      BY <1>0
    <3> HIDE DEF Wrong
    <3> QED BY <3>1, LeastNat
  <2>2. n \in 0..Len(s)
    OBVIOUS
  <2>3. CASE n = 0
    <3>1. ToSet(f[0]) = {} /\ f[0] \in Seq(S) /\ NoRepeat(f[0])
      BY <1>4 DEF ToSet, NoRepeat
    <3>2. Right(0)
      BY <3>1
    <3> QED BY <2>3, <3>2
  <2>4. CASE n # 0
    <3>1. n - 1 \in 0..Len(s) /\ n \in 1..Len(s) /\ n \in Nat
      BY <1>0, <2>2, <2>4
    <3>2. Right(n - 1)
      <4>1. ~(n <= n - 1)
        BY <3>1
      <4> QED BY <2>1, <3>1, <4>1
    <3>3. \A i \in 1..n : i = n \/ i \in 1..(n - 1)
      BY <3>1
    <3>4. \A i \in 1..(n - 1) : i \in 1..n /\ i \in 1..Len(s) /\ i # n
      BY <1>0, <3>1
    <3>a. PICK g : g = f[n - 1]
      OBVIOUS
    <3>b. /\ g \in Seq(S) /\ (NoRepeat(s) => NoRepeat(g))
          /\ \A e : e \in ToSet(g) <=> \E i \in 1..(n - 1) : e = s[i] /\ e.ctx # c
      BY <3>2, <3>a
    <3>5. CASE s[n].ctx = c
      <4>1. f[n] = g
        BY <1>4, <3>1, <3>5, <3>a
      <4>2. \A e : e \in ToSet(g) <=> \E i \in 1..n : e = s[i] /\ e.ctx # c
        BY <3>b, <3>3, <3>4, <3>5
      <4>3. Right(n)
        BY <3>b, <4>1, <4>2
      <4> QED BY <4>3
    <3>6. CASE s[n].ctx # c
      <4>1. f[n] = Append(g, s[n]) /\ s[n] \in S
        BY <1>0, <1>4, <3>1, <3>6, <3>a
      <4>2. f[n] \in Seq(S) /\ ToSet(f[n]) = ToSet(g) \cup {s[n]}
        BY <3>b, <4>1, AppendOp
      <4>3. \A e : e \in ToSet(f[n]) <=> \E i \in 1..n : e = s[i] /\ e.ctx # c
        BY <3>1, <3>b, <3>3, <3>4, <3>6, <4>2
      <4>4. ASSUME NoRepeat(s) PROVE NoRepeat(f[n])
        <5>1. \A e \in ToSet(g) : e.ctx # s[n].ctx
          BY <1>0, <3>1, <3>b, <3>4, <4>4 DEF NoRepeat
        <5> QED BY <3>b, <4>1, <4>4, <5>1, AppendOp
      <4>5. Right(n)
        BY <4>2, <4>3, <4>4
      <4> QED BY <4>5
    <3> QED BY <3>5, <3>6
  <2> QED BY <2>3, <2>4
<1>6. Right(Len(s))
  <2>1. Len(s) \in 0..Len(s)
    BY <1>0
  <2> HIDE DEF Right
  <2> QED BY <1>5, <2>1
<1>7. \A e : e \in ToSet(s) <=> \E i \in 1..Len(s) : e = s[i]
  BY <1>0 DEF ToSet
<1> QED BY <1>3, <1>6, <1>7

\* Taking the front.
LEMMA TailOp ==
  ASSUME NEW S, NEW s \in Seq(S), s # <<>>, NoRepeat(s)
  PROVE  /\ Tail(s) \in Seq(S) /\ NoRepeat(Tail(s))
         /\ Head(s) \in S /\ Head(s) \in ToSet(s)
         /\ ToSet(Tail(s)) \subseteq ToSet(s)
         /\ \A e \in ToSet(s) : e \in ToSet(Tail(s)) <=> e.ctx # Head(s).ctx
<1>1. /\ Len(s) \in Nat \ {0} /\ DOMAIN s = 1..Len(s) /\ Head(s) = s[1]
      /\ Tail(s) \in Seq(S) /\ DOMAIN Tail(s) = 1..(Len(s) - 1)
      /\ \A i \in 1..(Len(s) - 1) : Tail(s)[i] = s[i + 1]
      /\ Head(s) \in S
  OBVIOUS
<1>2. \A i \in 1..(Len(s) - 1) : i + 1 \in 1..Len(s) /\ i + 1 # 1
  BY <1>1
<1>3. 1 \in 1..Len(s)
  BY <1>1
<1>4. \A i \in 1..Len(s) : i = 1 \/ (i - 1 \in 1..(Len(s) - 1) /\ (i - 1) + 1 = i)
  BY <1>1
<1>5. NoRepeat(Tail(s))
  <2> SUFFICES ASSUME NEW i \in 1..(Len(s) - 1), NEW j \in 1..(Len(s) - 1),
                      Tail(s)[i].ctx = Tail(s)[j].ctx
               PROVE  i = j
    BY <1>1 DEF NoRepeat
  <2>1. i + 1 = j + 1
    BY <1>1, <1>2 DEF NoRepeat
  <2> QED BY <1>1, <2>1
<1>6. Head(s) \in ToSet(s)
  BY <1>1, <1>3 DEF ToSet
<1>7. ToSet(Tail(s)) \subseteq ToSet(s)
  BY <1>1, <1>2 DEF ToSet
<1>8. ASSUME NEW e \in ToSet(Tail(s)) PROVE e.ctx # Head(s).ctx
  <2>1. PICK i \in 1..(Len(s) - 1) : e = s[i + 1]
    BY <1>1 DEF ToSet
  <2> QED BY <1>1, <1>2, <1>3, <2>1 DEF NoRepeat
<1>9. ASSUME NEW e \in ToSet(s), e.ctx # Head(s).ctx PROVE e \in ToSet(Tail(s))
  <2>1. PICK i \in 1..Len(s) : e = s[i]
    BY <1>1 DEF ToSet
  <2>2. i - 1 \in 1..(Len(s) - 1) /\ (i - 1) + 1 = i
    BY <1>1, <1>4, <1>9, <2>1
  <2>3. e = Tail(s)[i - 1]
    BY <1>1, <2>1, <2>2
  <2> QED BY <1>1, <2>2, <2>3 DEF ToSet
<1> QED BY <1>1, <1>5, <1>6, <1>7, <1>8, <1>9

\* Reading the first n entries.
LEMMA CutOps ==
  ASSUME NEW S, NEW s \in Seq(S), NoRepeat(s), NEW n \in 0..Len(s)
  PROVE  /\ SubSeq(s, 1, n) \in Seq(S) /\ NoRepeat(SubSeq(s, 1, n))
         /\ SubSeq(s, n + 1, Len(s)) \in Seq(S) /\ NoRepeat(SubSeq(s, n + 1, Len(s)))
         /\ ToSet(SubSeq(s, 1, n)) \cup ToSet(SubSeq(s, n + 1, Len(s))) = ToSet(s)
         /\ \A e \in ToSet(SubSeq(s, 1, n)), f \in ToSet(SubSeq(s, n + 1, Len(s))) : e.ctx # f.ctx
<1>a. PICK u : u = SubSeq(s, 1, n)
  OBVIOUS
<1>b. PICK v : v = SubSeq(s, n + 1, Len(s))
  OBVIOUS
<1>1. /\ Len(s) \in Nat /\ DOMAIN s = 1..Len(s) /\ n \in Nat /\ n <= Len(s)
      /\ \A i \in 1..Len(s) : s[i] \in S
  OBVIOUS
<1>2. /\ u \in Seq(S) /\ DOMAIN u = 1..n
      /\ \A i \in 1..n : u[i] = s[i]
  BY <1>1, <1>a
<1>3. /\ v \in Seq(S) /\ DOMAIN v = 1..(Len(s) - n)
      /\ \A i \in 1..(Len(s) - n) : v[i] = s[n + i]
  <2>1. v = [i \in 1..(Len(s) - n) |-> s[n + i]]
    BY <1>1, <1>b
  <2>2. v \in Seq(S)
    BY <1>1, <1>b
  <2> QED BY <2>1, <2>2
<1>4. /\ 1..n \subseteq 1..Len(s)
      /\ \A i \in 1..(Len(s) - n) : n + i \in 1..Len(s) /\ n + i \notin 1..n
      /\ \A i \in 1..Len(s) : i \in 1..n \/ (i - n \in 1..(Len(s) - n) /\ n + (i - n) = i)
      /\ \A i, j \in 1..(Len(s) - n) : n + i = n + j => i = j
  BY <1>1
<1>5. NoRepeat(u)
  BY <1>1, <1>2, <1>4 DEF NoRepeat
<1>6. NoRepeat(v)
  <2> SUFFICES ASSUME NEW i \in 1..(Len(s) - n), NEW j \in 1..(Len(s) - n), v[i].ctx = v[j].ctx
               PROVE  i = j
    BY <1>3 DEF NoRepeat
  <2>1. s[n + i].ctx = s[n + j].ctx /\ n + i \in 1..Len(s) /\ n + j \in 1..Len(s)
    BY <1>3, <1>4
  <2>2. n + i = n + j
    BY <1>1, <2>1 DEF NoRepeat
  <2> QED BY <1>4, <2>2
<1>7. ASSUME NEW e PROVE e \in ToSet(s) <=> e \in ToSet(u) \/ e \in ToSet(v)
  <2>1. ASSUME e \in ToSet(u) PROVE e \in ToSet(s)
    BY <1>1, <1>2, <1>4, <2>1 DEF ToSet
  <2>2. ASSUME e \in ToSet(v) PROVE e \in ToSet(s)
    <3>1. PICK i \in 1..(Len(s) - n) : e = s[n + i]
      BY <1>3, <2>2 DEF ToSet
    <3> QED BY <1>1, <1>4, <3>1 DEF ToSet
  <2>3. ASSUME e \in ToSet(s), e \notin ToSet(u) PROVE e \in ToSet(v)
    <3>1. PICK i \in 1..Len(s) : e = s[i]
      BY <1>1, <2>3 DEF ToSet
    <3>2. i \notin 1..n
      BY <1>2, <2>3, <3>1 DEF ToSet
    <3>3. PICK j \in 1..(Len(s) - n) : n + j = i
      BY <1>4, <3>2
    <3> QED BY <1>3, <3>1, <3>3 DEF ToSet
  <2> QED BY <2>1, <2>2, <2>3
<1>8. ASSUME NEW e \in ToSet(u), NEW f \in ToSet(v) PROVE e.ctx # f.ctx
  <2>1. PICK i \in 1..n : e = s[i]
    BY <1>2, <1>8 DEF ToSet
  <2>2. PICK j \in 1..(Len(s) - n) : f = s[n + j]
    BY <1>3, <1>8 DEF ToSet
  <2>3. i \in 1..Len(s) /\ n + j \in 1..Len(s) /\ i # n + j
    BY <1>4
  <2> QED BY <1>1, <2>1, <2>2, <2>3 DEF NoRepeat
<1> QED BY <1>a, <1>b, <1>2, <1>3, <1>5, <1>6, <1>7, <1>8

\* The pool: its back is taken, and a context that is not there is added.
LEMMA PoolLast ==
  ASSUME NEW S, NEW s \in Seq(S), s # <<>>, IsInjective(s)
  PROVE  /\ Front(s) \in Seq(S) /\ IsInjective(Front(s))
         /\ Last(s) \in S /\ Last(s) \in ToSet(s)
         /\ ToSet(Front(s)) = ToSet(s) \ {Last(s)}
<1>1. Len(s) \in Nat \ {0} /\ DOMAIN s = 1..Len(s) /\ \A i \in 1..Len(s) : s[i] \in S
  OBVIOUS
<1>2. /\ Last(s) = s[Len(s)] /\ Len(s) \in 1..Len(s)
      /\ Front(s) = SubSeq(s, 1, Len(s) - 1)
  BY <1>1 DEF Last, Front
<1>3. /\ Front(s) \in Seq(S) /\ DOMAIN Front(s) = 1..(Len(s) - 1)
      /\ \A i \in 1..(Len(s) - 1) : Front(s)[i] = s[i]
  BY <1>1, <1>2
<1>4. /\ \A i \in 1..(Len(s) - 1) : i \in 1..Len(s) /\ i # Len(s)
      /\ \A i \in 1..Len(s) : i = Len(s) \/ i \in 1..(Len(s) - 1)
  <2>1. ASSUME NEW n \in Nat \ {0}
        PROVE  /\ \A i \in 1..(n - 1) : i \in 1..n /\ i # n
               /\ \A i \in 1..n : i = n \/ i \in 1..(n - 1)
    OBVIOUS
  <2> QED BY <1>1, <2>1
<1>5. IsInjective(Front(s))
  BY <1>1, <1>3, <1>4 DEF IsInjective
<1>6. ToSet(Front(s)) = ToSet(s) \ {Last(s)}
  <2>1. ASSUME NEW x \in ToSet(Front(s)) PROVE x \in ToSet(s) /\ x # Last(s)
    <3>1. PICK i \in 1..(Len(s) - 1) : x = s[i]
      BY <1>3, <2>1 DEF ToSet
    <3> QED BY <1>1, <1>2, <1>4, <3>1 DEF IsInjective, ToSet
  <2>2. ASSUME NEW x \in ToSet(s), x # Last(s) PROVE x \in ToSet(Front(s))
    <3>1. PICK i \in 1..Len(s) : x = s[i]
      BY <1>1, <2>2 DEF ToSet
    <3>2. i \in 1..(Len(s) - 1)
      BY <1>2, <1>4, <2>2, <3>1
    <3> QED BY <1>3, <3>1, <3>2 DEF ToSet
  <2> QED BY <2>1, <2>2
<1> QED BY <1>1, <1>2, <1>3, <1>5, <1>6 DEF ToSet

LEMMA PoolAppend ==
  ASSUME NEW S, NEW s \in Seq(S), NEW x \in S
  PROVE  /\ Append(s, x) \in Seq(S)
         /\ ToSet(Append(s, x)) = ToSet(s) \cup {x}
         /\ IsInjective(s) /\ x \notin ToSet(s) => IsInjective(Append(s, x))
<1>1. /\ Append(s, x) \in Seq(S) /\ Len(s) \in Nat
      /\ DOMAIN s = 1..Len(s) /\ DOMAIN Append(s, x) = 1..(Len(s) + 1)
      /\ \A i \in 1..Len(s) : Append(s, x)[i] = s[i]
      /\ Append(s, x)[Len(s) + 1] = x
  OBVIOUS
<1>2. \A i \in 1..(Len(s) + 1) : i \in 1..Len(s) \/ i = Len(s) + 1
  BY <1>1
<1>3. 1..Len(s) \subseteq 1..(Len(s) + 1) /\ Len(s) + 1 \in 1..(Len(s) + 1)
  BY <1>1
<1>4. ToSet(Append(s, x)) = ToSet(s) \cup {x}
  BY <1>1, <1>2, <1>3 DEF ToSet
<1>5. ASSUME IsInjective(s), x \notin ToSet(s) PROVE IsInjective(Append(s, x))
  BY <1>1, <1>2, <1>5 DEF IsInjective, ToSet
<1> QED BY <1>1, <1>4, <1>5

-----------------------------------------------------------------------------
(* Facts about every state, and about the steps of one thread.             *)

\* Progress is run by one thread.
LEMMA OneLeader ==
  ASSUME Control, NEW t \in Threads, NEW u \in Threads, Leads(t), Leads(u)
  PROVE  t = u
BY DEF Control, ThreadOK

\* A request is completed by one thread at a time.
LEMMA OneCompleter ==
  ASSUME ~Colliding, Control, NEW t \in Threads, NEW u \in Threads, u # t,
         pc[t] \in {"fill", "complete", "ft_complete", "finish"},
         pc[u] \in {"fill", "complete", "ft_complete", "finish"}
  PROVE  call[u].req \in Requests /\ call[u].req # call[t].req
<1>1. call[t].req \in Requests /\ call[u].req \in Requests
  BY DEF Control, ThreadOK
<1>2. ASSUME call[u].req = call[t].req PROVE FALSE
  <2>1. t \in Completers(call[t].req) /\ u \in Completers(call[t].req)
    BY <1>2 DEF Completers
  <2> QED BY <1>1, <2>1 DEF Colliding
<1> QED BY <1>1, <1>2

\* A step of thread t leaves the others where they are.
Others(t) ==
  \A u \in Threads : u # t =>
    pc'[u] = pc[u] /\ call'[u] = call[u] /\ cancelling'[u] = cancelling[u]

\* The mutexes and leadership another thread has, or has not.
SameLocks(u) ==
  /\ leader' = u <=> leader = u
  /\ pending_ops_mutex' = u <=> pending_ops_mutex = u
  /\ FT => (ft_mutex' = u <=> ft_mutex = u)

LEMMA OtherPlace ==
  ASSUME NEW t \in Threads, NEW u \in Threads, u # t, Others(t)
  PROVE  /\ \A R : Returns(u, R)' <=> Returns(u, R)
         /\ Leads(u)' <=> Leads(u)
         /\ Posts(u)' <=> Posts(u)
         /\ Holds(u)' <=> Holds(u)
         /\ AtFront(u)' <=> AtFront(u)
         /\ Completes(u)' <=> Completes(u)
         /\ \A r : Cancels(u, r)' <=> Cancels(u, r)
<1>1. pc'[u] = pc[u] /\ call'[u] = call[u] /\ cancelling'[u] = cancelling[u]
  BY DEF Others
<1> QED BY <1>1 DEF Returns, Leads, Posts, Holds, AtFront, Completes, Cancels

LEMMA OtherThreadOK ==
  ASSUME Control, NEW t \in Threads, NEW u \in Threads, u # t, Others(t), SameLocks(u),
         workload' = workload, Leads(u) => comp' = comp,
         \A r \in Requests : Owner[r] = u => gen'[r] = gen[r]
  PROVE  ThreadOK(u)'
<1>1. pc'[u] = pc[u] /\ call'[u] = call[u] /\ cancelling'[u] = cancelling[u] /\ ThreadOK(u)
  BY DEF Others, Control
<1>2. Owner' = Owner
  BY DEF Owner
<1>3. /\ Returns(u, {"idle"})' <=> Returns(u, {"idle"})
      /\ Leads(u)' <=> Leads(u)
      /\ Posts(u)' <=> Posts(u)
      /\ Holds(u)' <=> Holds(u)
  BY OtherPlace
<1>4. cancelling[u].req # Null =>
        cancelling[u].req \in Requests /\ Owner[cancelling[u].req] = u
        /\ gen'[cancelling[u].req] = gen[cancelling[u].req]
  BY <1>1 DEF ThreadOK
<1>5. Returns(u, {"idle"}) =>
        call[u].req \in Requests /\ Owner[call[u].req] = u /\ gen'[call[u].req] = gen[call[u].req]
  BY <1>1 DEF ThreadOK, Returns
<1> QED BY <1>1, <1>2, <1>3, <1>4, <1>5 DEF ThreadOK, SameLocks

\* Another thread's operation runs on.
LEMMA OtherThreadLinks ==
  ASSUME Control, RunningOps, NEW t \in Threads, NEW u \in Threads, u # t, Others(t),
         pc[u] \in {"reset", "push", "fill", "complete", "ft_complete", "finish"}
         \/ (FT /\ pc[u] = "register") =>
           wait_context'[call[u].req] = wait_context[call[u].req]
           /\ gen'[call[u].req] = gen[call[u].req],
         pc[u] \in {"destroy", "injected", "failed"} /\ call[u].ctx \in Contexts =>
           (ctx_req[call[u].ctx] = Null => ctx_req'[call[u].ctx] = Null)
  PROVE  ThreadLinks(u)'
<1>1. pc'[u] = pc[u] /\ call'[u] = call[u] /\ ThreadOK(u) /\ ThreadLinks(u)
  BY DEF Others, Control, RunningOps
<1>2. Completes(u)' <=> Completes(u)
  BY OtherPlace
<1>3. Completes(u) => pc[u] \in {"fill", "complete", "ft_complete", "finish"}
  BY DEF Completes, Returns
<1> QED BY <1>1, <1>2, <1>3 DEF ThreadLinks

-----------------------------------------------------------------------------
(* How contexts move between the spots.                                    *)

Stay == \A d \in Contexts : \A k \in Spots : In(k, d)' <=> In(k, d)
MoveTo(c, l) ==
  \A d \in Contexts : \A k \in Spots : In(k, d)' <=> IF d = c THEN k = l ELSE In(k, d)
Leave(c) == \A d \in Contexts : \A k \in Spots : In(k, d)' <=> d # c /\ In(k, d)

LEMMA StayOneSpot == ASSUME OneSpot, Stay PROVE OneSpot'
BY DEF OneSpot, Stay
LEMMA MoveOneSpot == ASSUME OneSpot, NEW c, NEW l, MoveTo(c, l) PROVE OneSpot'
BY DEF OneSpot, MoveTo
LEMMA LeaveOneSpot == ASSUME OneSpot, NEW c, Leave(c) PROVE OneSpot'
BY DEF OneSpot, Leave

\* The types of what a step changes.
LEMMA PcType ==
  ASSUME TypeOK, NEW t \in Threads, NEW l \in PCs, pc' = [pc EXCEPT ![t] = l]
  PROVE  pc' \in [Threads -> PCs]
BY DEF TypeOK

LEMMA CallTypeStep ==
  ASSUME CallType, NEW t \in Threads, NEW r, NEW e, NEW o, NEW c, NEW l,
         call' = [call EXCEPT ![t] = [req |-> r, err |-> e, op |-> o, ctx |-> c, ret |-> l]]
  PROVE  CallType'
<1>1. call' = [u \in Threads |-> IF u = t THEN [req |-> r, err |-> e, op |-> o, ctx |-> c, ret |-> l]
                                 ELSE call[u]]
  BY DEF CallType
<1>2. \A u \in Threads : call'[u] = [req |-> call'[u].req, err |-> call'[u].err,
        op |-> call'[u].op, ctx |-> call'[u].ctx, ret |-> call'[u].ret]
  BY <1>1 DEF CallType
<1> QED BY <1>1, <1>2 DEF CallType

LEMMA TypeFrame ==
  ASSUME TypeOK, NEW t \in Threads, NEW l \in PCs, pc' = [pc EXCEPT ![t] = l],
         UNCHANGED <<workload, wait_context, gen, error, op_type, size, ended, ctx_req, pool,
                     created>>,
         leader' \in {leader, t, Null}, CallType',
         cancelling' = [u \in Threads |-> cancelling'[u]]
  PROVE  TypeOK'
<1>1. pc' \in [Threads -> PCs]
  BY PcType
<1>2. /\ workload' \in Workloads
      /\ wait_context' \in [Requests -> Contexts \cup {Null}]
      /\ ctx_req' \in [Contexts -> Requests \cup {Null}]
      /\ gen' \in [Requests -> Nat]
      /\ error' = [r \in Requests |-> error'[r]] /\ op_type' \in [Requests -> Types \cup {"NONE"}]
      /\ size' = [r \in Requests |-> size'[r]] /\ ended' = [r \in Requests |-> ended'[r]]
      /\ created' \subseteq Contexts /\ pool' \in Seq(Contexts)
      /\ leader' \in Threads \cup {Null}
  BY DEF TypeOK
<1> QED BY <1>1, <1>2 DEF TypeOK

\* Leadership and the mutexes pass between t and nobody.
LEMMA LocksFrame ==
  ASSUME NEW t \in Threads,
         leader' = leader \/ (leader \in {t, Null} /\ leader' \in {t, Null}),
         \/ pending_ops_mutex' = pending_ops_mutex
         \/ pending_ops_mutex \in {t, Null} /\ pending_ops_mutex' \in {t, Null},
         ft_mutex' = ft_mutex \/ (ft_mutex \in {t, Null} /\ ft_mutex' \in {t, Null})
  PROVE  \A u \in Threads : u # t => SameLocks(u)
BY LifecycleAssumption DEF SameLocks

LEMMA ControlFrame ==
  ASSUME Control, NEW t \in Threads, Others(t), ThreadOK(t)', workload' = workload,
         \A u \in Threads : u # t => SameLocks(u),
         \A u \in Threads : u # t /\ Leads(u) => comp' = comp,
         \A r \in Requests : Owner[r] # t => gen'[r] = gen[r],
         leader' = Null => comp' = <<>>
  PROVE  Control'
<1>1. ASSUME NEW u \in Threads, u # t PROVE ThreadOK(u)'
  BY <1>1, OtherThreadOK
<1> QED BY <1>1 DEF Control

LEMMA HeldFrame ==
  ASSUME NEW t \in Threads, Others(t), NEW c \in Contexts
  PROVE  /\ \A u \in Threads : u # t => (HeldBy(u, c)' <=> HeldBy(u, c))
         /\ In("held", c)' <=> HeldBy(t, c)' \/ \E u \in Threads : u # t /\ HeldBy(u, c)
         /\ In("held", c) <=> HeldBy(t, c) \/ \E u \in Threads : u # t /\ HeldBy(u, c)
<1>1. \A u \in Threads : u # t => (HeldBy(u, c)' <=> HeldBy(u, c))
  BY OtherPlace DEF HeldBy, Others
<1>2. In("held", c)' <=> \E u \in Threads : HeldBy(u, c)'
  BY DEF In
<1>3. In("held", c) <=> \E u \in Threads : HeldBy(u, c)
  BY DEF In
<1> HIDE DEF HeldBy, In
<1> QED BY <1>1, <1>2, <1>3

LEMMA FreshFrame ==
  ASSUME NEW t \in Threads, Others(t), NEW c \in Contexts,
         \A u \in Threads : u # t /\ pc[u] = "push" =>
           wait_context'[call[u].req] = wait_context[call[u].req]
  PROVE  /\ \A u \in Threads : u # t => (FreshBy(u, c)' <=> FreshBy(u, c))
         /\ In("fresh", c)' <=> FreshBy(t, c)' \/ \E u \in Threads : u # t /\ FreshBy(u, c)
         /\ In("fresh", c) <=> FreshBy(t, c) \/ \E u \in Threads : u # t /\ FreshBy(u, c)
<1>1. \A u \in Threads : u # t => (FreshBy(u, c)' <=> FreshBy(u, c))
  BY DEF FreshBy, Others
<1>2. In("fresh", c)' <=> \E u \in Threads : FreshBy(u, c)'
  BY DEF In
<1>3. In("fresh", c) <=> \E u \in Threads : FreshBy(u, c)
  BY DEF In
<1> HIDE DEF FreshBy, In
<1> QED BY <1>1, <1>2, <1>3

\* A step that leaves the data alone: only the place of thread t, its calls and
\* the locks it holds change.
Quiet(t) ==
  /\ Others(t)
  /\ UNCHANGED <<workload, wait_context, gen, op_type, error, size, ended, ctx_req, pool, created,
                 priority_ops, pending_ops, posted, cq, comp, ft_requests>>

LEMMA QuietStay ==
  ASSUME NEW t \in Threads, Quiet(t),
         \A c \in Contexts : (HeldBy(t, c)' <=> HeldBy(t, c)) /\ (FreshBy(t, c)' <=> FreshBy(t, c))
  PROVE  Stay
<1> SUFFICES ASSUME NEW c \in Contexts, NEW k \in Spots PROVE In(k, c)' <=> In(k, c)
  BY DEF Stay
<1>1. Others(t) /\ wait_context' = wait_context
  BY DEF Quiet
<1>2. CASE k = "held"
  BY <1>1, <1>2, HeldFrame
<1>3. CASE k = "fresh"
  BY <1>1, <1>3, FreshFrame
<1>4. CASE k \notin {"held", "fresh"}
  BY <1>4 DEF In, Quiet
<1> QED BY <1>2, <1>3, <1>4

\* What the pieces of the invariant about several threads need of a step of t
\* that leaves the requests alone.
RequestsSame ==
  UNCHANGED <<workload, wait_context, gen, op_type, error, size, ended, ctx_req, created,
              ft_requests>>

LEMMA RunningFrame ==
  ASSUME Control, RunningOps, NEW t \in Threads, Others(t), ThreadLinks(t)',
         UNCHANGED <<wait_context, gen, ctx_req>>
  PROVE  RunningOps'
<1>1. ASSUME NEW u \in Threads, u # t PROVE ThreadLinks(u)'
  BY <1>1, OtherThreadLinks
<1> QED BY <1>1 DEF RunningOps

LEMMA OutstandingFrame ==
  ASSUME Outstanding, NEW t \in Threads, Others(t), wait_context' = wait_context,
         \A r \in Requests, c \in Contexts : wait_context[r] = c /\ (\E k \in Spots : In(k, c)) =>
           (\E k \in Spots : In(k, c)') \/ Cancels(t, r)',
         \A r \in Requests : wait_context[r] # Null /\ Cancels(t, r) => Cancels(t, r)'
  PROVE  Outstanding'
<1> SUFFICES ASSUME NEW r \in Requests, NEW c \in Contexts, wait_context[r] = c
             PROVE  (\E k \in Spots : In(k, c)') \/ \E u \in Threads : Cancels(u, r)'
  BY DEF Outstanding
<1>1. wait_context[r] # Null
  BY LifecycleAssumption
<1>2. CASE \E k \in Spots : In(k, c)
  BY <1>2
<1>3. CASE \E u \in Threads : Cancels(u, r)
  <2>1. PICK u \in Threads : Cancels(u, r)
    BY <1>3
  <2>2. Cancels(u, r)'
    BY <1>1, <2>1, OtherPlace
  <2> QED BY <2>2
<1> QED BY <1>2, <1>3 DEF Outstanding

LEMMA FtFrame ==
  ASSUME FtExact, NEW t \in Threads, Others(t), UNCHANGED <<wait_context, ft_requests>>,
         pc[t] \notin {"reset", "push", "register", "finish"},
         pc'[t] \notin {"push", "register"}, FT => pc'[t] # "finish"
  PROVE  FtExact'
<1>1. \A u \in Threads : u # t => pc'[u] = pc[u] /\ call'[u] = call[u]
  BY DEF Others
<1>2. InTransit \subseteq InTransit'
  BY <1>1 DEF InTransit
<1>3. FtListNow'
  BY <1>2 DEF FtExact, FtListNow
<1>4. ASSUME FT, NEW u \in Threads, NEW v \in Threads, pc'[u] = "finish"
      PROVE  /\ call'[u].req \notin ft_requests'
             /\ pc'[v] \in {"push", "register"} => call'[v].req # call'[u].req
  BY <1>1, <1>4 DEF FtExact
<1> QED BY <1>3, <1>4 DEF FtExact

LEMMA SizeFrame ==
  ASSUME SizeExact, NEW t \in Threads, Others(t), SizeOK(t)',
         UNCHANGED <<wait_context, error, op_type, size>>
  PROVE  SizeExact'
<1>1. SizesNow'
  BY DEF SizeExact, SizesNow
<1>2. ASSUME NEW u \in Threads, u # t PROVE SizeOK(u)'
  BY <1>2, OtherPlace DEF SizeExact, SizeOK, Others
<1> QED BY <1>1, <1>2 DEF SizeExact

LEMMA FrontFrame ==
  ASSUME SpotsExact, NEW t \in Threads, Others(t),
         AtFront(t)' => SomeOp' /\ call'[t].ctx = FrontOp'.ctx,
         \A u \in Threads : u # t /\ AtFront(u) => UNCHANGED <<priority_ops, pending_ops>>
  PROVE  (\A u \in Threads : AtFront(u) => SomeOp /\ call[u].ctx = FrontOp.ctx)'
<1>1. ASSUME NEW u \in Threads, u # t, AtFront(u)'
      PROVE  SomeOp' /\ call'[u].ctx = FrontOp'.ctx
  <2>1. AtFront(u) /\ call'[u] = call[u]
    BY <1>1, OtherPlace DEF Others
  <2>2. SomeOp' = SomeOp /\ FrontOp' = FrontOp
    BY <1>1, <2>1 DEF SomeOp, FrontOp
  <2> QED BY <2>1, <2>2 DEF SpotsExact
<1> QED BY <1>1

\* A step of t that leaves the requests alone: contexts may move.
LEMMA StepFrame ==
  ASSUME IInv, NEW t \in Threads, Others(t),
         UNCHANGED <<workload, wait_context, gen, op_type, error, size, ended, ctx_req, created>>,
         TypeOK', QueueTypeOK', ThreadOK(t)', ThreadLinks(t)', OneSpot', SpotsExact', OpsExact',
         \A u \in Threads : u # t => SameLocks(u),
         \A u \in Threads : u # t /\ Leads(u) => comp' = comp,
         leader' = Null => comp' = <<>>,
         \A c \in Contexts : c \in ToSet(pool') => ctx_req[c] = Null,
         \A r \in Requests, c \in Contexts : wait_context[r] = c /\ (\E k \in Spots : In(k, c)) =>
           (\E k \in Spots : In(k, c)') \/ Cancels(t, r)',
         \A r \in Requests : wait_context[r] # Null /\ Cancels(t, r) => Cancels(t, r)',
         FtExact', SizeOK(t)', CallbackKept'
  PROVE  IInv'
<1>0. /\ Control /\ Links /\ RunningOps /\ Outstanding /\ SizeExact /\ OwnOpNow
  BY DEF IInv
<1>1. Control'
  BY <1>0, ControlFrame
<1>2. Links'
  BY <1>0 DEF Links
<1>3. RunningOps'
  BY <1>0, RunningFrame
<1>4. Outstanding'
  BY <1>0, OutstandingFrame
<1>5. SizeExact'
  BY <1>0, SizeFrame
<1>6. OwnOpNow'
  BY <1>0 DEF OwnOpNow
<1> QED BY <1>1, <1>2, <1>3, <1>4, <1>5, <1>6 DEF IInv

LEMMA MoveStep ==
  ASSUME IInv, NEW t \in Threads, Others(t), RequestsSame,
         TypeOK', QueueTypeOK', ThreadOK(t)', ThreadLinks(t)', OneSpot', SpotsExact', OpsExact',
         \A u \in Threads : u # t => SameLocks(u),
         \A u \in Threads : u # t /\ Leads(u) => comp' = comp,
         leader' = Null => comp' = <<>>,
         \A c \in Contexts : c \in ToSet(pool') => ctx_req[c] = Null,
         \A r \in Requests, c \in Contexts : wait_context[r] = c /\ (\E k \in Spots : In(k, c)) =>
           (\E k \in Spots : In(k, c)') \/ Cancels(t, r)',
         \A r \in Requests : wait_context[r] # Null /\ Cancels(t, r) => Cancels(t, r)',
         pc[t] \notin {"reset", "push", "register", "finish"},
         pc'[t] \notin {"push", "register"}, FT => pc'[t] # "finish",
         SizeOK(t)', CallbackKept'
  PROVE  IInv'
<1>1. /\ UNCHANGED <<workload, wait_context, gen, op_type, error, size, ended, ctx_req, created>>
      /\ ft_requests' = ft_requests
  BY DEF RequestsSame
<1>2. FtExact'
  BY <1>1, FtFrame DEF IInv
<1> QED BY <1>1, <1>2, StepFrame

LEMMA QuietStep ==
  ASSUME IInv, NEW t \in Threads, Quiet(t), TypeOK', ThreadOK(t)', ThreadLinks(t)',
         \A u \in Threads : u # t => SameLocks(u),
         leader' = Null => comp = <<>>,
         \A c \in Contexts : (HeldBy(t, c)' <=> HeldBy(t, c)) /\ (FreshBy(t, c)' <=> FreshBy(t, c)),
         AtFront(t)' => SomeOp /\ call'[t].ctx = FrontOp.ctx,
         \A r \in Requests : wait_context[r] # Null /\ Cancels(t, r) => Cancels(t, r)',
         pc[t] \notin {"reset", "push", "register", "finish"},
         pc'[t] \notin {"push", "register"}, FT => pc'[t] # "finish",
         SizeOK(t)', callbacks' \in Seq(Requests \X Nat), CallbackKept'
  PROVE  IInv'
<1>0. /\ Others(t) /\ RequestsSame /\ ctx_req' = ctx_req /\ pool' = pool /\ created' = created
      /\ priority_ops' = priority_ops /\ pending_ops' = pending_ops
      /\ posted' = posted /\ cq' = cq /\ comp' = comp /\ gen' = gen /\ op_type' = op_type
  BY DEF Quiet, RequestsSame
<1>1. QueueTypeOK'
  BY <1>0 DEF IInv, QueueTypeOK
<1>2. Stay
  BY QuietStay
<1>3. OneSpot'
  BY <1>2, StayOneSpot DEF IInv
<1>4. SpotsExact'
  <2>1. /\ NoRepeat(priority_ops)' /\ NoRepeat(pending_ops)' /\ NoRepeat(cq)' /\ NoRepeat(comp)'
        /\ IsInjective(pool)'
        /\ (\A p, q \in posted : p.ctx = q.ctx => p = q)'
    BY <1>0 DEF IInv, SpotsExact
  <2>2. (\A c \in Contexts : \A k \in Spots : In(k, c) => c \in created)'
    BY <1>0, <1>2 DEF IInv, SpotsExact, Stay
  <2>3. SomeOp' = SomeOp /\ FrontOp' = FrontOp
    BY <1>0 DEF SomeOp, FrontOp
  <2>4. (\A u \in Threads : AtFront(u) => SomeOp /\ call[u].ctx = FrontOp.ctx)'
    BY <1>0, <2>3, FrontFrame DEF IInv
  <2> QED BY <2>1, <2>2, <2>4 DEF SpotsExact
<1>5. OpsExact'
  BY <1>0 DEF IInv, OpsExact
<1>6. \A c \in Contexts : c \in ToSet(pool') => ctx_req[c] = Null
  BY <1>0 DEF IInv, Links
<1>7. \A c \in Contexts : (\E k \in Spots : In(k, c)) => (\E k \in Spots : In(k, c)')
  BY <1>2 DEF Stay
<1> QED BY <1>0, <1>1, <1>3, <1>4, <1>5, <1>6, <1>7, MoveStep

-----------------------------------------------------------------------------
(* The steps that leave the data alone.                                    *)

\* Where a thread outside complete is.
LEMMA PlainPlace ==
  ASSUME NEW t, pc[t] \notin {"complete", "ft_complete", "finish"}
  PROVE  /\ \A R : ~Returns(t, R)
         /\ Leads(t) <=> pc[t] \in {"read", "entry", "fill", "destroy", "post", "injected",
                                    "failed", "callbacks"}
         /\ Posts(t) <=> pc[t] \in {"post", "injected", "failed"}
         /\ Holds(t) <=> pc[t] \in {"fill", "destroy"}
         /\ AtFront(t) <=> pc[t] \in {"injected", "failed"}
         /\ Completes(t) <=> pc[t] = "fill"
         /\ \A r : Cancels(t, r) <=> cancelling[t].req = r
BY DEF Returns, Leads, Posts, Holds, AtFront, Completes, Cancels

LEMMA PlainPlaceAfter ==
  ASSUME NEW t, pc'[t] \notin {"complete", "ft_complete", "finish"}
  PROVE  /\ \A R : ~Returns(t, R)'
         /\ Leads(t)' <=> pc'[t] \in {"read", "entry", "fill", "destroy", "post", "injected",
                                      "failed", "callbacks"}
         /\ Posts(t)' <=> pc'[t] \in {"post", "injected", "failed"}
         /\ Holds(t)' <=> pc'[t] \in {"fill", "destroy"}
         /\ AtFront(t)' <=> pc'[t] \in {"injected", "failed"}
         /\ Completes(t)' <=> pc'[t] = "fill"
         /\ \A r : Cancels(t, r)' <=> cancelling'[t].req = r
BY DEF Returns, Leads, Posts, Holds, AtFront, Completes, Cancels

\* A plain place needs little of SizeOK, HeldBy and FreshBy.
LEMMA Idle ==
  ASSUME NEW t, pc'[t] \notin {"complete", "ft_complete", "finish", "fill", "destroy", "push"}
  PROVE  SizeOK(t)' /\ \A c : ~HeldBy(t, c)' /\ ~FreshBy(t, c)'
BY PlainPlaceAfter DEF SizeOK, HeldBy, FreshBy

LEMMA IdleBefore ==
  ASSUME NEW t, pc[t] \notin {"complete", "ft_complete", "finish", "fill", "destroy", "push"}
  PROVE  \A c : ~HeldBy(t, c) /\ ~FreshBy(t, c)
BY PlainPlace DEF HeldBy, FreshBy

LEMMA SameCallbacks ==
  ASSUME CallbackKept, UNCHANGED <<gen, wait_context, callbacks, called>>
  PROVE  CallbackKept'
BY DEF CallbackKept

LEMMA ProgressBeginStep ==
  ASSUME IInv, NEW t \in Threads, ProgressBegin(t)
  PROVE  IInv'
<1>0. TypeOK /\ ThreadOK(t) /\ QueueTypeOK /\ CallbackKept /\ (leader = Null => comp = <<>>)
  BY DEF IInv, Control
<1>1. /\ t \in workload.threads /\ pc[t] = "idle" /\ pc'[t] = "read"
      /\ call' = call /\ cancelling' = cancelling /\ Quiet(t)
      /\ leader = Null /\ leader' = t
      /\ UNCHANGED <<callbacks, called, ft_mutex, pending_ops_mutex>>
  BY <1>0 DEF ProgressBegin, Goto, TypeOK, CallType, Quiet, Others, reqVars, ctxVars, queueVars, fabricVars,
              readVars, cbVars
<1>2. TypeOK'
  <2>1. UNCHANGED <<workload, wait_context, gen, error, op_type, size, ended, ctx_req, pool, created>>
    BY <1>1 DEF Quiet
  <2>2. \E l \in PCs : pc' = [pc EXCEPT ![t] = l]
    BY DEF ProgressBegin, Goto, PCs
  <2>3. CallType' /\ cancelling' = [u \in Threads |-> cancelling'[u]]
    BY <1>0, <1>1 DEF ProgressBegin, TypeOK, CallType
  <2> QED BY <1>0, <1>1, <2>1, <2>2, <2>3, TypeFrame
<1>3. ThreadOK(t)'
  BY <1>0, <1>1, PlainPlace, PlainPlaceAfter, LifecycleAssumption DEF ThreadOK, Quiet, Owner
<1>4. ThreadLinks(t)'
  BY <1>1, PlainPlaceAfter DEF ThreadLinks
<1>5. \A u \in Threads : u # t => SameLocks(u)
  BY <1>1, LocksFrame
<1>6. CallbackKept' /\ callbacks' \in Seq(Requests \X Nat)
  BY <1>0, <1>1, SameCallbacks DEF Quiet, QueueTypeOK
<1>7. /\ \A r : Cancels(t, r) => Cancels(t, r)'
      /\ ~AtFront(t)' /\ leader' # Null
  BY <1>1, PlainPlace, PlainPlaceAfter, LifecycleAssumption
<1> QED BY <1>1, <1>2, <1>3, <1>4, <1>5, <1>6, <1>7, Idle, IdleBefore, QuietStep

LEMMA EndBatchStep ==
  ASSUME IInv, NEW t \in Threads, EndBatch(t)
  PROVE  IInv'
<1>0. TypeOK /\ ThreadOK(t) /\ QueueTypeOK /\ CallbackKept
  BY DEF IInv, Control
<1>1. /\ pc[t] = "entry" /\ pc'[t] \in {"read", "post"} /\ comp = <<>>
      /\ pc'[t] = "read" => pending_ops_mutex' = pending_ops_mutex
      /\ pc'[t] = "post" => pending_ops_mutex = Null /\ pending_ops_mutex' = t
      /\ call' = call /\ cancelling' = cancelling /\ Quiet(t)
      /\ UNCHANGED <<callbacks, called, ft_mutex, leader>>
  BY <1>0 DEF EndBatch, Goto, TypeOK, CallType, Quiet, Others, reqVars, ctxVars, queueVars, fabricVars,
              readVars, cbVars
<1>2. TypeOK'
  <2>1. UNCHANGED <<workload, wait_context, gen, error, op_type, size, ended, ctx_req, pool, created>>
    BY <1>1 DEF Quiet
  <2>2. \E l \in PCs : pc' = [pc EXCEPT ![t] = l]
    BY DEF EndBatch, Goto, PCs
  <2>3. CallType' /\ cancelling' = [u \in Threads |-> cancelling'[u]]
    BY <1>0, <1>1 DEF EndBatch, TypeOK, CallType
  <2> QED BY <1>0, <1>1, <2>1, <2>2, <2>3, TypeFrame
<1>3. ThreadOK(t)'
  BY <1>0, <1>1, PlainPlace, PlainPlaceAfter, LifecycleAssumption DEF ThreadOK, Quiet, Owner
<1>4. ThreadLinks(t)'
  BY <1>1, PlainPlaceAfter DEF ThreadLinks
<1>5. \A u \in Threads : u # t => SameLocks(u)
  BY <1>1, LocksFrame
<1>6. CallbackKept' /\ callbacks' \in Seq(Requests \X Nat)
  BY <1>0, <1>1, SameCallbacks DEF Quiet, QueueTypeOK
<1>7. /\ \A r : Cancels(t, r) => Cancels(t, r)'
      /\ ~AtFront(t)'
  BY <1>1, PlainPlace, PlainPlaceAfter, LifecycleAssumption
<1> QED BY <1>1, <1>2, <1>3, <1>4, <1>5, <1>6, <1>7, Idle, IdleBefore, QuietStep

LEMMA PostEndStep ==
  ASSUME IInv, NEW t \in Threads, PostEnd(t)
  PROVE  IInv'
<1>0. TypeOK /\ ThreadOK(t) /\ QueueTypeOK /\ CallbackKept
  BY DEF IInv, Control
<1>1. /\ pc[t] = "post" /\ pc'[t] = "callbacks" /\ pending_ops_mutex' = Null
      /\ call' = call /\ cancelling' = cancelling /\ Quiet(t)
      /\ UNCHANGED <<callbacks, called, ft_mutex, leader>>
  BY <1>0 DEF PostEnd, Goto, TypeOK, CallType, Quiet, Others, reqVars, ctxVars, queueVars, fabricVars,
              readVars, cbVars
<1>2. TypeOK'
  <2>1. UNCHANGED <<workload, wait_context, gen, error, op_type, size, ended, ctx_req, pool, created>>
    BY <1>1 DEF Quiet
  <2>2. \E l \in PCs : pc' = [pc EXCEPT ![t] = l]
    BY DEF PostEnd, Goto, PCs
  <2>3. CallType' /\ cancelling' = [u \in Threads |-> cancelling'[u]]
    BY <1>0, <1>1 DEF PostEnd, TypeOK, CallType
  <2> QED BY <1>0, <1>1, <2>1, <2>2, <2>3, TypeFrame
<1>3. leader = t /\ pending_ops_mutex = t /\ comp = <<>>
  BY <1>0, <1>1, PlainPlace DEF ThreadOK
<1>4. ThreadOK(t)'
  BY <1>0, <1>1, <1>3, PlainPlace, PlainPlaceAfter, LifecycleAssumption DEF ThreadOK, Quiet, Owner
<1>5. ThreadLinks(t)'
  BY <1>1, PlainPlaceAfter DEF ThreadLinks
<1>6. \A u \in Threads : u # t => SameLocks(u)
  BY <1>1, <1>3, LocksFrame
<1>7. CallbackKept' /\ callbacks' \in Seq(Requests \X Nat)
  BY <1>0, <1>1, SameCallbacks DEF Quiet, QueueTypeOK
<1>8. /\ \A r : Cancels(t, r) => Cancels(t, r)'
      /\ ~AtFront(t)'
  BY <1>1, PlainPlace, PlainPlaceAfter, LifecycleAssumption
<1> QED BY <1>1, <1>2, <1>3, <1>4, <1>5, <1>6, <1>7, <1>8, Idle, IdleBefore, QuietStep

LEMMA RunCallbacksStep ==
  ASSUME IInv, NEW t \in Threads, RunCallbacks(t)
  PROVE  IInv'
<1>0. TypeOK /\ ThreadOK(t) /\ QueueTypeOK /\ CallbackKept
  BY DEF IInv, Control
<1>1. /\ pc[t] = "callbacks" /\ leader' = Null
      /\ cancelling[t].req = Null => pc'[t] = "idle"
      /\ cancelling[t].req # Null => pc'[t] = "cancel_complete"
      /\ call' = call /\ cancelling' = cancelling /\ Quiet(t)
      /\ UNCHANGED <<ft_mutex, pending_ops_mutex>>
  BY <1>0 DEF RunCallbacks, Goto, TypeOK, CallType, Quiet, Others, reqVars, ctxVars, queueVars, fabricVars,
              readVars, cbVars
<1>2. TypeOK'
  <2>1. UNCHANGED <<workload, wait_context, gen, error, op_type, size, ended, ctx_req, pool, created>>
    BY <1>1 DEF Quiet
  <2>2. \E l \in PCs : pc' = [pc EXCEPT ![t] = l]
    BY DEF RunCallbacks, Goto, PCs
  <2> QED BY <1>0, <1>1, <2>1, <2>2, TypeFrame DEF TypeOK, CallType
<1>3. leader = t /\ comp = <<>>
  BY <1>0, <1>1, PlainPlace DEF ThreadOK
<1>4. ThreadOK(t)'
  BY <1>0, <1>1, <1>3, PlainPlace, PlainPlaceAfter, LifecycleAssumption DEF ThreadOK, Quiet, Owner
<1>5. ThreadLinks(t)'
  BY <1>1, PlainPlaceAfter DEF ThreadLinks
<1>6. \A u \in Threads : u # t => SameLocks(u)
  BY <1>1, <1>3, LocksFrame
<1>7. CallbackKept' /\ callbacks' \in Seq(Requests \X Nat)
  <2>1. CASE callbacks' = callbacks /\ called' = called
    BY <1>0, <1>1, <2>1, SameCallbacks DEF Quiet, QueueTypeOK
  <2>2. CASE callbacks' = <<>> /\ called' = called \cup ToSet(callbacks)
    <3>1. \A x : Contains(callbacks, x) => x \in ToSet(callbacks)
      BY <1>0 DEF Contains, ToSet, QueueTypeOK
    <3>2. gen' = gen /\ wait_context' = wait_context
      BY <1>1 DEF Quiet
    <3> QED BY <1>0, <2>2, <3>1, <3>2 DEF CallbackKept
  <2> QED BY <2>1, <2>2 DEF RunCallbacks, cbVars
<1>8. /\ \A r : Cancels(t, r) => Cancels(t, r)'
      /\ ~AtFront(t)'
  BY <1>1, PlainPlace, PlainPlaceAfter, LifecycleAssumption
<1> QED BY <1>1, <1>2, <1>3, <1>4, <1>5, <1>6, <1>7, <1>8, Idle, IdleBefore, QuietStep

LEMMA CancelLockedStep ==
  ASSUME IInv, NEW t \in Threads, CancelLocked(t)
  PROVE  IInv'
<1>0. TypeOK /\ ThreadOK(t) /\ QueueTypeOK /\ CallbackKept /\ (leader = Null => comp = <<>>)
  BY DEF IInv, Control
<1>1. /\ pc[t] = "cancel"
      /\ \/ /\ wait_context[cancelling[t].req] = Null /\ pc'[t] = "idle"
            /\ cancelling'[t].req = Null
         \/ pc'[t] = "cancel_progress" /\ cancelling' = cancelling
      /\ call' = call /\ Quiet(t)
      /\ UNCHANGED <<callbacks, called, ft_mutex, pending_ops_mutex, leader>>
  BY <1>0 DEF CancelLocked, Goto, NoCancel, TypeOK, CallType, Quiet, Others, reqVars, ctxVars, queueVars,
              readVars, cbVars, lockVars
<1>2. TypeOK'
  <2>1. UNCHANGED <<workload, wait_context, gen, error, op_type, size, ended, ctx_req, pool, created>>
    BY <1>1 DEF Quiet
  <2>2. \E l \in PCs : pc' = [pc EXCEPT ![t] = l]
    BY DEF CancelLocked, Goto, PCs
  <2>3. CallType' /\ cancelling' = [u \in Threads |-> cancelling'[u]]
    BY <1>0, <1>1 DEF CancelLocked, TypeOK, CallType
  <2> QED BY <1>0, <1>1, <2>1, <2>2, <2>3, TypeFrame
<1>3. ThreadOK(t)'
  BY <1>0, <1>1, PlainPlace, PlainPlaceAfter, LifecycleAssumption DEF ThreadOK, Quiet, Owner
<1>4. ThreadLinks(t)'
  BY <1>1, PlainPlaceAfter DEF ThreadLinks
<1>5. \A u \in Threads : u # t => SameLocks(u)
  BY <1>1, LocksFrame
<1>6. CallbackKept' /\ callbacks' \in Seq(Requests \X Nat)
  BY <1>0, <1>1, SameCallbacks DEF Quiet, QueueTypeOK
<1>7. /\ \A r \in Requests : wait_context[r] # Null /\ Cancels(t, r) => Cancels(t, r)'
      /\ ~AtFront(t)'
  BY <1>1, PlainPlace, PlainPlaceAfter, LifecycleAssumption
<1> QED BY <1>0, <1>1, <1>2, <1>3, <1>4, <1>5, <1>6, <1>7, Idle, IdleBefore, QuietStep

LEMMA CancelProgressStep ==
  ASSUME IInv, NEW t \in Threads, CancelProgress(t)
  PROVE  IInv'
<1>0. TypeOK /\ ThreadOK(t) /\ QueueTypeOK /\ CallbackKept /\ (leader = Null => comp = <<>>)
  BY DEF IInv, Control
<1>1. /\ pc[t] = "cancel_progress"
      /\ \/ leader = Null /\ leader' = t /\ pc'[t] = "read"
         \/ leader' = leader /\ pc'[t] = "cancel_complete"
      /\ call' = call /\ cancelling' = cancelling /\ Quiet(t)
      /\ UNCHANGED <<callbacks, called, ft_mutex, pending_ops_mutex>>
  BY <1>0 DEF CancelProgress, Goto, TypeOK, CallType, Quiet, Others, reqVars, ctxVars, queueVars,
              fabricVars, readVars, cbVars
<1>2. TypeOK'
  <2>1. UNCHANGED <<workload, wait_context, gen, error, op_type, size, ended, ctx_req, pool, created>>
    BY <1>1 DEF Quiet
  <2>2. \E l \in PCs : pc' = [pc EXCEPT ![t] = l]
    BY DEF CancelProgress, Goto, PCs
  <2>3. CallType' /\ cancelling' = [u \in Threads |-> cancelling'[u]]
    BY <1>0, <1>1 DEF CancelProgress, TypeOK, CallType
  <2> QED BY <1>0, <1>1, <2>1, <2>2, <2>3, TypeFrame
<1>3. ThreadOK(t)'
  BY <1>0, <1>1, PlainPlace, PlainPlaceAfter, LifecycleAssumption DEF ThreadOK, Quiet, Owner
<1>4. ThreadLinks(t)'
  BY <1>1, PlainPlaceAfter DEF ThreadLinks
<1>5. \A u \in Threads : u # t => SameLocks(u)
  BY <1>1, LocksFrame
<1>6. CallbackKept' /\ callbacks' \in Seq(Requests \X Nat)
  BY <1>0, <1>1, SameCallbacks DEF Quiet, QueueTypeOK
<1>7. /\ \A r : Cancels(t, r) => Cancels(t, r)'
      /\ ~AtFront(t)'
  BY <1>1, PlainPlace, PlainPlaceAfter, LifecycleAssumption
<1> QED BY <1>0, <1>1, <1>2, <1>3, <1>4, <1>5, <1>6, <1>7, Idle, IdleBefore, QuietStep

LEMMA CancelCompleteStep ==
  ASSUME IInv, NEW t \in Threads, CancelComplete(t)
  PROVE  IInv'
<1>0. TypeOK /\ ThreadOK(t) /\ QueueTypeOK /\ CallbackKept /\ (leader = Null => comp = <<>>)
  BY DEF IInv, Control
<1>1. /\ pc[t] = "cancel_complete" /\ pc'[t] = "complete"
      /\ call'[t] = [req |-> cancelling[t].req, err |-> "CANCELED", op |-> cancelling[t].op,
                     ctx |-> Null, ret |-> "idle"]
      /\ cancelling'[t].req = Null /\ Quiet(t)
      /\ UNCHANGED <<callbacks, called, ft_mutex, pending_ops_mutex, leader>>
  BY <1>0 DEF CancelComplete, EnterComplete, Goto, NoCancel, TypeOK, CallType, Quiet, Others, reqVars,
              ctxVars, queueVars, fabricVars, readVars, cbVars, lockVars
<1>2. TypeOK'
  <2>1. UNCHANGED <<workload, wait_context, gen, error, op_type, size, ended, ctx_req, pool, created>>
    BY <1>1 DEF Quiet
  <2>2. pc' = [pc EXCEPT ![t] = "complete"] /\ "complete" \in PCs
    BY DEF CancelComplete, Goto, PCs
  <2>3. CallType'
    BY <1>0, CallTypeStep DEF TypeOK, CancelComplete, EnterComplete
  <2>4. cancelling' = [u \in Threads |-> cancelling'[u]]
    BY <1>0 DEF TypeOK, CancelComplete
  <2> QED BY <1>0, <1>1, <2>1, <2>2, <2>3, <2>4, TypeFrame
<1>3. /\ Returns(t, {"idle"})' /\ ~Leads(t)' /\ ~Posts(t)' /\ ~Holds(t)' /\ ~AtFront(t)'
      /\ ~Completes(t)' /\ ~Returns(t, {"destroy"})' /\ ~Returns(t, {"injected"})'
      /\ \A r : Cancels(t, r) => Cancels(t, r)'
  BY <1>1, PlainPlace
     DEF Returns, Leads, Posts, Holds, AtFront, Completes, Cancels
<1>4. ThreadOK(t)'
  BY <1>0, <1>1, <1>3, PlainPlace, LifecycleAssumption DEF ThreadOK, Quiet, Owner
<1>5. ThreadLinks(t)'
  BY <1>1, <1>3 DEF ThreadLinks
<1>6. \A u \in Threads : u # t => SameLocks(u)
  BY <1>1, LocksFrame
<1>7. CallbackKept' /\ callbacks' \in Seq(Requests \X Nat)
  BY <1>0, <1>1, SameCallbacks DEF Quiet, QueueTypeOK
<1>8. SizeOK(t)' /\ \A c : ~HeldBy(t, c)' /\ ~FreshBy(t, c)'
  BY <1>1, <1>3 DEF SizeOK, HeldBy, FreshBy
<1> QED BY <1>0, <1>1, <1>2, <1>3, <1>4, <1>5, <1>6, <1>7, <1>8, IdleBefore, QuietStep

LEMMA PostBeginStep ==
  ASSUME IInv, NEW t \in Threads, NEW r \in Requests, PostBegin(t, r)
  PROVE  IInv'
<1>0. TypeOK /\ ThreadOK(t) /\ QueueTypeOK /\ CallbackKept /\ (leader = Null => comp = <<>>)
  BY DEF IInv, Control
<1>1. /\ pc[t] = "idle" /\ pc'[t] = "reset" /\ Owner[r] = t /\ wait_context[r] = Null
      /\ call'[t].req = r /\ cancelling' = cancelling /\ Quiet(t)
      /\ UNCHANGED <<callbacks, called, ft_mutex, pending_ops_mutex, leader>>
  BY <1>0 DEF PostBegin, Goto, TypeOK, CallType, Quiet, Others, reqVars, ctxVars, queueVars, fabricVars,
              readVars, cbVars
<1>2. TypeOK'
  <2>1. UNCHANGED <<workload, wait_context, gen, error, op_type, size, ended, ctx_req, pool, created>>
    BY <1>1 DEF Quiet
  <2>2. pc' = [pc EXCEPT ![t] = "reset"] /\ "reset" \in PCs
    BY DEF PostBegin, Goto, PCs
  <2>3. CallType
    BY <1>0 DEF TypeOK
  <2>4. call' = [call EXCEPT ![t] = [req |-> r, err |-> call[t].err, op |-> call[t].op,
                                     ctx |-> call[t].ctx, ret |-> call[t].ret]]
    <3>1. call[t] = [req |-> call[t].req, err |-> call[t].err, op |-> call[t].op,
                     ctx |-> call[t].ctx, ret |-> call[t].ret]
      BY <2>3 DEF CallType
    <3>2. [call[t] EXCEPT !.req = r] = [req |-> r, err |-> call[t].err, op |-> call[t].op,
                                        ctx |-> call[t].ctx, ret |-> call[t].ret]
      BY <3>1
    <3>3. call' = [call EXCEPT ![t] = [call[t] EXCEPT !.req = r]]
      BY DEF PostBegin
    <3> QED BY <3>2, <3>3
  <2>5. CallType'
    BY <2>3, <2>4, CallTypeStep
  <2> QED BY <1>0, <1>1, <2>1, <2>2, <2>5, TypeFrame DEF TypeOK
<1>3. t \in workload.threads
  BY <1>0, <1>1, LifecycleAssumption DEF TypeOK, Owner
<1>4. ThreadOK(t)'
  BY <1>0, <1>1, <1>3, PlainPlace, PlainPlaceAfter, LifecycleAssumption
     DEF ThreadOK, Quiet, Owner
<1>5. ThreadLinks(t)'
  BY <1>1, PlainPlaceAfter DEF ThreadLinks, Quiet
<1>6. \A u \in Threads : u # t => SameLocks(u)
  BY <1>1, LocksFrame
<1>7. CallbackKept' /\ callbacks' \in Seq(Requests \X Nat)
  BY <1>0, <1>1, SameCallbacks DEF Quiet, QueueTypeOK
<1>8. /\ \A q : Cancels(t, q) => Cancels(t, q)'
      /\ ~AtFront(t)'
  BY <1>1, PlainPlace, PlainPlaceAfter, LifecycleAssumption
<1> QED BY <1>0, <1>1, <1>2, <1>3, <1>4, <1>5, <1>6, <1>7, <1>8, Idle, IdleBefore, QuietStep

LEMMA CompleteCheckStep ==
  ASSUME IInv, NEW t \in Threads, CompleteCheck(t)
  PROVE  IInv'
<1>0. /\ TypeOK /\ ThreadOK(t) /\ ThreadLinks(t) /\ QueueTypeOK /\ CallbackKept /\ SizeOK(t)
      /\ leader = Null => comp = <<>>
  BY DEF IInv, Control, RunningOps, SizeExact
<1>1. /\ pc[t] = "complete" /\ call' = call /\ cancelling' = cancelling /\ Quiet(t)
      /\ wait_context[call[t].req] = Null => pc'[t] = call[t].ret
      /\ wait_context[call[t].req] # Null => pc'[t] = IF FT THEN "ft_complete" ELSE "finish"
      /\ UNCHANGED <<callbacks, called, ft_mutex, pending_ops_mutex, leader>>
  BY <1>0 DEF CompleteCheck, Goto, TypeOK, CallType, Quiet, Others, reqVars, ctxVars, queueVars, fabricVars,
              readVars, cbVars, lockVars
<1>2. TypeOK'
  <2>1. UNCHANGED <<workload, wait_context, gen, error, op_type, size, ended, ctx_req, pool, created>>
    BY <1>1 DEF Quiet
  <2>2. \E l \in PCs : pc' = [pc EXCEPT ![t] = l]
    BY <1>0, <1>1 DEF CompleteCheck, Goto, PCs, ThreadOK
  <2> QED BY <1>0, <1>1, <2>1, <2>2, TypeFrame DEF TypeOK, CallType
<1>3. wait_context[call[t].req] = Null => Returns(t, {"idle"}) /\ pc'[t] = "idle"
  BY <1>0, <1>1, LifecycleAssumption DEF ThreadLinks, Completes, Returns, ThreadOK
<1>4. \A u \in Threads : u # t => SameLocks(u)
  BY <1>1, LocksFrame
<1>5. CallbackKept' /\ callbacks' \in Seq(Requests \X Nat)
  BY <1>0, <1>1, SameCallbacks DEF Quiet, QueueTypeOK
<1>6. CASE wait_context[call[t].req] = Null
  <2>1. /\ pc'[t] = "idle" /\ call[t].ret = "idle" /\ cancelling[t].req = Null
        /\ ~Leads(t) /\ ~Posts(t) /\ ~Holds(t)
    BY <1>0, <1>3, <1>6 DEF ThreadOK, Returns, Leads, Posts, Holds
  <2>2. ThreadOK(t)'
    BY <1>0, <1>1, <2>1, PlainPlaceAfter DEF ThreadOK, Quiet
  <2>3. ThreadLinks(t)'
    BY <2>1, PlainPlaceAfter DEF ThreadLinks
  <2>4. \A r \in Requests : wait_context[r] # Null /\ Cancels(t, r) => Cancels(t, r)'
    BY <1>0, <1>6, <2>1, LifecycleAssumption DEF Cancels, Returns
  <2>5. \A c \in Contexts : ~HeldBy(t, c) /\ ~FreshBy(t, c)
    BY <1>1, <2>1 DEF HeldBy, FreshBy
  <2> QED BY <1>0, <1>1, <1>2, <1>4, <1>5, <2>1, <2>2, <2>3, <2>4, <2>5, Idle,
             PlainPlaceAfter, QuietStep
<1>7. CASE wait_context[call[t].req] # Null
  <2>1. pc'[t] \in {"ft_complete", "finish"} /\ (FT <=> pc'[t] = "ft_complete")
    BY <1>1, <1>7
  <2>2. /\ \A R : Returns(t, R)' <=> Returns(t, R)
        /\ Leads(t)' <=> Leads(t)
        /\ Posts(t)' <=> Posts(t)
        /\ Holds(t)' <=> Holds(t)
        /\ AtFront(t)' <=> AtFront(t)
        /\ Completes(t)' <=> Completes(t)
        /\ \A r : Cancels(t, r)' <=> Cancels(t, r)
    BY <1>1, <2>1 DEF Returns, Leads, Posts, Holds, AtFront, Completes, Cancels
  <2>3. ThreadOK(t)'
    BY <1>0, <1>1, <2>1, <2>2 DEF ThreadOK, Quiet, Owner
  <2>4. ThreadLinks(t)'
    BY <1>0, <1>1, <1>7, <2>1, <2>2 DEF ThreadLinks, Quiet
  <2>5. \A c \in Contexts : (HeldBy(t, c)' <=> HeldBy(t, c)) /\ (FreshBy(t, c)' <=> FreshBy(t, c))
    BY <1>1, <2>1, <2>2 DEF HeldBy, FreshBy, Quiet
  <2>6. AtFront(t)' => SomeOp /\ call'[t].ctx = FrontOp.ctx
    BY <1>1, <2>2 DEF IInv, SpotsExact
  <2>7. SizeOK(t)'
    BY <1>0, <1>1, <2>2 DEF SizeOK, Quiet
  <2> QED BY <1>0, <1>1, <1>2, <1>4, <1>5, <2>1, <2>2, <2>3, <2>4, <2>5, <2>6, <2>7, QuietStep
<1> QED BY <1>6, <1>7

-----------------------------------------------------------------------------
(* The steps that move contexts.                                           *)

LEMMA InData ==
  ASSUME NEW c
  PROVE  /\ In("priority", c) <=> \E e \in ToSet(priority_ops) : e.ctx = c
         /\ In("pending", c) <=> \E e \in ToSet(pending_ops) : e.ctx = c
         /\ In("posted", c) <=> \E p \in posted : p.ctx = c
         /\ In("cq", c) <=> \E e \in ToSet(cq) : e.ctx = c
         /\ In("comp", c) <=> \E e \in ToSet(comp) : e.ctx = c
         /\ In("pool", c) <=> c \in ToSet(pool)
BY DEF In

LEMMA InDataAfter ==
  ASSUME NEW c
  PROVE  /\ In("priority", c)' <=> \E e \in ToSet(priority_ops') : e.ctx = c
         /\ In("pending", c)' <=> \E e \in ToSet(pending_ops') : e.ctx = c
         /\ In("posted", c)' <=> \E p \in posted' : p.ctx = c
         /\ In("cq", c)' <=> \E e \in ToSet(cq') : e.ctx = c
         /\ In("comp", c)' <=> \E e \in ToSet(comp') : e.ctx = c
         /\ In("pool", c)' <=> c \in ToSet(pool')
BY DEF In

\* A list that does not change keeps its contexts.
LEMMA InSame ==
  ASSUME NEW c
  PROVE  /\ priority_ops' = priority_ops => (In("priority", c)' <=> In("priority", c))
         /\ pending_ops' = pending_ops => (In("pending", c)' <=> In("pending", c))
         /\ posted' = posted => (In("posted", c)' <=> In("posted", c))
         /\ cq' = cq => (In("cq", c)' <=> In("cq", c))
         /\ comp' = comp => (In("comp", c)' <=> In("comp", c))
         /\ pool' = pool => (In("pool", c)' <=> In("pool", c))
BY InData, InDataAfter

LEMMA HeldSame ==
  ASSUME NEW t \in Threads, Others(t), NEW c \in Contexts, HeldBy(t, c)' <=> HeldBy(t, c)
  PROVE  In("held", c)' <=> In("held", c)
BY HeldFrame

LEMMA FreshSame ==
  ASSUME NEW t \in Threads, Others(t), NEW c \in Contexts, FreshBy(t, c)' <=> FreshBy(t, c),
         wait_context' = wait_context
  PROVE  In("fresh", c)' <=> In("fresh", c)
BY FreshFrame

\* A context that leaves one spot for another.
LEMMA Moved ==
  ASSUME OneSpot, NEW c \in Contexts, NEW k \in Spots, NEW l \in Spots, k # l, In(k, c),
         \A d \in Contexts : \A m \in Spots : m \notin {k, l} => (In(m, d)' <=> In(m, d)),
         \A d \in Contexts : In(k, d)' <=> In(k, d) /\ d # c,
         \A d \in Contexts : In(l, d)' <=> In(l, d) \/ d = c
  PROVE  MoveTo(c, l)
<1> SUFFICES ASSUME NEW d \in Contexts, NEW m \in Spots
             PROVE  In(m, d)' <=> IF d = c THEN m = l ELSE In(m, d)
  BY DEF MoveTo
<1>1. CASE m \notin {k, l}
  BY <1>1 DEF OneSpot
<1>2. CASE m \in {k, l}
  BY <1>2
<1> QED BY <1>1, <1>2

\* What a move leaves of the facts about spots.
LEMMA MovedSpots ==
  ASSUME OneSpot, SpotsExact, NEW c \in Contexts, NEW l \in Spots, MoveTo(c, l),
         created' = created, c \in created
  PROVE  /\ OneSpot'
         /\ (\A d \in Contexts : \A k \in Spots : In(k, d) => d \in created)'
         /\ \A d \in Contexts : (\E k \in Spots : In(k, d)) => (\E k \in Spots : In(k, d)')
<1>1. OneSpot'
  BY MoveOneSpot
<1>2. ASSUME NEW d \in Contexts, NEW k \in Spots, In(k, d)' PROVE d \in created'
  BY <1>2 DEF MoveTo, SpotsExact
<1>3. ASSUME NEW d \in Contexts, NEW k \in Spots, In(k, d) PROVE \E m \in Spots : In(m, d)'
  BY <1>3 DEF MoveTo
<1> QED BY <1>1, <1>2, <1>3

LEMMA NullAgain ==
  ASSUME TypeOK, NEW c \in Contexts, ctx_req[c] = Null
  PROVE  [ctx_req EXCEPT ![c] = Null] = ctx_req
BY DEF TypeOK

\* The step that takes context c from spot k to the pool.
LEMMA ToPool ==
  ASSUME OneSpot, SpotsExact, TypeOK, NEW c \in Contexts, NEW k \in Spots, k # "pool", In(k, c),
         pool' = Append(pool, c)
  PROVE  /\ c \in created
         /\ pool' \in Seq(Contexts) /\ IsInjective(pool')
         /\ \A d : In("pool", d)' <=> In("pool", d) \/ d = c
         /\ \A d \in ToSet(pool') : d \in ToSet(pool) \/ d = c
<1>1. c \in created
  BY DEF SpotsExact
<1>2. c \notin ToSet(pool)
  BY InData DEF OneSpot, Spots
<1>3. pool' \in Seq(Contexts) /\ IsInjective(pool') /\ ToSet(pool') = ToSet(pool) \cup {c}
  BY <1>2, PoolAppend DEF TypeOK, SpotsExact
<1> QED BY <1>1, <1>3, InData, InDataAfter

LEMMA HandleEntryStep ==
  ASSUME IInv, NEW t \in Threads, HandleEntry(t)
  PROVE  IInv'
<1>0. /\ TypeOK /\ QueueTypeOK /\ Control /\ ThreadOK(t) /\ CallbackKept /\ OneSpot
      /\ SpotsExact /\ Links /\ OpsExact
  BY DEF IInv, Control
<1>e. PICK e : e = Head(comp)
  OBVIOUS
<1>c. PICK c : c = e.ctx
  OBVIOUS
<1>1. /\ comp # <<>> /\ NoRepeat(comp) /\ comp \in Seq(Entries)
      /\ comp' = Tail(comp)
  BY <1>0 DEF HandleEntry, SpotsExact, QueueTypeOK
<1>2. /\ comp' \in Seq(Entries) /\ NoRepeat(comp') /\ e \in Entries /\ e \in ToSet(comp)
      /\ ToSet(comp') \subseteq ToSet(comp)
      /\ \A f \in ToSet(comp) : f \in ToSet(comp') <=> f.ctx # c
  BY <1>1, <1>e, <1>c, TailOp
<1>3. c \in Contexts /\ e.err \in Errors /\ In("comp", c)
  BY <1>2, <1>c, InData DEF Entries
<1>4. /\ pc[t] = "entry" /\ Others(t) /\ RequestsSame
      /\ \/ /\ ctx_req[c] = Null /\ pc' = pc /\ call' = call /\ pool' = Append(pool, c)
         \/ /\ ctx_req[c] # Null /\ pool' = pool
            /\ pc' = [pc EXCEPT ![t] = IF e.err = "SUCCESS" THEN "fill" ELSE "complete"]
            /\ call' = [call EXCEPT ![t] = [req |-> ctx_req[c], err |-> e.err, op |-> e.op,
                                            ctx |-> c, ret |-> "destroy"]]
      /\ UNCHANGED <<cancelling, callbacks, called, leader, ft_mutex, pending_ops_mutex,
                     priority_ops, pending_ops, posted, cq>>
  BY <1>0, <1>3, <1>e, <1>c, NullAgain
     DEF HandleEntry, EnterComplete, DestroyContext, Goto, TypeOK, CallType, RequestsSame,
         Others, reqVars, ctxVars, queueVars, fabricVars, cbVars, lockVars
<1>5. UNCHANGED <<workload, wait_context, gen, op_type, error, size, ended, ctx_req, created>>
  BY <1>4 DEF RequestsSame
<1>6. leader = t /\ leader' = t
  BY <1>0, <1>4, PlainPlace DEF ThreadOK
<1>7. /\ \A u \in Threads : u # t => SameLocks(u)
      /\ \A u \in Threads : u # t => ~Leads(u)
      /\ leader' # Null
  BY <1>0, <1>4, <1>6, LocksFrame, LifecycleAssumption DEF Control, ThreadOK
<1>8. CallbackKept'
  BY <1>0, <1>4, <1>5, SameCallbacks
<1>9. OpsExact'
  BY <1>0, <1>2, <1>4, <1>5 DEF OpsExact
<1>10. \A d \in Contexts : In("comp", d)' <=> In("comp", d) /\ d # c
  BY <1>2, InData, InDataAfter
<1>11. (\A u \in Threads : AtFront(u) => SomeOp /\ call[u].ctx = FrontOp.ctx)'
  <2>1. ~AtFront(t)'
    BY <1>0, <1>4, PlainPlace DEF TypeOK, CallType, AtFront, Returns
  <2> QED BY <1>0, <1>4, <2>1, FrontFrame
<1>12. CASE ctx_req[c] = Null
  <2>1. pc' = pc /\ call' = call /\ pool' = Append(pool, c)
    BY <1>4, <1>12
  <2>2. /\ \A u : (Holds(u)' <=> Holds(u)) /\ (Leads(u)' <=> Leads(u)) /\ (Posts(u)' <=> Posts(u))
        /\ \A u, d : (HeldBy(u, d)' <=> HeldBy(u, d)) /\ (FreshBy(u, d)' <=> FreshBy(u, d))
        /\ \A u, r : Cancels(u, r)' <=> Cancels(u, r)
    BY <1>4, <1>5, <2>1 DEF Holds, Leads, Posts, HeldBy, FreshBy, Cancels, Returns
  <2>3. /\ c \in created /\ pool' \in Seq(Contexts) /\ IsInjective(pool')
        /\ \A d : In("pool", d)' <=> In("pool", d) \/ d = c
        /\ \A d \in ToSet(pool') : d \in ToSet(pool) \/ d = c
    BY <1>0, <1>3, <2>1, ToPool DEF Spots
  <2>4. MoveTo(c, "pool")
    <3>1. ASSUME NEW d \in Contexts, NEW m \in Spots, m \notin {"comp", "pool"}
          PROVE  In(m, d)' <=> In(m, d)
      BY <1>4, <1>5, <2>2, <3>1, InSame, HeldSame, FreshSame DEF Spots
    <3> QED BY <1>0, <1>3, <1>10, <2>3, <3>1, Moved DEF Spots
  <2>5. /\ OneSpot'
        /\ (\A d \in Contexts : \A k \in Spots : In(k, d) => d \in created)'
        /\ \A d \in Contexts : (\E k \in Spots : In(k, d)) => (\E k \in Spots : In(k, d)')
    BY <1>0, <1>3, <1>5, <2>3, <2>4, MovedSpots DEF Spots
  <2>6. SpotsExact'
    BY <1>0, <1>2, <1>4, <1>11, <2>3, <2>5 DEF SpotsExact
  <2>7. TypeOK'
    BY <1>0, <1>4, <1>5, <2>1, <2>3 DEF TypeOK, CallType
  <2>8. QueueTypeOK'
    BY <1>0, <1>2, <1>4 DEF QueueTypeOK
  <2>9. ThreadOK(t)'
    BY <1>0, <1>4, <1>5, <1>6, <2>1, PlainPlace, PlainPlaceAfter DEF ThreadOK, Owner
  <2>10. ThreadLinks(t)' /\ SizeOK(t)'
    BY <1>4, <2>1, PlainPlaceAfter DEF ThreadLinks, SizeOK
  <2>11. \A d \in Contexts : d \in ToSet(pool') => ctx_req[d] = Null
    BY <1>0, <1>12, <2>3 DEF Links
  <2> QED BY <1>4, <1>7, <1>8, <1>9, <2>1, <2>2, <2>5, <2>6, <2>7, <2>8, <2>9, <2>10, <2>11,
             MoveStep
<1>13. CASE ctx_req[c] # Null
  <2>0. PICK r : r = ctx_req[c]
    OBVIOUS
  <2>1. /\ pc'[t] = IF e.err = "SUCCESS" THEN "fill" ELSE "complete"
        /\ call'[t] = [req |-> r, err |-> e.err, op |-> e.op, ctx |-> c, ret |-> "destroy"]
        /\ pool' = pool
    BY <1>0, <1>4, <1>13, <2>0 DEF TypeOK, CallType
  <2>2. r \in Requests /\ wait_context[r] = c /\ e.op = <<r, gen[r]>>
    BY <1>0, <1>2, <1>3, <1>c, <1>13, <2>0 DEF TypeOK, Links, OpsExact
  <2>3. /\ Holds(t)' /\ Leads(t)' /\ ~Posts(t)' /\ Completes(t)' /\ ~Returns(t, {"idle"})'
        /\ ~Returns(t, {"injected"})' /\ ~Returns(t, {"failed", "idle"})'
        /\ Returns(t, {"destroy"})' => pc'[t] = "complete"
        /\ \A d : (HeldBy(t, d)' <=> d = c) /\ ~HeldBy(t, d) /\ ~FreshBy(t, d) /\ ~FreshBy(t, d)'
        /\ \A q : Cancels(t, q) => Cancels(t, q)'
    BY <1>4, <2>1, PlainPlace
       DEF Holds, Leads, Posts, HeldBy, FreshBy, Cancels, Completes, Returns
  <2>4. MoveTo(c, "held")
    <3>1. ASSUME NEW d \in Contexts, NEW m \in Spots, m \notin {"comp", "held"}
          PROVE  In(m, d)' <=> In(m, d)
      BY <1>4, <1>5, <2>1, <2>3, <3>1, InSame, FreshSame DEF Spots
    <3>2. \A d \in Contexts : In("held", d)' <=> In("held", d) \/ d = c
      BY <1>4, <2>3, HeldFrame
    <3> QED BY <1>0, <1>3, <1>10, <3>1, <3>2, Moved DEF Spots
  <2>5. /\ OneSpot'
        /\ (\A d \in Contexts : \A k \in Spots : In(k, d) => d \in created)'
        /\ \A d \in Contexts : (\E k \in Spots : In(k, d)) => (\E k \in Spots : In(k, d)')
    <3>1. c \in created
      BY <1>0, <1>3 DEF SpotsExact, Spots
    <3> QED BY <1>0, <1>3, <1>5, <2>4, <3>1, MovedSpots DEF Spots
  <2>6. SpotsExact'
    BY <1>0, <1>2, <1>4, <1>11, <2>1, <2>5 DEF SpotsExact
  <2>7. TypeOK'
    <3>1. \E l \in PCs : pc' = [pc EXCEPT ![t] = l]
      BY <1>4, <1>13 DEF PCs
    <3>2. cancelling' = [u \in Threads |-> cancelling'[u]] /\ CallType
      BY <1>0, <1>4 DEF TypeOK
    <3>3. call' = [call EXCEPT ![t] = [req |-> r, err |-> e.err, op |-> e.op, ctx |-> c,
                                       ret |-> "destroy"]]
      BY <1>4, <1>13, <2>0
    <3>4. CallType'
      BY <3>2, <3>3, CallTypeStep
    <3> QED BY <1>0, <1>4, <1>5, <2>1, <3>1, <3>2, <3>4, TypeFrame
  <2>8. QueueTypeOK'
    BY <1>0, <1>2, <1>4 DEF QueueTypeOK
  <2>9. ThreadOK(t)'
    BY <1>0, <1>4, <1>5, <1>6, <2>1, <2>2, <2>3, PlainPlace DEF ThreadOK, Owner
  <2>10. ThreadLinks(t)' /\ SizeOK(t)'
    BY <1>3, <1>5, <2>1, <2>2, <2>3 DEF ThreadLinks, SizeOK
  <2>11. \A d \in Contexts : d \in ToSet(pool') => ctx_req[d] = Null
    BY <1>0, <2>1 DEF Links
  <2> QED BY <1>4, <1>7, <1>8, <1>9, <2>1, <2>3, <2>5, <2>6, <2>7, <2>8, <2>9, <2>10, <2>11,
             MoveStep
<1> QED BY <1>12, <1>13

\* The size of a receive is written: by the thread that completes it.
LEMMA FillRequestStep ==
  ASSUME IInv, NEW t \in Threads, FillRequest(t)
  PROVE  IInv'
<1>0. /\ TypeOK /\ QueueTypeOK /\ Control /\ ThreadOK(t) /\ ThreadLinks(t) /\ CallbackKept
      /\ OneSpot /\ SpotsExact /\ Links /\ OpsExact /\ RunningOps /\ Outstanding /\ FtExact
      /\ SizeExact /\ OwnOpNow
  BY DEF IInv, Control, RunningOps
<1>r. PICK r : r = call[t].req
  OBVIOUS
<1>1. /\ pc[t] = "fill" /\ pc' = [pc EXCEPT ![t] = "complete"] /\ pc'[t] = "complete" /\ Others(t)
      /\ size' = IF op_type[r] = "RECV" THEN [size EXCEPT ![r] = "got"] ELSE size
      /\ UNCHANGED <<call, cancelling, callbacks, called, leader, ft_mutex, pending_ops_mutex,
                     priority_ops, pending_ops, posted, cq, comp, pool, workload, wait_context, gen,
                     op_type, error, ended, ctx_req, created, ft_requests>>
  BY <1>0, <1>r
     DEF FillRequest, Goto, TypeOK, CallType, Others, ctxVars, queueVars, fabricVars, readVars,
         cbVars, lockVars
<1>2. /\ r \in Requests /\ call[t].ret = "destroy" /\ call[t].ctx \in Contexts
      /\ wait_context[r] = call[t].ctx /\ wait_context[r] # Null /\ leader = t
  BY <1>0, <1>1, <1>r, PlainPlace, LifecycleAssumption DEF ThreadOK, ThreadLinks
<1>3. /\ Returns(t, {"destroy"})' /\ ~Returns(t, {"idle"})' /\ ~Returns(t, {"injected"})'
      /\ ~Returns(t, {"failed", "idle"})' /\ Leads(t)' /\ ~Posts(t)' /\ Holds(t)' /\ ~AtFront(t)'
      /\ Completes(t)'
      /\ \A d : (HeldBy(t, d)' <=> HeldBy(t, d)) /\ ~FreshBy(t, d) /\ ~FreshBy(t, d)'
      /\ \A q : Cancels(t, q) => Cancels(t, q)'
  BY <1>1, <1>2, PlainPlace
     DEF Holds, Leads, Posts, AtFront, HeldBy, FreshBy, Cancels, Completes, Returns
<1>4. TypeOK'
  <2>1. pc' \in [Threads -> PCs]
    BY <1>0, <1>1, PcType DEF PCs
  <2>2. size' = [q \in Requests |-> size'[q]]
    BY <1>0, <1>1 DEF TypeOK
  <2> QED BY <1>0, <1>1, <2>1, <2>2 DEF TypeOK, CallType
<1>5. QueueTypeOK'
  BY <1>0, <1>1 DEF QueueTypeOK
<1>6. Control'
  <2>1. ThreadOK(t)'
    BY <1>0, <1>1, <1>2, <1>3, <1>r, PlainPlace DEF ThreadOK, Owner
  <2>2. \A u \in Threads : u # t => SameLocks(u)
    BY <1>1, LocksFrame
  <2> QED BY <1>0, <1>1, <1>2, <2>1, <2>2, ControlFrame DEF Control
<1>7. Links' /\ OpsExact'
  BY <1>0, <1>1 DEF Links, OpsExact
<1>8. RunningOps'
  <2>1. ThreadLinks(t)'
    BY <1>0, <1>1, <1>2, <1>3, <1>r, PlainPlace DEF ThreadLinks
  <2> QED BY <1>0, <1>1, <2>1, RunningFrame
<1>9. Stay
  <2>1. ASSUME NEW d \in Contexts, NEW m \in Spots PROVE In(m, d)' <=> In(m, d)
    BY <1>1, <1>3, <2>1, InSame, HeldSame, FreshSame DEF Spots
  <2> QED BY <2>1 DEF Stay
<1>10. OneSpot'
  BY <1>0, <1>9, StayOneSpot
<1>11. SpotsExact'
  <2>1. (\A u \in Threads : AtFront(u) => SomeOp /\ call[u].ctx = FrontOp.ctx)'
    BY <1>0, <1>1, <1>3, FrontFrame
  <2>2. (\A c \in Contexts : \A k \in Spots : In(k, c) => c \in created)'
    BY <1>0, <1>1, <1>9 DEF SpotsExact, Stay
  <2> QED BY <1>0, <1>1, <2>1, <2>2 DEF SpotsExact
<1>12. Outstanding'
  BY <1>0, <1>1, <1>3, <1>9, OutstandingFrame DEF Stay
<1>13. FtExact'
  BY <1>0, <1>1, FtFrame
<1>14. SizeExact'
  <2>1. \A q \in Requests : size'[q] = size[q] \/ (q = r /\ size'[q] = "got")
    BY <1>0, <1>1, <1>2 DEF TypeOK
  <2>2. SizesNow'
    BY <1>0, <1>1, <1>2, <2>1 DEF SizeExact, SizesNow
  <2>3. SizeOK(t)'
    BY <1>0, <1>1, <1>2, <1>3, <1>r DEF SizeOK, TypeOK
  <2>4. ASSUME NEW u \in Threads, u # t PROVE SizeOK(u)'
    <3>1. SizeOK(u) /\ call'[u] = call[u]
      BY <1>0, <1>1, <2>4 DEF SizeExact
    <3>2. \A R : Returns(u, R)' <=> Returns(u, R)
      BY <1>1, <2>4, OtherPlace
    <3>3. Returns(u, {"destroy"}) => call[u].req \in Requests
      BY <1>0 DEF Control, ThreadOK, Returns
    <3> QED BY <1>1, <2>1, <3>1, <3>2, <3>3 DEF SizeOK
  <2> QED BY <2>2, <2>3, <2>4 DEF SizeExact
<1>15. CallbackKept' /\ OwnOpNow'
  BY <1>0, <1>1, SameCallbacks DEF OwnOpNow
<1> QED BY <1>4, <1>5, <1>6, <1>7, <1>8, <1>10, <1>11, <1>12, <1>13, <1>14, <1>15 DEF IInv

\* The context a thread has taken from an entry returns to the pool.
LEMMA DestroyEntryStep ==
  ASSUME IInv, NEW t \in Threads, DestroyEntry(t)
  PROVE  IInv'
<1>0. /\ TypeOK /\ QueueTypeOK /\ Control /\ ThreadOK(t) /\ ThreadLinks(t) /\ CallbackKept
      /\ OneSpot /\ SpotsExact /\ Links /\ OpsExact
  BY DEF IInv, Control, RunningOps
<1>c. PICK c : c = call[t].ctx
  OBVIOUS
<1>1. pc[t] = "destroy" /\ c \in Contexts /\ ctx_req[c] = Null
  BY <1>0, <1>c DEF DestroyEntry, ThreadLinks
<1>2. /\ pc' = [pc EXCEPT ![t] = "entry"] /\ pc'[t] = "entry" /\ Others(t) /\ RequestsSame
      /\ call' = [call EXCEPT ![t] = NoCall] /\ pool' = Append(pool, c)
      /\ UNCHANGED <<cancelling, callbacks, called, leader, ft_mutex, pending_ops_mutex,
                     priority_ops, pending_ops, posted, cq, comp>>
  BY <1>0, <1>1, <1>c, NullAgain
     DEF DestroyEntry, DestroyContext, Goto, TypeOK, CallType, RequestsSame, Others, reqVars,
         queueVars, fabricVars, readVars, cbVars, lockVars
<1>3. UNCHANGED <<workload, wait_context, gen, op_type, error, size, ended, ctx_req, created>>
  BY <1>2 DEF RequestsSame
<1>4. leader = t /\ leader' = t
  BY <1>0, <1>1, <1>2, PlainPlace DEF ThreadOK
<1>5. /\ \A u \in Threads : u # t => SameLocks(u)
      /\ \A u \in Threads : u # t => ~Leads(u)
      /\ leader' # Null
  BY <1>0, <1>2, <1>4, LocksFrame, LifecycleAssumption DEF Control, ThreadOK
<1>6. /\ \A d : (HeldBy(t, d) <=> d = c) /\ ~HeldBy(t, d)' /\ ~FreshBy(t, d) /\ ~FreshBy(t, d)'
      /\ \A q : Cancels(t, q) => Cancels(t, q)'
  BY <1>1, <1>2, <1>c, PlainPlace, PlainPlaceAfter DEF HeldBy, FreshBy
<1>7. In("held", c)
  BY <1>1, <1>6 DEF In
<1>8. /\ c \in created /\ pool' \in Seq(Contexts) /\ IsInjective(pool')
      /\ \A d : In("pool", d)' <=> In("pool", d) \/ d = c
      /\ \A d \in ToSet(pool') : d \in ToSet(pool) \/ d = c
  BY <1>0, <1>1, <1>2, <1>7, ToPool DEF Spots
<1>9. MoveTo(c, "pool")
  <2>1. ASSUME NEW d \in Contexts, NEW m \in Spots, m \notin {"held", "pool"}
        PROVE  In(m, d)' <=> In(m, d)
    BY <1>2, <1>3, <1>6, <2>1, InSame, FreshSame DEF Spots
  <2>2. \A u \in Threads, d \in Contexts : HeldBy(u, d) => u = t
    BY <1>0, <1>1, PlainPlace DEF HeldBy, Holds, Leads, Control, ThreadOK, Returns
  <2>3. \A d \in Contexts : In("held", d)' <=> In("held", d) /\ d # c
    BY <1>2, <1>6, <2>2, HeldFrame
  <2> QED BY <1>0, <1>1, <1>7, <1>8, <2>1, <2>3, Moved DEF Spots
<1>10. /\ OneSpot'
       /\ (\A d \in Contexts : \A k \in Spots : In(k, d) => d \in created)'
       /\ \A d \in Contexts : (\E k \in Spots : In(k, d)) => (\E k \in Spots : In(k, d)')
  BY <1>0, <1>1, <1>3, <1>8, <1>9, MovedSpots DEF Spots
<1>11. SpotsExact'
  <2>1. (\A u \in Threads : AtFront(u) => SomeOp /\ call[u].ctx = FrontOp.ctx)'
    BY <1>0, <1>2, PlainPlaceAfter, FrontFrame
  <2> QED BY <1>0, <1>2, <1>8, <1>10, <2>1 DEF SpotsExact
<1>12. TypeOK'
  <2>1. pc' \in [Threads -> PCs]
    BY <1>0, <1>2, PcType DEF PCs
  <2>2. CallType'
    BY <1>0, <1>2, CallTypeStep DEF TypeOK, NoCall
  <2> QED BY <1>0, <1>2, <1>3, <1>8, <2>1, <2>2 DEF TypeOK
<1>13. QueueTypeOK' /\ OpsExact' /\ CallbackKept'
  BY <1>0, <1>2, <1>3, SameCallbacks DEF QueueTypeOK, OpsExact
<1>14. ThreadOK(t)'
  BY <1>0, <1>1, <1>2, <1>3, <1>4, PlainPlace, PlainPlaceAfter DEF ThreadOK, Owner
<1>15. ThreadLinks(t)' /\ SizeOK(t)'
  BY <1>2, PlainPlaceAfter DEF ThreadLinks, SizeOK
<1>16. \A d \in Contexts : d \in ToSet(pool') => ctx_req[d] = Null
  BY <1>0, <1>1, <1>8 DEF Links
<1> QED BY <1>1, <1>2, <1>5, <1>6, <1>10, <1>11, <1>12, <1>13, <1>14, <1>15, <1>16, MoveStep

\* fi_cq_read takes the front of the completion queue.
LEMMA ReadLength ==
  ASSUME QueueTypeOK, TypeOK, NEW n,
         n = IF cq # <<>> /\ SuccessRun = 0 THEN 1
             ELSE IF SuccessRun < MAX_COMP_COUNT THEN SuccessRun ELSE MAX_COMP_COUNT
  PROVE  n \in 0..Len(cq)
<1>1. Len(cq) \in Nat /\ (cq # <<>> => Len(cq) >= 1)
  BY DEF QueueTypeOK
<1>2. MAX_COMP_COUNT \in Nat
  BY LifecycleAssumption DEF TypeOK, MAX_COMP_COUNT
<1>3. SuccessRun \in 0..Len(cq)
  <2> DEFINE fail == {i \in 1..Len(cq) : cq[i].err # "SUCCESS"}
  <2>1. CASE fail = {}
    BY <1>1, <2>1 DEF SuccessRun
  <2>2. CASE fail # {}
    <3>1. fail \subseteq Nat
      OBVIOUS
    <3>2. \E i \in fail : \A j \in fail : i <= j
      BY <2>2, <3>1, LeastNat
    <3>3. (CHOOSE i \in fail : \A j \in fail : i <= j) \in fail
      BY <3>2
    <3>4. SuccessRun = (CHOOSE i \in fail : \A j \in fail : i <= j) - 1
      BY <2>2 DEF SuccessRun
    <3> HIDE DEF fail
    <3>5. PICK i \in fail : SuccessRun = i - 1
      BY <3>3, <3>4
    <3>6. i \in 1..Len(cq)
      BY <3>5 DEF fail
    <3> QED BY <1>1, <3>5, <3>6
  <2> QED BY <2>1, <2>2

<1> QED BY <1>1, <1>2, <1>3

LEMMA CqReadStep ==
  ASSUME IInv, NEW t \in Threads, CqRead(t)
  PROVE  IInv'
<1>0. /\ TypeOK /\ QueueTypeOK /\ Control /\ ThreadOK(t) /\ CallbackKept
      /\ OneSpot /\ SpotsExact /\ Links /\ OpsExact
  BY DEF IInv, Control
<1>1. PICK n \in 0..Len(cq) : comp' = SubSeq(cq, 1, n) /\ cq' = SubSeq(cq, n + 1, Len(cq))
  BY <1>0, ReadLength DEF CqRead
<1>2. /\ pc[t] = "read" /\ pc' = [pc EXCEPT ![t] = "entry"] /\ pc'[t] = "entry" /\ Others(t)
      /\ RequestsSame
      /\ UNCHANGED <<call, cancelling, callbacks, called, leader, ft_mutex, pending_ops_mutex,
                     priority_ops, pending_ops, posted, pool>>
  BY <1>0 DEF CqRead, Goto, TypeOK, CallType, RequestsSame, Others, reqVars, ctxVars,
              queueVars, cbVars, lockVars
<1>3. UNCHANGED <<workload, wait_context, gen, op_type, error, size, ended, ctx_req, created>>
  BY <1>2 DEF RequestsSame
<1>4. /\ cq' \in Seq(Entries) /\ comp' \in Seq(Entries) /\ NoRepeat(cq') /\ NoRepeat(comp')
      /\ ToSet(comp') \cup ToSet(cq') = ToSet(cq)
      /\ \A e \in ToSet(comp'), f \in ToSet(cq') : e.ctx # f.ctx
  BY <1>0, <1>1, CutOps DEF QueueTypeOK, SpotsExact
<1>5. comp = <<>> /\ leader = t /\ leader' = t
  BY <1>0, <1>2, PlainPlace DEF ThreadOK
<1>6. /\ \A u \in Threads : u # t => SameLocks(u)
      /\ \A u \in Threads : u # t => ~Leads(u)
      /\ leader' # Null
  BY <1>0, <1>2, <1>5, LocksFrame, LifecycleAssumption DEF Control, ThreadOK
<1>7. \A d : ~HeldBy(t, d) /\ ~HeldBy(t, d)' /\ ~FreshBy(t, d) /\ ~FreshBy(t, d)'
  BY <1>2, Idle, IdleBefore
<1>8. ASSUME NEW d \in Contexts, NEW m \in Spots, m \notin {"cq", "comp"}
      PROVE  In(m, d)' <=> In(m, d)
  BY <1>2, <1>3, <1>7, <1>8, InSame, HeldSame, FreshSame DEF Spots
<1>9. ASSUME NEW d \in Contexts
      PROVE  /\ ~In("comp", d)
             /\ In("cq", d) <=> In("cq", d)' \/ In("comp", d)'
             /\ ~(In("cq", d)' /\ In("comp", d)')
  <2>1. ToSet(comp) = {}
    BY <1>5 DEF ToSet
  <2>2. ~In("comp", d)
    BY <2>1, InData
  <2>3. In("cq", d) <=> In("cq", d)' \/ In("comp", d)'
    BY <1>4, InData, InDataAfter
  <2>4. ~(In("cq", d)' /\ In("comp", d)')
    BY <1>4, InDataAfter
  <2> QED BY <2>2, <2>3, <2>4
<1>10. OneSpot'
  <2> SUFFICES ASSUME NEW d \in Contexts, NEW k \in Spots, NEW l \in Spots, In(k, d)', In(l, d)'
               PROVE  k = l
    BY DEF OneSpot
  <2>1. CASE k \in {"cq", "comp"} /\ l \in {"cq", "comp"}
    BY <1>9, <2>1
  <2>2. CASE k \notin {"cq", "comp"} \/ l \notin {"cq", "comp"}
    <3>1. \A m \in {k, l} : In(m, d) \/ (In("cq", d) /\ m \in {"cq", "comp"})
      BY <1>8, <1>9
    <3> QED BY <1>0, <2>2, <3>1 DEF OneSpot, Spots
  <2> QED BY <2>1, <2>2
<1>11. \A d \in Contexts : (\E k \in Spots : In(k, d)) <=> (\E k \in Spots : In(k, d)')
  BY <1>8, <1>9 DEF Spots
<1>12. SpotsExact'
  <2>1. (\A u \in Threads : AtFront(u) => SomeOp /\ call[u].ctx = FrontOp.ctx)'
    BY <1>0, <1>2, PlainPlaceAfter, FrontFrame
  <2>2. (\A d \in Contexts : \A k \in Spots : In(k, d) => d \in created)'
    BY <1>0, <1>3, <1>11 DEF SpotsExact
  <2> QED BY <1>0, <1>2, <1>4, <2>1, <2>2 DEF SpotsExact
<1>13. TypeOK'
  <2>1. pc' \in [Threads -> PCs]
    BY <1>0, <1>2, PcType DEF PCs
  <2> QED BY <1>0, <1>2, <1>3, <2>1 DEF TypeOK, CallType
<1>14. QueueTypeOK' /\ CallbackKept'
  BY <1>0, <1>2, <1>3, <1>4, SameCallbacks DEF QueueTypeOK
<1>15. OpsExact'
  BY <1>0, <1>2, <1>3, <1>4 DEF OpsExact
<1>16. ThreadOK(t)'
  BY <1>0, <1>2, <1>3, <1>5, PlainPlace, PlainPlaceAfter DEF ThreadOK, Owner
<1>17. ThreadLinks(t)' /\ SizeOK(t)' /\ \A q : Cancels(t, q) => Cancels(t, q)'
  BY <1>2, PlainPlace, PlainPlaceAfter DEF ThreadLinks, SizeOK
<1>18. \A d \in Contexts : d \in ToSet(pool') => ctx_req[d] = Null
  BY <1>0, <1>2 DEF Links
<1> QED BY <1>2, <1>6, <1>10, <1>11, <1>12, <1>13, <1>14, <1>15, <1>16, <1>17, <1>18, MoveStep

\* The front of the queues.
LEMMA FrontFacts ==
  ASSUME QueueTypeOK, SpotsExact, SomeOp
  PROVE  /\ FrontOp \in Ops
         /\ FrontOp \in ToSet(priority_ops) \cup ToSet(pending_ops)
         /\ FrontOp.ctx \in Contexts
<1>1. /\ priority_ops \in Seq(Ops) /\ pending_ops \in Seq(Ops)
      /\ NoRepeat(priority_ops) /\ NoRepeat(pending_ops)
  BY DEF QueueTypeOK, SpotsExact
<1>2. FrontOp \in Ops /\ FrontOp \in ToSet(priority_ops) \cup ToSet(pending_ops)
  <2>1. CASE priority_ops # <<>>
    <3>1. Head(priority_ops) \in Ops /\ Head(priority_ops) \in ToSet(priority_ops)
      BY <1>1, <2>1, TailOp
    <3> QED BY <2>1, <3>1 DEF FrontOp
  <2>2. CASE priority_ops = <<>>
    <3>1. pending_ops # <<>>
      BY <2>2 DEF SomeOp
    <3>2. Head(pending_ops) \in Ops /\ Head(pending_ops) \in ToSet(pending_ops)
      BY <1>1, <3>1, TailOp
    <3> QED BY <2>2, <3>2 DEF FrontOp
  <2> QED BY <2>1, <2>2
<1> QED BY <1>2 DEF Ops

LEMMA FrontLeaves ==
  ASSUME QueueTypeOK, SpotsExact, SomeOp, PopFront, NEW c, c = FrontOp.ctx
  PROVE  /\ priority_ops' \in Seq(Ops) /\ pending_ops' \in Seq(Ops)
         /\ NoRepeat(priority_ops') /\ NoRepeat(pending_ops')
         /\ ToSet(priority_ops') \subseteq ToSet(priority_ops)
         /\ ToSet(pending_ops') \subseteq ToSet(pending_ops)
         /\ \E k \in {"priority", "pending"} :
              /\ In(k, c)
              /\ \A d \in Contexts : In(k, d)' <=> In(k, d) /\ d # c
              /\ \A m \in {"priority", "pending"}, d \in Contexts : m # k => (In(m, d)' <=> In(m, d))
<1>1. /\ priority_ops \in Seq(Ops) /\ pending_ops \in Seq(Ops)
      /\ NoRepeat(priority_ops) /\ NoRepeat(pending_ops)
  BY DEF QueueTypeOK, SpotsExact
<1>2. CASE priority_ops # <<>>
  <2>1. priority_ops' = Tail(priority_ops) /\ pending_ops' = pending_ops /\ c = Head(priority_ops).ctx
    BY <1>2 DEF PopFront, FrontOp
  <2>2. /\ priority_ops' \in Seq(Ops) /\ NoRepeat(priority_ops')
        /\ Head(priority_ops) \in ToSet(priority_ops)
        /\ ToSet(priority_ops') \subseteq ToSet(priority_ops)
        /\ \A e \in ToSet(priority_ops) : e \in ToSet(priority_ops') <=> e.ctx # c
    BY <1>1, <1>2, <2>1, TailOp
  <2>3. In("priority", c) /\ \A d \in Contexts : In("priority", d)' <=> In("priority", d) /\ d # c
    BY <2>1, <2>2, InData, InDataAfter
  <2>4. \A d \in Contexts : In("pending", d)' <=> In("pending", d)
    BY <2>1, InSame
  <2> QED BY <1>1, <2>1, <2>2, <2>3, <2>4
<1>3. CASE priority_ops = <<>>
  <2>1. /\ pending_ops # <<>> /\ pending_ops' = Tail(pending_ops) /\ priority_ops' = priority_ops
        /\ c = Head(pending_ops).ctx
    BY <1>3 DEF PopFront, FrontOp, SomeOp
  <2>2. /\ pending_ops' \in Seq(Ops) /\ NoRepeat(pending_ops')
        /\ Head(pending_ops) \in ToSet(pending_ops)
        /\ ToSet(pending_ops') \subseteq ToSet(pending_ops)
        /\ \A e \in ToSet(pending_ops) : e \in ToSet(pending_ops') <=> e.ctx # c
    BY <1>1, <2>1, TailOp
  <2>3. In("pending", c) /\ \A d \in Contexts : In("pending", d)' <=> In("pending", d) /\ d # c
    BY <2>1, <2>2, InData, InDataAfter
  <2>4. \A d \in Contexts : In("priority", d)' <=> In("priority", d)
    BY <2>1, InSame
  <2> QED BY <1>1, <2>1, <2>2, <2>3, <2>4
<1> QED BY <1>2, <1>3

\* Popping the front of the queues when its request, if any, is completed: the
\* context returns to the pool or is dropped.
LEMMA FrontPopped ==
  ASSUME IInv, NEW t \in Threads, NEW c \in Contexts, SomeOp, c = FrontOp.ctx, ctx_req[c] = Null,
         PopFront, pool' = pool \/ pool' = Append(pool, c),
         pc[t] \in {"post", "injected", "failed"}, pc' = [pc EXCEPT ![t] = "post"], CallType',
         Others(t), RequestsSame,
         UNCHANGED <<cancelling, callbacks, called, leader, ft_mutex, pending_ops_mutex,
                     posted, cq, comp>>
  PROVE  IInv'
<1>0. /\ TypeOK /\ QueueTypeOK /\ Control /\ ThreadOK(t) /\ CallbackKept /\ OneSpot /\ SpotsExact
      /\ Links /\ OpsExact
  BY DEF IInv, Control
<1>1. UNCHANGED <<workload, wait_context, gen, op_type, error, size, ended, ctx_req, created>>
  BY DEF RequestsSame
<1>2. /\ priority_ops' \in Seq(Ops) /\ pending_ops' \in Seq(Ops)
      /\ NoRepeat(priority_ops') /\ NoRepeat(pending_ops')
      /\ ToSet(priority_ops') \subseteq ToSet(priority_ops)
      /\ ToSet(pending_ops') \subseteq ToSet(pending_ops)
  BY <1>0, FrontLeaves
<1>3. PICK k \in {"priority", "pending"} :
        /\ In(k, c)
        /\ \A d \in Contexts : In(k, d)' <=> In(k, d) /\ d # c
        /\ \A m \in {"priority", "pending"}, d \in Contexts : m # k => (In(m, d)' <=> In(m, d))
  BY <1>0, FrontLeaves
<1>4. k \in Spots /\ k # "pool" /\ c \in created
  BY <1>0, <1>3 DEF SpotsExact, Spots
<1>5. pc'[t] = "post" /\ leader = t /\ leader' = t /\ pending_ops_mutex = t /\ comp = <<>>
  BY <1>0, PlainPlace DEF ThreadOK, TypeOK
<1>6. /\ \A u \in Threads : u # t => SameLocks(u) /\ ~Leads(u) /\ ~AtFront(u)
      /\ leader' # Null
  <2>1. \A u \in Threads : u # t => SameLocks(u)
    BY LocksFrame
  <2>2. \A u \in Threads : u # t => ~Leads(u)
    BY <1>0, <1>5 DEF Control, ThreadOK
  <2>3. \A u : AtFront(u) => Leads(u)
    BY DEF AtFront, Leads, Returns
  <2> QED BY <1>5, <2>1, <2>2, <2>3, LifecycleAssumption
<1>7. /\ \A d : ~HeldBy(t, d) /\ ~HeldBy(t, d)' /\ ~FreshBy(t, d) /\ ~FreshBy(t, d)'
      /\ ~AtFront(t)' /\ \A q : Cancels(t, q) => Cancels(t, q)'
  BY <1>5, Idle, IdleBefore, PlainPlace, PlainPlaceAfter
<1>8. ASSUME NEW d \in Contexts, NEW m \in Spots, m \notin {k, "pool"}
      PROVE  In(m, d)' <=> In(m, d)
  <2>1. CASE m \in {"priority", "pending"}
    BY <1>3, <1>8, <2>1
  <2>2. CASE m \notin {"priority", "pending"}
    BY <1>1, <1>7, <1>8, <2>2, InSame, HeldSame, FreshSame DEF Spots
  <2> QED BY <2>1, <2>2
<1>9. /\ OneSpot'
      /\ (\A d \in Contexts : \A m \in Spots : In(m, d) => d \in created)'
      /\ \A d \in Contexts : d # c /\ (\E m \in Spots : In(m, d)) => (\E m \in Spots : In(m, d)')
      /\ pool' \in Seq(Contexts) /\ IsInjective(pool')
      /\ \A d \in ToSet(pool') : d \in ToSet(pool) \/ d = c
  <2>1. CASE pool' = Append(pool, c)
    <3>1. /\ pool' \in Seq(Contexts) /\ IsInjective(pool')
          /\ \A d : In("pool", d)' <=> In("pool", d) \/ d = c
          /\ \A d \in ToSet(pool') : d \in ToSet(pool) \/ d = c
      BY <1>0, <1>3, <1>4, <2>1, ToPool
    <3>2. MoveTo(c, "pool")
      BY <1>0, <1>3, <1>4, <1>8, <3>1, Moved DEF Spots
    <3> QED BY <1>0, <1>1, <1>4, <3>1, <3>2, MovedSpots DEF Spots
  <2>2. CASE pool' = pool
    <3>1. ASSUME NEW d \in Contexts, NEW m \in Spots PROVE In(m, d)' <=> d # c /\ In(m, d)
      <4>1. CASE m = k
        BY <1>3, <4>1
      <4>2. CASE m # k
        <5>1. In(m, d)' <=> In(m, d)
          BY <1>8, <2>2, <4>2, InSame
        <5>2. ~In(m, c)
          BY <1>0, <1>3, <1>4, <4>2 DEF OneSpot
        <5> QED BY <5>1, <5>2
      <4> QED BY <4>1, <4>2
    <3>2. Leave(c)
      BY <3>1 DEF Leave
    <3>3. OneSpot'
      BY <1>0, <3>2, LeaveOneSpot
    <3> QED BY <1>0, <1>1, <2>2, <3>1, <3>3 DEF SpotsExact, TypeOK
  <2> QED BY <2>1, <2>2
<1>10. SpotsExact'
  <2>1. (\A u \in Threads : AtFront(u) => SomeOp /\ call[u].ctx = FrontOp.ctx)'
    BY <1>0, <1>6, <1>7, FrontFrame
  <2> QED BY <1>0, <1>2, <1>9, <2>1 DEF SpotsExact
<1>11. TypeOK'
  <2>1. pc' \in [Threads -> PCs]
    BY <1>0, PcType DEF PCs
  <2> QED BY <1>0, <1>1, <1>9, <2>1 DEF TypeOK
<1>12. QueueTypeOK' /\ OpsExact' /\ CallbackKept'
  BY <1>0, <1>1, <1>2, SameCallbacks DEF QueueTypeOK, OpsExact
<1>13. ThreadOK(t)'
  BY <1>0, <1>1, <1>5, PlainPlace, PlainPlaceAfter DEF ThreadOK, Owner
<1>14. ThreadLinks(t)' /\ SizeOK(t)'
  BY <1>5, PlainPlaceAfter DEF ThreadLinks, SizeOK
<1>15. \A d \in Contexts : d \in ToSet(pool') => ctx_req[d] = Null
  BY <1>0, <1>9 DEF Links
<1>16. \A r \in Requests : wait_context[r] # c
  BY <1>0, LifecycleAssumption DEF Links
<1> QED BY <1>5, <1>6, <1>7, <1>9, <1>10, <1>11, <1>12, <1>13, <1>14, <1>15, <1>16, MoveStep

\* Calling complete for the front of the queues.
LEMMA FrontCompletes ==
  ASSUME IInv, NEW t \in Threads, NEW c \in Contexts, SomeOp, c = FrontOp.ctx, ctx_req[c] # Null,
         NEW err, NEW ret, pc[t] = "post", pc' = [pc EXCEPT ![t] = "complete"], Quiet(t),
         call' = [call EXCEPT ![t] = [req |-> ctx_req[c], err |-> err, op |-> FrontOp.op,
                                      ctx |-> c, ret |-> ret]],
         \/ ret = "injected" /\ FrontOp.type = "INJECT"
         \/ ret = "failed" /\ err # "SUCCESS",
         UNCHANGED <<cancelling, callbacks, called, leader, ft_mutex, pending_ops_mutex>>
  PROVE  IInv'
<1>0. /\ TypeOK /\ QueueTypeOK /\ ThreadOK(t) /\ CallbackKept /\ OneSpot /\ SpotsExact /\ Links
      /\ OpsExact
  BY DEF IInv, Control
<1>r. PICK r : r = ctx_req[c]
  OBVIOUS
<1>1. /\ pc'[t] = "complete"
      /\ call'[t] = [req |-> r, err |-> err, op |-> FrontOp.op, ctx |-> c, ret |-> ret]
      /\ UNCHANGED <<workload, wait_context, gen, error, op_type, size, ended, ctx_req, pool,
                     created, comp, priority_ops, pending_ops>>
  BY <1>0, <1>r DEF TypeOK, CallType, Quiet
<1>2. /\ r \in Requests /\ wait_context[r] = c /\ FrontOp.op = <<r, gen[r]>>
      /\ FrontOp.type = op_type[r]
  BY <1>0, <1>r, FrontFacts DEF TypeOK, Links, OpsExact
<1>3. leader = t /\ leader' = t /\ pending_ops_mutex = t /\ comp = <<>>
  BY <1>0, PlainPlace DEF ThreadOK
<1>4. /\ ~Holds(t)' /\ Leads(t)' /\ Posts(t)' /\ Completes(t)' /\ ~Returns(t, {"idle"})'
      /\ ~Returns(t, {"destroy"})'
      /\ Returns(t, {"injected"})' => ret = "injected"
      /\ Returns(t, {"failed", "idle"})' => ret = "failed"
      /\ \A d : ~HeldBy(t, d)' /\ ~FreshBy(t, d)'
      /\ \A q : Cancels(t, q) => Cancels(t, q)'
  BY <1>1, PlainPlace
     DEF Holds, Leads, Posts, HeldBy, FreshBy, Cancels, Completes, Returns
<1>5. TypeOK'
  <2>1. "complete" \in PCs /\ cancelling' = [u \in Threads |-> cancelling'[u]] /\ CallType
    BY <1>0 DEF PCs, TypeOK
  <2>2. CallType'
    BY <2>1, CallTypeStep
  <2> QED BY <1>0, <1>1, <2>1, <2>2, TypeFrame
<1>6. ThreadOK(t)'
  BY <1>0, <1>1, <1>2, <1>3, <1>4, PlainPlace DEF ThreadOK, Owner
<1>7. ThreadLinks(t)' /\ SizeOK(t)'
  BY <1>1, <1>2, <1>4 DEF ThreadLinks, SizeOK
<1>8. \A u \in Threads : u # t => SameLocks(u)
  BY LocksFrame
<1>9. CallbackKept' /\ callbacks' \in Seq(Requests \X Nat)
  BY <1>0, <1>1, SameCallbacks DEF QueueTypeOK
<1>10. leader' # Null
  BY <1>3, LifecycleAssumption
<1> QED BY <1>1, <1>3, <1>4, <1>5, <1>6, <1>7, <1>8, <1>9, <1>10, IdleBefore, QuietStep

LEMMA PostInjectedStep ==
  ASSUME IInv, NEW t \in Threads, PostInjected(t)
  PROVE  IInv'
<1>0. TypeOK /\ QueueTypeOK /\ SpotsExact
  BY DEF IInv
<1>c. PICK c : c = FrontOp.ctx
  OBVIOUS
<1>1. SomeOp /\ FrontOp.type = "INJECT" /\ pc[t] = "post" /\ c \in Contexts
  BY <1>0, <1>c, FrontFacts DEF PostInjected
<1>2. CASE ctx_req[c] # Null
  <2>1. /\ pc' = [pc EXCEPT ![t] = "complete"]
        /\ call' = [call EXCEPT ![t] = [req |-> ctx_req[c], err |-> "SUCCESS", op |-> FrontOp.op,
                                        ctx |-> c, ret |-> "injected"]]
        /\ UNCHANGED <<cancelling, callbacks, called, leader, ft_mutex, pending_ops_mutex>>
    BY <1>2, <1>c DEF PostInjected, EnterComplete, Goto, cbVars, lockVars
  <2>2. Quiet(t)
    BY <1>0, <1>2, <1>c, <2>1
       DEF PostInjected, Quiet, Others, TypeOK, CallType, reqVars, ctxVars, queueVars, fabricVars,
           readVars
  <2> QED BY <1>1, <1>2, <1>c, <2>1, <2>2, FrontCompletes
<1>3. CASE ctx_req[c] = Null
  <2>1. /\ pool' = Append(pool, c) /\ PopFront /\ pc' = pc /\ call' = call
        /\ ctx_req' = [ctx_req EXCEPT ![c] = Null] /\ created' = created
    BY <1>3, <1>c DEF PostInjected, DestroyContext
  <2>2. /\ ctx_req' = ctx_req /\ pc' = [pc EXCEPT ![t] = "post"] /\ CallType'
    BY <1>0, <1>1, <1>3, <2>1, NullAgain DEF TypeOK, CallType
  <2>3. /\ Others(t) /\ RequestsSame
        /\ UNCHANGED <<cancelling, callbacks, called, leader, ft_mutex, pending_ops_mutex,
                       posted, cq, comp>>
    BY <1>3, <1>c, <2>1, <2>2
       DEF PostInjected, RequestsSame, Others, reqVars, fabricVars, readVars, cbVars, lockVars
  <2> QED BY <1>1, <1>3, <1>c, <2>1, <2>2, <2>3, FrontPopped
<1> QED BY <1>2, <1>3

LEMMA PostFailedStep ==
  ASSUME IInv, NEW t \in Threads, PostFailed(t)
  PROVE  IInv'
<1>0. TypeOK /\ QueueTypeOK /\ SpotsExact
  BY DEF IInv
<1>c. PICK c : c = FrontOp.ctx
  OBVIOUS
<1>1. SomeOp /\ pc[t] = "post" /\ c \in Contexts
  BY <1>0, <1>c, FrontFacts DEF PostFailed
<1>2. CASE ctx_req[c] # Null
  <2>1. /\ pc' = [pc EXCEPT ![t] = "complete"]
        /\ call' = [call EXCEPT ![t] = [req |-> ctx_req[c], err |-> "LIBFABRIC_ERROR",
                                        op |-> FrontOp.op, ctx |-> c, ret |-> "failed"]]
        /\ UNCHANGED <<cancelling, callbacks, called, leader, ft_mutex, pending_ops_mutex>>
    BY <1>2, <1>c DEF PostFailed, EnterComplete, Goto, cbVars, lockVars
  <2>2. Quiet(t)
    BY <1>0, <1>2, <1>c, <2>1
       DEF PostFailed, Quiet, Others, TypeOK, CallType, reqVars, ctxVars, queueVars, fabricVars,
           readVars
  <2>3. "LIBFABRIC_ERROR" # "SUCCESS"
    OBVIOUS
  <2> QED BY <1>1, <1>2, <1>c, <2>1, <2>2, <2>3, FrontCompletes
<1>3. CASE ctx_req[c] = Null
  <2>1. PopFront /\ pc' = pc /\ call' = call /\ pool' = pool
    BY <1>3, <1>c DEF PostFailed, ctxVars
  <2>2. pc' = [pc EXCEPT ![t] = "post"] /\ CallType'
    BY <1>0, <1>1, <1>3, <2>1 DEF TypeOK, CallType
  <2>3. /\ Others(t) /\ RequestsSame
        /\ UNCHANGED <<cancelling, callbacks, called, leader, ft_mutex, pending_ops_mutex,
                       posted, cq, comp>>
    BY <1>3, <1>c, <2>1, <2>2
       DEF PostFailed, RequestsSame, Others, reqVars, ctxVars, fabricVars, readVars, cbVars,
           lockVars
  <2> QED BY <1>1, <1>3, <1>c, <2>1, <2>2, <2>3, FrontPopped
<1> QED BY <1>2, <1>3

\* Back from complete, the front of the queues is what complete was called for.
LEMMA FinishInjectedStep ==
  ASSUME IInv, NEW t \in Threads, FinishInjected(t)
  PROVE  IInv'
<1>0. TypeOK /\ QueueTypeOK /\ SpotsExact /\ ThreadLinks(t)
  BY DEF IInv, RunningOps
<1>c. PICK c : c = call[t].ctx
  OBVIOUS
<1>1. pc[t] = "injected" /\ c \in Contexts /\ ctx_req[c] = Null /\ SomeOp /\ c = FrontOp.ctx
  BY <1>0, <1>c, PlainPlace DEF FinishInjected, ThreadLinks, SpotsExact
<1>2. /\ pool' = Append(pool, c) /\ PopFront /\ pc' = [pc EXCEPT ![t] = "post"]
      /\ call' = [call EXCEPT ![t] = NoCall] /\ ctx_req' = ctx_req /\ created' = created
  BY <1>0, <1>1, <1>c, NullAgain DEF FinishInjected, DestroyContext, Goto
<1>3. CallType'
  BY <1>0, <1>2, CallTypeStep DEF TypeOK, NoCall
<1>4. /\ Others(t) /\ RequestsSame
      /\ UNCHANGED <<cancelling, callbacks, called, leader, ft_mutex, pending_ops_mutex,
                     posted, cq, comp>>
  BY <1>0, <1>2
     DEF FinishInjected, RequestsSame, Others, TypeOK, CallType, reqVars, fabricVars, readVars,
         cbVars, lockVars
<1> QED BY <1>1, <1>2, <1>3, <1>4, FrontPopped

LEMMA FinishFailedStep ==
  ASSUME IInv, NEW t \in Threads, FinishFailed(t)
  PROVE  IInv'
<1>0. TypeOK /\ QueueTypeOK /\ SpotsExact /\ ThreadLinks(t)
  BY DEF IInv, RunningOps
<1>c. PICK c : c = call[t].ctx
  OBVIOUS
<1>1. pc[t] = "failed" /\ c \in Contexts /\ ctx_req[c] = Null /\ SomeOp /\ c = FrontOp.ctx
  BY <1>0, <1>c, PlainPlace DEF FinishFailed, ThreadLinks, SpotsExact
<1>2. /\ pool' = pool /\ PopFront /\ pc' = [pc EXCEPT ![t] = "post"]
      /\ call' = [call EXCEPT ![t] = NoCall]
  BY DEF FinishFailed, Goto, ctxVars
<1>3. CallType'
  BY <1>0, <1>2, CallTypeStep DEF TypeOK, NoCall
<1>4. /\ Others(t) /\ RequestsSame
      /\ UNCHANGED <<cancelling, callbacks, called, leader, ft_mutex, pending_ops_mutex,
                     posted, cq, comp>>
  BY <1>0, <1>2
     DEF FinishFailed, RequestsSame, Others, TypeOK, CallType, reqVars, ctxVars, fabricVars,
         readVars, cbVars, lockVars
<1> QED BY <1>1, <1>2, <1>3, <1>4, FrontPopped

LEMMA PostAcceptedStep ==
  ASSUME IInv, NEW t \in Threads, PostAccepted(t)
  PROVE  IInv'
<1>0. /\ TypeOK /\ QueueTypeOK /\ Control /\ ThreadOK(t) /\ CallbackKept /\ OneSpot /\ SpotsExact
      /\ Links /\ OpsExact
  BY DEF IInv, Control
<1>o. PICK o : o = FrontOp
  OBVIOUS
<1>c. PICK c : c = o.ctx
  OBVIOUS
<1>n. PICK new : new = [ctx |-> c, op |-> o.op]
  OBVIOUS
<1>1. /\ pc[t] = "post" /\ SomeOp /\ PopFront /\ Others(t) /\ RequestsSame
      /\ posted' = posted \cup {new}
      /\ UNCHANGED <<pc, call, cancelling, callbacks, called, leader, ft_mutex, pending_ops_mutex,
                     pool, cq, comp>>
  BY <1>o, <1>c, <1>n
     DEF PostAccepted, RequestsSame, Others, reqVars, ctxVars, readVars, cbVars, lockVars
<1>2. UNCHANGED <<workload, wait_context, gen, op_type, error, size, ended, ctx_req, created>>
  BY <1>1 DEF RequestsSame
<1>3. c \in Contexts /\ o \in Ops /\ o \in ToSet(priority_ops) \cup ToSet(pending_ops)
  BY <1>0, <1>1, <1>o, <1>c, FrontFacts
<1>4. /\ priority_ops' \in Seq(Ops) /\ pending_ops' \in Seq(Ops)
      /\ NoRepeat(priority_ops') /\ NoRepeat(pending_ops')
      /\ ToSet(priority_ops') \subseteq ToSet(priority_ops)
      /\ ToSet(pending_ops') \subseteq ToSet(pending_ops)
  BY <1>0, <1>1, FrontLeaves
<1>5. PICK k \in {"priority", "pending"} :
        /\ In(k, c)
        /\ \A d \in Contexts : In(k, d)' <=> In(k, d) /\ d # c
        /\ \A m \in {"priority", "pending"}, d \in Contexts : m # k => (In(m, d)' <=> In(m, d))
  BY <1>0, <1>1, <1>o, <1>c, FrontLeaves
<1>6. k \in Spots /\ k # "posted" /\ c \in created /\ ~In("posted", c)
  BY <1>0, <1>3, <1>5 DEF SpotsExact, OneSpot, Spots
<1>7. leader = t /\ leader' = t /\ comp = <<>>
  BY <1>0, <1>1, PlainPlace DEF ThreadOK
<1>8. /\ \A u \in Threads : u # t => SameLocks(u) /\ ~Leads(u) /\ ~AtFront(u)
      /\ leader' # Null
  <2>1. \A u \in Threads : u # t => SameLocks(u)
    BY <1>1, LocksFrame
  <2>2. \A u \in Threads : u # t => ~Leads(u)
    BY <1>0, <1>7 DEF Control, ThreadOK
  <2>3. \A u : AtFront(u) => Leads(u)
    BY DEF AtFront, Leads, Returns
  <2> QED BY <1>7, <2>1, <2>2, <2>3, LifecycleAssumption
<1>9. /\ \A d : ~HeldBy(t, d) /\ ~HeldBy(t, d)' /\ ~FreshBy(t, d) /\ ~FreshBy(t, d)'
      /\ ~AtFront(t)' /\ \A q : Cancels(t, q) => Cancels(t, q)'
  BY <1>1, Idle, IdleBefore, PlainPlace, PlainPlaceAfter
<1>10. \A d \in Contexts : In("posted", d)' <=> In("posted", d) \/ d = c
  BY <1>1, <1>n, InData, InDataAfter
<1>11. ASSUME NEW d \in Contexts, NEW m \in Spots, m \notin {k, "posted"}
       PROVE  In(m, d)' <=> In(m, d)
  <2>1. CASE m \in {"priority", "pending"}
    BY <1>5, <1>11, <2>1
  <2>2. CASE m \notin {"priority", "pending"}
    BY <1>1, <1>2, <1>9, <1>11, <2>2, InSame, HeldSame, FreshSame DEF Spots
  <2> QED BY <2>1, <2>2
<1>12. MoveTo(c, "posted")
  BY <1>0, <1>3, <1>5, <1>6, <1>10, <1>11, Moved DEF Spots
<1>13. /\ OneSpot'
       /\ (\A d \in Contexts : \A m \in Spots : In(m, d) => d \in created)'
       /\ \A d \in Contexts : (\E m \in Spots : In(m, d)) => (\E m \in Spots : In(m, d)')
  BY <1>0, <1>2, <1>3, <1>6, <1>12, MovedSpots DEF Spots
<1>14. SpotsExact'
  <2>1. (\A u \in Threads : AtFront(u) => SomeOp /\ call[u].ctx = FrontOp.ctx)'
    BY <1>0, <1>1, <1>8, <1>9, FrontFrame
  <2>2. \A p, q \in posted' : p.ctx = q.ctx => p = q
    BY <1>0, <1>1, <1>6, <1>n, InData DEF SpotsExact
  <2> QED BY <1>0, <1>1, <1>4, <1>13, <2>1, <2>2 DEF SpotsExact
<1>15. TypeOK'
  BY <1>0, <1>1, <1>2 DEF TypeOK, CallType
<1>16. QueueTypeOK' /\ CallbackKept'
  <2>1. new \in [ctx : Contexts, op : Requests \X Nat]
    BY <1>3, <1>c, <1>n DEF Ops
  <2> QED BY <1>0, <1>1, <1>2, <1>4, <2>1, SameCallbacks DEF QueueTypeOK
<1>17. OpsExact'
  <2>1. ctx_req[c] # Null => new.op = <<ctx_req[c], gen[ctx_req[c]]>>
    BY <1>0, <1>3, <1>c, <1>n DEF OpsExact
  <2>2. new.ctx = c
    BY <1>n
  <2> QED BY <1>0, <1>1, <1>2, <1>4, <2>1, <2>2 DEF OpsExact
<1>18. ThreadOK(t)'
  BY <1>0, <1>1, <1>2, <1>7, PlainPlace, PlainPlaceAfter DEF ThreadOK, Owner
<1>19. ThreadLinks(t)' /\ SizeOK(t)'
  BY <1>1, PlainPlaceAfter DEF ThreadLinks, SizeOK
<1>20. \A d \in Contexts : d \in ToSet(pool') => ctx_req[d] = Null
  BY <1>0, <1>1 DEF Links
<1> QED BY <1>1, <1>7, <1>8, <1>9, <1>13, <1>14, <1>15, <1>16, <1>17, <1>18, <1>19, <1>20, MoveStep

\* The provider ends an operation.
LEMMA ArriveStep ==
  ASSUME IInv, NEW p \in posted, NEW err \in Errors, Arrive(p, err)
  PROVE  IInv'
<1>0. /\ TypeOK /\ QueueTypeOK /\ Control /\ CallbackKept /\ OneSpot /\ SpotsExact
      /\ Links /\ OpsExact /\ RunningOps /\ Outstanding /\ FtExact /\ SizeExact /\ OwnOpNow
  BY DEF IInv
<1>c. PICK c : c = p.ctx
  OBVIOUS
<1>n. PICK new : new = [ctx |-> c, op |-> p.op, err |-> err]
  OBVIOUS
<1>1. /\ posted' = posted \ {p} /\ cq' = Append(cq, new)
      /\ UNCHANGED <<pc, call, cancelling, callbacks, called, leader, ft_mutex, pending_ops_mutex,
                     priority_ops, pending_ops, pool, comp, workload, wait_context, gen, op_type,
                     error, size, ended, ctx_req, created, ft_requests>>
  BY <1>c, <1>n DEF Arrive, reqVars, ctxVars, queueVars, readVars, cbVars, lockVars
<1>2. p \in [ctx : Contexts, op : Requests \X Nat] /\ cq \in Seq(Entries)
  BY <1>0 DEF QueueTypeOK
<1>3. c \in Contexts /\ new \in Entries /\ In("posted", c) /\ c \in created
  BY <1>0, <1>2, <1>c, <1>n, InData DEF Entries, SpotsExact, Spots
<1>4. \A e \in ToSet(cq) : e.ctx # c
  BY <1>0, <1>3, InData DEF OneSpot, Spots
<1>5. cq' \in Seq(Entries) /\ ToSet(cq') = ToSet(cq) \cup {new} /\ NoRepeat(cq')
  BY <1>0, <1>1, <1>2, <1>3, <1>4, <1>n, AppendOp DEF SpotsExact
<1>6. /\ \A u : (AtFront(u)' <=> AtFront(u)) /\ (Leads(u)' <=> Leads(u)) /\ (Posts(u)' <=> Posts(u))
            /\ (Holds(u)' <=> Holds(u)) /\ (Completes(u)' <=> Completes(u))
      /\ \A u, R : Returns(u, R)' <=> Returns(u, R)
      /\ \A u, r : Cancels(u, r)' <=> Cancels(u, r)
      /\ \A u, d : (HeldBy(u, d)' <=> HeldBy(u, d)) /\ (FreshBy(u, d)' <=> FreshBy(u, d))
  BY <1>1 DEF AtFront, Leads, Posts, Holds, Completes, Returns, Cancels, HeldBy, FreshBy
<1>7. MoveTo(c, "cq")
  <2>1. ASSUME NEW d \in Contexts, NEW m \in Spots, m \notin {"posted", "cq"}
        PROVE  In(m, d)' <=> In(m, d)
    <3>1. CASE m \notin {"held", "fresh"}
      BY <1>1, <2>1, <3>1, InSame DEF Spots
    <3>2. CASE m = "held"
      BY <1>6, <3>2 DEF In
    <3>3. CASE m = "fresh"
      BY <1>6, <3>3 DEF In
    <3> QED BY <3>1, <3>2, <3>3
  <2>2. \A d \in Contexts : In("posted", d)' <=> In("posted", d) /\ d # c
    BY <1>0, <1>1, <1>c, InData, InDataAfter DEF SpotsExact
  <2>3. \A d \in Contexts : In("cq", d)' <=> In("cq", d) \/ d = c
    BY <1>5, <1>n, InData, InDataAfter
  <2> QED BY <1>0, <1>3, <2>1, <2>2, <2>3, Moved DEF Spots
<1>8. /\ OneSpot'
      /\ (\A d \in Contexts : \A m \in Spots : In(m, d) => d \in created)'
      /\ \A d \in Contexts : (\E m \in Spots : In(m, d)) => (\E m \in Spots : In(m, d)')
  BY <1>0, <1>1, <1>3, <1>7, MovedSpots DEF Spots
<1>9. SpotsExact'
  <2>1. (\A u \in Threads : AtFront(u) => SomeOp /\ call[u].ctx = FrontOp.ctx)'
    BY <1>0, <1>1, <1>6 DEF SpotsExact, SomeOp, FrontOp
  <2> QED BY <1>0, <1>1, <1>5, <1>8, <2>1 DEF SpotsExact
<1>10. TypeOK'
  BY <1>0, <1>1 DEF TypeOK, CallType
<1>11. QueueTypeOK'
  BY <1>0, <1>1, <1>5 DEF QueueTypeOK
<1>12. OpsExact'
  <2>1. new.ctx = p.ctx /\ new.op = p.op
    BY <1>c, <1>n
  <2> QED BY <1>0, <1>1, <1>5, <2>1 DEF OpsExact
<1>13. Control'
  <2>1. ASSUME NEW u \in Threads PROVE ThreadOK(u)'
    <3>1. ThreadOK(u)
      BY <1>0 DEF Control
    <3> QED BY <1>1, <1>6, <3>1 DEF ThreadOK, Owner
  <2> QED BY <1>0, <1>1, <2>1 DEF Control
<1>14. Links' /\ CallbackKept' /\ OwnOpNow'
  BY <1>0, <1>1, SameCallbacks DEF Links, OwnOpNow
<1>15. RunningOps'
  BY <1>0, <1>1, <1>6 DEF RunningOps, ThreadLinks
<1>16. Outstanding'
  BY <1>0, <1>1, <1>6, <1>8 DEF Outstanding
<1>17. FtExact'
  BY <1>0, <1>1 DEF FtExact, FtListNow, InTransit
<1>18. SizeExact'
  BY <1>0, <1>1, <1>6 DEF SizeExact, SizesNow, SizeOK
<1> QED BY <1>8, <1>9, <1>10, <1>11, <1>12, <1>13, <1>14, <1>15, <1>16, <1>17, <1>18 DEF IInv

-----------------------------------------------------------------------------
(* The steps that change requests or the list of the communicator.         *)

LEMMA RegisterRequestStep ==
  ASSUME IInv, NEW t \in Threads, RegisterRequest(t)
  PROVE  IInv'
<1>0. /\ TypeOK /\ QueueTypeOK /\ Control /\ ThreadOK(t) /\ ThreadLinks(t) /\ CallbackKept
      /\ OneSpot /\ SpotsExact /\ Links /\ OpsExact /\ FtExact
  BY DEF IInv, Control, RunningOps
<1>r. PICK r : r = call[t].req
  OBVIOUS
<1>1. /\ pc[t] = "register" /\ pc' = [pc EXCEPT ![t] = "idle"] /\ pc'[t] = "idle" /\ Others(t)
      /\ call' = [call EXCEPT ![t] = NoCall]
      /\ FT => ft_requests' = ft_requests \cup {r} /\ ft_mutex' = Null
      /\ ~FT => ft_requests' = ft_requests /\ ft_mutex' = ft_mutex
      /\ UNCHANGED <<cancelling, callbacks, called, leader, pending_ops_mutex, priority_ops,
                     pending_ops, posted, cq, comp, pool, workload, wait_context, gen, op_type, error,
                     size, ended, ctx_req, created>>
  BY <1>0, <1>r
     DEF RegisterRequest, Goto, TypeOK, CallType, Others, reqVars, ctxVars, queueVars, fabricVars,
         readVars, cbVars
<1>2. /\ r \in Requests /\ cancelling[t].req = Null
      /\ FT => ft_mutex = t /\ wait_context[r] # Null
  BY <1>0, <1>1, <1>r DEF ThreadOK, ThreadLinks
<1>3. \A u \in Threads : u # t => SameLocks(u)
  BY <1>1, <1>2, LocksFrame, LifecycleAssumption DEF SameLocks
<1>4. \A d : ~HeldBy(t, d) /\ ~HeldBy(t, d)' /\ ~FreshBy(t, d) /\ ~FreshBy(t, d)'
  BY <1>1, Idle, IdleBefore
<1>5. Stay
  <2>1. ASSUME NEW d \in Contexts, NEW m \in Spots PROVE In(m, d)' <=> In(m, d)
    BY <1>1, <1>4, <2>1, InSame, HeldSame, FreshSame DEF Spots
  <2> QED BY <2>1 DEF Stay
<1>6. OneSpot'
  BY <1>0, <1>5, StayOneSpot
<1>7. SpotsExact'
  <2>1. (\A u \in Threads : AtFront(u) => SomeOp /\ call[u].ctx = FrontOp.ctx)'
    BY <1>0, <1>1, PlainPlaceAfter, FrontFrame
  <2>2. (\A c \in Contexts : \A k \in Spots : In(k, c) => c \in created)'
    BY <1>0, <1>1, <1>5 DEF SpotsExact, Stay
  <2> QED BY <1>0, <1>1, <2>1, <2>2 DEF SpotsExact
<1>8. TypeOK'
  <2>1. "idle" \in PCs /\ cancelling' = [u \in Threads |-> cancelling'[u]] /\ CallType
    BY <1>0, <1>1 DEF PCs, TypeOK
  <2>2. CallType'
    BY <1>1, <2>1, CallTypeStep DEF NoCall
  <2> QED BY <1>0, <1>1, <2>1, <2>2, TypeFrame
<1>9. QueueTypeOK' /\ OpsExact' /\ CallbackKept'
  BY <1>0, <1>1, SameCallbacks DEF QueueTypeOK, OpsExact
<1>10. ThreadOK(t)'
  BY <1>0, <1>1, <1>2, PlainPlace, PlainPlaceAfter, LifecycleAssumption DEF ThreadOK, Owner
<1>11. ThreadLinks(t)' /\ SizeOK(t)' /\ \A q : Cancels(t, q) => Cancels(t, q)'
  BY <1>1, PlainPlace, PlainPlaceAfter DEF ThreadLinks, SizeOK
<1>12. FtExact'
  <2>1. \A u \in Threads : u # t => pc'[u] = pc[u] /\ call'[u] = call[u]
    BY <1>1 DEF Others
  <2>2. InTransit \subseteq InTransit' \cup {r}
    BY <1>r, <2>1 DEF InTransit
  <2>3. FtListNow'
    BY <1>0, <1>1, <1>2, <2>2 DEF FtExact, FtListNow
  <2>4. ASSUME FT, NEW u \in Threads, NEW v \in Threads, pc'[u] = "finish"
        PROVE  /\ call'[u].req \notin ft_requests'
               /\ pc'[v] \in {"push", "register"} => call'[v].req # call'[u].req
    BY <1>0, <1>1, <1>r, <2>1, <2>4 DEF FtExact
  <2> QED BY <2>3, <2>4 DEF FtExact
<1>13. \A d \in Contexts : d \in ToSet(pool') => ctx_req[d] = Null
  BY <1>0, <1>1 DEF Links
<1>14. \A d \in Contexts : (\E k \in Spots : In(k, d)) => (\E k \in Spots : In(k, d)')
  BY <1>5 DEF Stay
<1>15. leader' = Null => comp' = <<>>
  BY <1>0, <1>1 DEF Control
<1> QED BY <1>1, <1>3, <1>6, <1>7, <1>8, <1>9, <1>10, <1>11, <1>12, <1>13, <1>14, <1>15, StepFrame

\* on_request_complete finds the request in the list.
LEMMA FtCompleteStep ==
  ASSUME ~Colliding, IInv, NEW t \in Threads, FtComplete(t)
  PROVE  IInv'
<1>0. /\ TypeOK /\ QueueTypeOK /\ Control /\ ThreadOK(t) /\ ThreadLinks(t) /\ CallbackKept
      /\ OneSpot /\ SpotsExact /\ Links /\ OpsExact /\ FtExact /\ SizeOK(t) /\ RunningOps
  BY DEF IInv, Control, RunningOps, SizeExact
<1>r. PICK r : r = call[t].req
  OBVIOUS
<1>1. /\ pc[t] = "ft_complete" /\ pc' = [pc EXCEPT ![t] = "finish"] /\ pc'[t] = "finish" /\ Others(t)
      /\ ft_requests' = IF r \in ft_requests THEN ft_requests \ {r} ELSE {}
      /\ ft_mutex = Null
      /\ UNCHANGED <<call, cancelling, callbacks, called, leader, pending_ops_mutex, ft_mutex,
                     priority_ops, pending_ops, posted, cq, comp, pool, workload, wait_context, gen,
                     op_type, error, size, ended, ctx_req, created>>
  BY <1>0, <1>r
     DEF FtComplete, Goto, TypeOK, CallType, Others, reqVars, ctxVars, queueVars, fabricVars,
         readVars, cbVars, lockVars
<1>2. FT /\ r \in Requests /\ wait_context[r] # Null
  BY <1>0, <1>1, <1>r DEF ThreadOK, ThreadLinks
<1>3. \A u \in Threads : pc[u] \notin {"push", "register"} /\ (pc[u] = "finish" => call[u].req # r)
  <2>1. \A u \in Threads : pc[u] \notin {"push", "register"}
    BY <1>0, <1>1, <1>2, LifecycleAssumption DEF Control, ThreadOK
  <2>2. \A u \in Threads : pc[u] = "finish" => call[u].req # r
    BY <1>0, <1>1, <1>r, OneCompleter
  <2> QED BY <2>1, <2>2
<1>4. \A u \in Threads : pc[u] = "reset" => call[u].req # r
  BY <1>0, <1>2 DEF RunningOps, ThreadLinks
<1>5. r \notin InTransit /\ r \in ft_requests
  BY <1>0, <1>2, <1>3, <1>4 DEF InTransit, FtExact, FtListNow
<1>6. /\ \A R : Returns(t, R)' <=> Returns(t, R)
      /\ Leads(t)' <=> Leads(t)
      /\ Posts(t)' <=> Posts(t)
      /\ Holds(t)' <=> Holds(t)
      /\ AtFront(t)' <=> AtFront(t)
      /\ Completes(t)' <=> Completes(t)
      /\ \A q : Cancels(t, q)' <=> Cancels(t, q)
  BY <1>1 DEF Returns, Leads, Posts, Holds, AtFront, Completes, Cancels
<1>7. \A d : (HeldBy(t, d)' <=> HeldBy(t, d)) /\ ~FreshBy(t, d) /\ ~FreshBy(t, d)'
  BY <1>1, <1>6 DEF HeldBy, FreshBy
<1>8. Stay
  <2>1. ASSUME NEW d \in Contexts, NEW m \in Spots PROVE In(m, d)' <=> In(m, d)
    BY <1>1, <1>7, <2>1, InSame, HeldSame, FreshSame DEF Spots
  <2> QED BY <2>1 DEF Stay
<1>9. OneSpot'
  BY <1>0, <1>8, StayOneSpot
<1>10. SpotsExact'
  <2>1. SomeOp' = SomeOp /\ FrontOp' = FrontOp
    BY <1>1 DEF SomeOp, FrontOp
  <2>2. AtFront(t)' => SomeOp' /\ call'[t].ctx = FrontOp'.ctx
    BY <1>0, <1>1, <1>6, <2>1 DEF SpotsExact
  <2>3. (\A u \in Threads : AtFront(u) => SomeOp /\ call[u].ctx = FrontOp.ctx)'
    BY <1>0, <1>1, <2>2, FrontFrame
  <2>4. (\A c \in Contexts : \A k \in Spots : In(k, c) => c \in created)'
    BY <1>0, <1>1, <1>8 DEF SpotsExact, Stay
  <2> QED BY <1>0, <1>1, <2>3, <2>4 DEF SpotsExact
<1>11. TypeOK'
  <2>1. "finish" \in PCs /\ cancelling' = [u \in Threads |-> cancelling'[u]] /\ CallType'
    BY <1>0, <1>1 DEF PCs, TypeOK, CallType
  <2> QED BY <1>0, <1>1, <2>1, TypeFrame
<1>12. QueueTypeOK' /\ OpsExact' /\ CallbackKept'
  BY <1>0, <1>1, SameCallbacks DEF QueueTypeOK, OpsExact
<1>13. ThreadOK(t)'
  BY <1>0, <1>1, <1>6 DEF ThreadOK, Owner
<1>14. ThreadLinks(t)' /\ SizeOK(t)'
  BY <1>0, <1>1, <1>2, <1>6, <1>r DEF ThreadLinks, SizeOK
<1>15. FtExact'
  <2>1. \A u \in Threads : u # t => pc'[u] = pc[u] /\ call'[u] = call[u]
    BY <1>1 DEF Others
  <2>2. InTransit \cup {r} \subseteq InTransit'
    <3>1. \A u \in Threads : pc[u] \in {"reset", "push", "register", "finish"} =>
            u # t /\ pc'[u] = pc[u] /\ call'[u] = call[u]
      BY <1>1, <2>1
    <3>2. InTransit \subseteq InTransit'
      BY <3>1 DEF InTransit
    <3>3. r \in InTransit'
      BY <1>1, <1>r DEF InTransit
    <3> QED BY <3>2, <3>3
  <2>3. FtListNow'
    BY <1>0, <1>1, <1>5, <2>2 DEF FtExact, FtListNow
  <2>4. ASSUME NEW u \in Threads, NEW v \in Threads, pc'[u] = "finish"
        PROVE  /\ call'[u].req \notin ft_requests'
               /\ pc'[v] \notin {"push", "register"}
    <3>1. pc'[v] \notin {"push", "register"}
      BY <1>1, <1>3, <2>1
    <3>2. CASE u = t
      BY <1>1, <1>5, <1>r, <3>1, <3>2
    <3>3. CASE u # t
      <4>1. pc[u] = "finish" /\ call'[u].req = call[u].req
        BY <2>1, <2>4, <3>3
      <4>2. call[u].req \notin ft_requests
        BY <1>0, <1>2, <4>1 DEF FtExact
      <4> QED BY <1>1, <1>5, <3>1, <4>1, <4>2
    <3> QED BY <3>1, <3>2, <3>3
  <2> QED BY <2>3, <2>4 DEF FtExact
<1>16. \A d \in Contexts : d \in ToSet(pool') => ctx_req[d] = Null
  BY <1>0, <1>1 DEF Links
<1>17. \A d \in Contexts : (\E k \in Spots : In(k, d)) => (\E k \in Spots : In(k, d)')
  BY <1>8 DEF Stay
<1>18. (leader' = Null => comp' = <<>>) /\ \A u \in Threads : u # t => SameLocks(u)
  BY <1>0, <1>1, LocksFrame DEF Control
<1> QED BY <1>1, <1>6, <1>9, <1>10, <1>11, <1>12, <1>13, <1>14, <1>15, <1>16, <1>17, <1>18, StepFrame

\* cancel drops the operations of the request from the queues.
LEMMA CancelEraseStep ==
  ASSUME IInv, NEW t \in Threads, NEW r \in Requests, CancelErase(t, r)
  PROVE  IInv'
<1>0. /\ TypeOK /\ QueueTypeOK /\ Control /\ ThreadOK(t) /\ CallbackKept
      /\ OneSpot /\ SpotsExact /\ Links /\ OpsExact
  BY DEF IInv, Control
<1>c. PICK c : c = wait_context[r]
  OBVIOUS
<1>1. /\ pc[t] = "idle" /\ pc' = [pc EXCEPT ![t] = "cancel"] /\ pc'[t] = "cancel" /\ Others(t)
      /\ RequestsSame /\ t \in workload.cancellers /\ Owner[r] = t /\ pending_ops_mutex = Null
      /\ cancelling' = [cancelling EXCEPT ![t] = [req |-> r, op |-> <<r, gen[r]>>]]
      /\ cancelling'[t] = [req |-> r, op |-> <<r, gen[r]>>]
      /\ UNCHANGED <<call, callbacks, called, leader, ft_mutex, pending_ops_mutex, posted, cq, comp,
                     pool>>
  BY <1>0
     DEF CancelErase, Goto, TypeOK, CallType, Others, RequestsSame, reqVars, ctxVars, fabricVars,
         readVars, cbVars, lockVars
<1>2. UNCHANGED <<workload, wait_context, gen, op_type, error, size, ended, ctx_req, created>>
  BY <1>1 DEF RequestsSame
<1>3. /\ priority_ops' \in Seq(Ops) /\ NoRepeat(priority_ops')
      /\ ToSet(priority_ops') = {e \in ToSet(priority_ops) : e.ctx # c}
      /\ pending_ops' \in Seq(Ops) /\ NoRepeat(pending_ops')
      /\ ToSet(pending_ops') = {e \in ToSet(pending_ops) : e.ctx # c}
  <2>1. /\ priority_ops \in Seq(Ops) /\ NoRepeat(priority_ops)
        /\ pending_ops \in Seq(Ops) /\ NoRepeat(pending_ops)
    BY <1>0 DEF QueueTypeOK, SpotsExact
  <2>2. CASE c # Null
    <3>1. priority_ops' = EraseIf(priority_ops, c) /\ pending_ops' = EraseIf(pending_ops, c)
      BY <1>c, <2>2 DEF CancelErase
    <3> QED BY <2>1, <3>1, EraseIfOps
  <2>3. CASE c = Null
    <3>1. priority_ops' = priority_ops /\ pending_ops' = pending_ops
      BY <1>c, <2>3 DEF CancelErase, queueVars
    <3>2. \A e \in ToSet(priority_ops) \cup ToSet(pending_ops) : e \in Ops
      BY <2>1 DEF ToSet
    <3>3. \A e \in ToSet(priority_ops) \cup ToSet(pending_ops) : e.ctx # c
      BY <2>3, <3>2, LifecycleAssumption DEF Ops
    <3> QED BY <2>1, <3>1, <3>3
  <2> QED BY <2>2, <2>3
<1>4. \A u \in Threads : u # t => SameLocks(u)
  BY <1>1, LocksFrame
<1>5. \A u \in Threads : ~AtFront(u)
  BY <1>0, <1>1, LifecycleAssumption DEF Control, ThreadOK, AtFront, Posts
<1>6. \A d : ~HeldBy(t, d) /\ ~HeldBy(t, d)' /\ ~FreshBy(t, d) /\ ~FreshBy(t, d)'
  BY <1>1, Idle, IdleBefore
<1>7. ASSUME NEW d \in Contexts, NEW m \in Spots
      PROVE  /\ In(m, d)' => In(m, d)
             /\ d # c => (In(m, d)' <=> In(m, d))
  <2>1. CASE m \in {"priority", "pending"}
    BY <1>3, <2>1, InData, InDataAfter
  <2>2. CASE m \notin {"priority", "pending"}
    BY <1>1, <1>2, <1>6, <2>2, InSame, HeldSame, FreshSame DEF Spots
  <2> QED BY <2>1, <2>2
<1>8. OneSpot'
  BY <1>0, <1>7 DEF OneSpot
<1>9. SpotsExact'
  <2>1. (\A u \in Threads : AtFront(u) => SomeOp /\ call[u].ctx = FrontOp.ctx)'
    BY <1>0, <1>1, <1>5, PlainPlaceAfter, FrontFrame
  <2>2. (\A d \in Contexts : \A k \in Spots : In(k, d) => d \in created)'
    BY <1>0, <1>2, <1>7 DEF SpotsExact
  <2> QED BY <1>0, <1>1, <1>3, <2>1, <2>2 DEF SpotsExact
<1>10. TypeOK'
  <2>1. "cancel" \in PCs /\ cancelling' = [u \in Threads |-> cancelling'[u]] /\ CallType'
    BY <1>0, <1>1 DEF PCs, TypeOK, CallType
  <2> QED BY <1>0, <1>1, <1>2, <2>1, TypeFrame
<1>11. QueueTypeOK' /\ OpsExact' /\ CallbackKept'
  BY <1>0, <1>1, <1>2, <1>3, SameCallbacks DEF QueueTypeOK, OpsExact
<1>12. t \in workload.threads
  BY <1>0, <1>1, LifecycleAssumption DEF TypeOK
<1>13. ThreadOK(t)'
  BY <1>0, <1>1, <1>2, <1>12, PlainPlace, PlainPlaceAfter, LifecycleAssumption DEF ThreadOK, Owner
<1>14. ThreadLinks(t)' /\ SizeOK(t)' /\ Cancels(t, r)'
  BY <1>1, PlainPlaceAfter DEF ThreadLinks, SizeOK
<1>15. \A q \in Requests : ~Cancels(t, q)
  BY <1>0, <1>1, PlainPlace, LifecycleAssumption DEF ThreadOK
<1>16. \A d \in Contexts : d \in ToSet(pool') => ctx_req[d] = Null
  BY <1>0, <1>1 DEF Links
<1>17. ASSUME NEW q \in Requests, NEW d \in Contexts, wait_context[q] = d, \E k \in Spots : In(k, d)
       PROVE  (\E k \in Spots : In(k, d)') \/ Cancels(t, q)'
  <2>1. CASE d = c
    <3>1. q = r
      BY <1>0, <1>17, <1>c, <2>1, LifecycleAssumption DEF Links
    <3> QED BY <1>14, <3>1
  <2>2. CASE d # c
    BY <1>7, <1>17, <2>2
  <2> QED BY <2>1, <2>2
<1>18. leader' = Null => comp' = <<>>
  BY <1>0, <1>1 DEF Control
<1> QED BY <1>1, <1>4, <1>8, <1>9, <1>10, <1>11, <1>13, <1>14, <1>15, <1>16, <1>17, <1>18, MoveStep

\* The operation enters its queue; request.mutex is released.
LEMMA PostPushStep ==
  ASSUME IInv, NEW t \in Threads, PostPush(t)
  PROVE  IInv'
<1>0. /\ TypeOK /\ QueueTypeOK /\ Control /\ ThreadOK(t) /\ ThreadLinks(t) /\ CallbackKept
      /\ OneSpot /\ SpotsExact /\ Links /\ OpsExact /\ RunningOps /\ Outstanding /\ FtExact
      /\ SizeExact /\ OwnOpNow
  BY DEF IInv, Control, RunningOps
<1>r. PICK r : r = call[t].req
  OBVIOUS
<1>c. PICK c : c = wait_context[r]
  OBVIOUS
<1>n. PICK new : new = [ctx |-> c, type |-> op_type[r], op |-> <<r, gen[r]>>]
  OBVIOUS
<1>1. /\ pc[t] = "push" /\ pc' = [pc EXCEPT ![t] = "register"] /\ pc'[t] = "register" /\ Others(t)
      /\ pending_ops_mutex = Null /\ size' = [size EXCEPT ![r] = "asked"]
      /\ \/ priority_ops' = Append(priority_ops, new) /\ pending_ops' = pending_ops
         \/ pending_ops' = Append(pending_ops, new) /\ priority_ops' = priority_ops
      /\ UNCHANGED <<call, cancelling, callbacks, called, leader, pending_ops_mutex, ft_mutex,
                     posted, cq, comp, pool, workload, wait_context, gen, op_type, error, ended,
                     ctx_req, created, ft_requests>>
  BY <1>0, <1>r, <1>c, <1>n
     DEF PostPush, Goto, TypeOK, CallType, Others, ctxVars, fabricVars, readVars, cbVars
<1>2. r \in Requests /\ c # Null /\ c \in Contexts /\ ctx_req[c] = r /\ cancelling[t].req = Null
  BY <1>0, <1>1, <1>r, <1>c DEF ThreadOK, ThreadLinks, TypeOK, Links
<1>o. new \in Ops
  BY <1>0, <1>2, <1>n DEF Ops, TypeOK
<1>3. /\ \A d : (FreshBy(t, d) <=> d = c) /\ ~FreshBy(t, d)' /\ ~HeldBy(t, d) /\ ~HeldBy(t, d)'
      /\ \A q : Cancels(t, q) => Cancels(t, q)'
  BY <1>1, <1>r, <1>c, PlainPlace, PlainPlaceAfter DEF FreshBy, HeldBy
<1>4. In("fresh", c) /\ c \in created
  BY <1>0, <1>2, <1>3 DEF In, SpotsExact, Spots
<1>5. ASSUME NEW u \in Threads, u # t, FreshBy(u, c) PROVE FALSE
  <2>1. pc[u] = "push" /\ wait_context[call[u].req] = c
    BY <1>5 DEF FreshBy
  <2>2. call[u].req \in Requests /\ Owner[call[u].req] = u /\ Owner[r] = t
    BY <1>0, <1>1, <1>r, <2>1 DEF Control, ThreadOK
  <2>3. call[u].req = r
    BY <1>0, <1>2, <2>1, <2>2 DEF Links
  <2> QED BY <1>5, <2>2, <2>3
<1>6. PICK l \in {"priority", "pending"} : MoveTo(c, l)
  <2>1. \A d \in Contexts : In("fresh", d)' <=> In("fresh", d) /\ d # c
    BY <1>1, <1>3, <1>5, FreshFrame
  <2>2. ASSUME NEW d \in Contexts, NEW m \in Spots, m \notin {"fresh", "priority", "pending"}
        PROVE  In(m, d)' <=> In(m, d)
    BY <1>1, <1>3, <2>2, InSame, HeldSame DEF Spots
  <2>3. /\ priority_ops \in Seq(Ops) /\ pending_ops \in Seq(Ops)
    BY <1>0 DEF QueueTypeOK
  <2>4. CASE priority_ops' = Append(priority_ops, new) /\ pending_ops' = pending_ops
    <3>1. ToSet(priority_ops') = ToSet(priority_ops) \cup {new}
      BY <1>o, <2>3, <2>4, AppendOp
    <3>2. \A d \in Contexts : In("priority", d)' <=> In("priority", d) \/ d = c
      BY <1>n, <3>1, InData, InDataAfter
    <3>3. \A d \in Contexts : In("pending", d)' <=> In("pending", d)
      BY <2>4, InSame
    <3>4. \A d \in Contexts : \A m \in Spots : m \notin {"fresh", "priority"} => (In(m, d)' <=> In(m, d))
      BY <2>2, <3>3
    <3>5. MoveTo(c, "priority")
      BY <1>0, <1>2, <1>4, <2>1, <3>2, <3>4, Moved DEF Spots
    <3> QED BY <3>5
  <2>5. CASE pending_ops' = Append(pending_ops, new) /\ priority_ops' = priority_ops
    <3>1. ToSet(pending_ops') = ToSet(pending_ops) \cup {new}
      BY <1>o, <2>3, <2>5, AppendOp
    <3>2. \A d \in Contexts : In("pending", d)' <=> In("pending", d) \/ d = c
      BY <1>n, <3>1, InData, InDataAfter
    <3>3. \A d \in Contexts : In("priority", d)' <=> In("priority", d)
      BY <2>5, InSame
    <3>4. \A d \in Contexts : \A m \in Spots : m \notin {"fresh", "pending"} => (In(m, d)' <=> In(m, d))
      BY <2>2, <3>3
    <3>5. MoveTo(c, "pending")
      BY <1>0, <1>2, <1>4, <2>1, <3>2, <3>4, Moved DEF Spots
    <3> QED BY <3>5
  <2> QED BY <1>1, <2>4, <2>5
<1>7. /\ OneSpot'
      /\ (\A d \in Contexts : \A m \in Spots : In(m, d) => d \in created)'
      /\ \A d \in Contexts : (\E m \in Spots : In(m, d)) => (\E m \in Spots : In(m, d)')
  BY <1>0, <1>1, <1>2, <1>4, <1>6, MovedSpots DEF Spots
<1>8. \A e \in ToSet(priority_ops) \cup ToSet(pending_ops) : e.ctx # c
  BY <1>0, <1>2, <1>4, InData DEF OneSpot, Spots
<1>9. /\ priority_ops' \in Seq(Ops) /\ NoRepeat(priority_ops')
      /\ pending_ops' \in Seq(Ops) /\ NoRepeat(pending_ops')
      /\ ToSet(priority_ops') \cup ToSet(pending_ops')
           = ToSet(priority_ops) \cup ToSet(pending_ops) \cup {new}
  <2>1. /\ priority_ops \in Seq(Ops) /\ NoRepeat(priority_ops)
        /\ pending_ops \in Seq(Ops) /\ NoRepeat(pending_ops) /\ new.ctx = c
    BY <1>0, <1>n DEF QueueTypeOK, SpotsExact
  <2>2. CASE priority_ops' = Append(priority_ops, new) /\ pending_ops' = pending_ops
    <3>1. /\ priority_ops' \in Seq(Ops) /\ NoRepeat(priority_ops')
          /\ ToSet(priority_ops') = ToSet(priority_ops) \cup {new}
      BY <1>o, <1>8, <2>1, <2>2, AppendOp
    <3> QED BY <2>1, <2>2, <3>1
  <2>3. CASE pending_ops' = Append(pending_ops, new) /\ priority_ops' = priority_ops
    <3>1. /\ pending_ops' \in Seq(Ops) /\ NoRepeat(pending_ops')
          /\ ToSet(pending_ops') = ToSet(pending_ops) \cup {new}
      BY <1>o, <1>8, <2>1, <2>3, AppendOp
    <3> QED BY <2>1, <2>3, <3>1
  <2> QED BY <1>1, <2>2, <2>3
<1>10. \A u \in Threads : ~AtFront(u)
  BY <1>0, <1>1, LifecycleAssumption DEF Control, ThreadOK, AtFront, Posts
<1>11. SpotsExact'
  <2>1. (\A u \in Threads : AtFront(u) => SomeOp /\ call[u].ctx = FrontOp.ctx)'
    BY <1>0, <1>1, <1>10, PlainPlaceAfter, FrontFrame
  <2> QED BY <1>0, <1>1, <1>7, <1>9, <2>1 DEF SpotsExact
<1>12. TypeOK'
  <2>1. pc' \in [Threads -> PCs]
    BY <1>0, <1>1, PcType DEF PCs
  <2>2. size' = [q \in Requests |-> size'[q]]
    BY <1>0, <1>1 DEF TypeOK
  <2> QED BY <1>0, <1>1, <2>1, <2>2 DEF TypeOK, CallType
<1>13. QueueTypeOK'
  BY <1>0, <1>1, <1>9 DEF QueueTypeOK
<1>14. OpsExact'
  <2>1. new.ctx = c /\ new.op = <<r, gen[r]>> /\ new.type = op_type[r]
    BY <1>n
  <2> QED BY <1>0, <1>1, <1>2, <1>9, <2>1 DEF OpsExact
<1>15. Control'
  <2>1. ThreadOK(t)'
    BY <1>0, <1>1, <1>2, <1>r, PlainPlace, PlainPlaceAfter DEF ThreadOK, Owner
  <2>2. \A u \in Threads : u # t => SameLocks(u)
    BY <1>1, LocksFrame
  <2> QED BY <1>0, <1>1, <2>1, <2>2, ControlFrame DEF Control
<1>16. Links' /\ CallbackKept' /\ OwnOpNow'
  BY <1>0, <1>1, SameCallbacks DEF Links, OwnOpNow
<1>17. RunningOps'
  <2>1. ThreadLinks(t)'
    BY <1>1, <1>2, <1>r, <1>c, PlainPlaceAfter DEF ThreadLinks
  <2> QED BY <1>0, <1>1, <2>1, RunningFrame
<1>18. Outstanding'
  BY <1>0, <1>1, <1>3, <1>7, OutstandingFrame
<1>19. FtExact'
  <2>1. \A u \in Threads : /\ u # t => pc'[u] = pc[u]
                           /\ call'[u] = call[u]
    BY <1>1 DEF Others
  <2>2. \A u \in Threads :
          /\ pc'[u] \in {"push", "register"} <=> pc[u] \in {"push", "register"}
          /\ pc'[u] = "finish" <=> pc[u] = "finish"
          /\ pc'[u] \in {"reset", "push", "register", "finish"}
             <=> pc[u] \in {"reset", "push", "register", "finish"}
    BY <1>1, <2>1
  <2>3. InTransit' = InTransit
    BY <2>1, <2>2 DEF InTransit
  <2>4. FtListNow'
    BY <1>0, <1>1, <2>3 DEF FtExact, FtListNow
  <2> QED BY <1>0, <1>1, <2>1, <2>2, <2>4 DEF FtExact
<1>20. SizeExact'
  <2>1. \A q \in Requests : q # r => size'[q] = size[q]
    BY <1>0, <1>1, <1>2 DEF TypeOK
  <2>2. SizesNow'
    BY <1>0, <1>1, <1>2, <1>c, <2>1 DEF SizeExact, SizesNow
  <2>3. SizeOK(t)'
    BY <1>1, PlainPlaceAfter DEF SizeOK
  <2>4. ASSUME NEW u \in Threads, u # t PROVE SizeOK(u)'
    <3>1. SizeOK(u) /\ call'[u] = call[u]
      BY <1>0, <1>1, <2>4 DEF SizeExact
    <3>2. \A R : Returns(u, R)' <=> Returns(u, R)
      BY <1>1, <2>4, OtherPlace
    <3>3. Returns(u, {"destroy"}) => call[u].req \in Requests
      BY <1>0 DEF Control, ThreadOK, Returns
    <3>4. Returns(u, {"destroy"}) => call[u].req # r
      <4> SUFFICES ASSUME Returns(u, {"destroy"}), call[u].req = r PROVE FALSE
        OBVIOUS
      <4>1. Completes(u) /\ Holds(u)
        BY DEF Completes, Holds, Returns
      <4>2. HeldBy(u, c)
        BY <1>0, <1>c, <4>1 DEF HeldBy, RunningOps, ThreadLinks
      <4>3. In("held", c)
        BY <4>2 DEF In
      <4> QED BY <1>0, <1>2, <1>4, <4>3 DEF OneSpot, Spots
    <3> QED BY <1>1, <2>1, <3>1, <3>2, <3>3, <3>4 DEF SizeOK
  <2> QED BY <2>2, <2>3, <2>4 DEF SizeExact
<1> QED BY <1>7, <1>11, <1>12, <1>13, <1>14, <1>15, <1>16, <1>17, <1>18, <1>19, <1>20 DEF IInv

LEMMA OpContexts ==
  ASSUME QueueTypeOK
  PROVE  /\ \A e \in ToSet(priority_ops) \cup ToSet(pending_ops) : e.ctx \in Contexts
         /\ \A e \in posted \cup ToSet(cq) \cup ToSet(comp) : e.ctx \in Contexts
<1>1. \A S : \A s \in Seq(S) : \A e \in ToSet(s) : e \in S
  BY DEF ToSet
<1>2. \A e \in ToSet(priority_ops) \cup ToSet(pending_ops) : e \in Ops
  BY <1>1 DEF QueueTypeOK
<1>3. \A e \in ToSet(cq) \cup ToSet(comp) : e \in Entries
  BY <1>1 DEF QueueTypeOK
<1>4. \A e \in posted : e \in [ctx : Contexts, op : Requests \X Nat]
  BY DEF QueueTypeOK
<1> QED BY <1>2, <1>3, <1>4 DEF Ops, Entries

\* complete: the request and its context are taken apart.
LEMMA CompleteLockedStep ==
  ASSUME ~Colliding, IInv, NEW t \in Threads, CompleteLocked(t)
  PROVE  IInv'
<1>0. /\ TypeOK /\ QueueTypeOK /\ Control /\ ThreadOK(t) /\ ThreadLinks(t) /\ CallbackKept
      /\ OneSpot /\ SpotsExact /\ Links /\ OpsExact /\ RunningOps /\ Outstanding /\ FtExact
      /\ SizeExact /\ SizeOK(t) /\ OwnOpNow
  BY DEF IInv, Control, RunningOps, SizeExact
<1>r. PICK r : r = call[t].req
  OBVIOUS
<1>c. PICK c : c = wait_context[r]
  OBVIOUS
<1>2. /\ pc[t] = "finish" /\ r \in Requests /\ c # Null /\ c \in Contexts /\ ctx_req[c] = r
      /\ call[t].ret \in {"idle", "destroy", "injected", "failed"}
  BY <1>0, <1>r, <1>c DEF CompleteLocked, ThreadOK, ThreadLinks, TypeOK, Links
<1>1. /\ pc' = [pc EXCEPT ![t] = call[t].ret] /\ pc'[t] = call[t].ret /\ Others(t)
      /\ error' = [error EXCEPT ![r] = call[t].err]
      /\ ctx_req' = [ctx_req EXCEPT ![c] = Null]
      /\ wait_context' = [wait_context EXCEPT ![r] = Null]
      /\ callbacks' = Append(callbacks, <<r, gen[r]>>)
      /\ ended' = [ended EXCEPT ![r] = call[t].op]
      /\ UNCHANGED <<call, cancelling, called, leader, pending_ops_mutex, ft_mutex,
                     priority_ops, pending_ops, posted, cq, comp, pool, workload, gen, op_type,
                     size, created, ft_requests>>
  BY <1>0, <1>2, <1>r, <1>c
     DEF CompleteLocked, Goto, TypeOK, CallType, Others, queueVars, fabricVars, readVars, lockVars
<1>3. /\ wait_context'[r] = Null /\ \A q \in Requests : q # r => wait_context'[q] = wait_context[q]
      /\ ctx_req'[c] = Null /\ \A d \in Contexts : d # c => ctx_req'[d] = ctx_req[d]
      /\ error'[r] = call[t].err /\ \A q \in Requests : q # r => error'[q] = error[q]
      /\ ended'[r] = call[t].op /\ \A q \in Requests : q # r => ended'[q] = ended[q]
  BY <1>0, <1>1, <1>2 DEF TypeOK
\* what the caller of complete has
<1>4. /\ Returns(t, {"idle"}) <=> call[t].ret = "idle"
      /\ Completes(t) <=> call[t].ret \in {"destroy", "injected", "failed"}
      /\ Holds(t) <=> call[t].ret = "destroy"
      /\ AtFront(t) <=> call[t].ret \in {"injected", "failed"}
      /\ Posts(t) <=> call[t].ret \in {"injected", "failed"}
      /\ Leads(t) <=> call[t].ret \in {"destroy", "injected", "failed"}
      /\ Returns(t, {"destroy"}) <=> call[t].ret = "destroy"
      /\ Returns(t, {"injected"}) <=> call[t].ret = "injected"
      /\ Returns(t, {"failed", "idle"}) <=> call[t].ret \in {"failed", "idle"}
      /\ \A q : Cancels(t, q) <=> cancelling[t].req = q \/ (call[t].ret = "idle" /\ q = r)
  BY <1>2, <1>r DEF Returns, Completes, Holds, AtFront, Posts, Leads, Cancels
<1>5. /\ call[t].ret \in {"destroy", "injected", "failed"} => call[t].ctx = c
      /\ call[t].op = <<r, gen[r]>>
  BY <1>0, <1>2, <1>4, <1>r, <1>c DEF ThreadLinks, ThreadOK
<1>6. /\ Holds(t)' <=> Holds(t)
      /\ AtFront(t)' <=> AtFront(t)
      /\ Posts(t)' <=> Posts(t)
      /\ Leads(t)' <=> Leads(t)
      /\ ~Completes(t)' /\ \A R : ~Returns(t, R)'
      /\ \A q : Cancels(t, q)' <=> cancelling[t].req = q
  BY <1>1, <1>2, <1>4, PlainPlaceAfter
<1>7. \A d : (HeldBy(t, d)' <=> HeldBy(t, d)) /\ ~FreshBy(t, d) /\ ~FreshBy(t, d)'
  BY <1>1, <1>2, <1>6 DEF HeldBy, FreshBy
\* no other thread works on the request
<1>8. ASSUME NEW u \in Threads, u # t, 
             \/ pc[u] \in {"reset", "push", "fill", "complete", "ft_complete", "finish"}
             \/ FT /\ pc[u] = "register"
      PROVE  call[u].req \in Requests /\ call[u].req # r
  <2>1. ThreadOK(u) /\ ThreadLinks(u)
    BY <1>0 DEF Control, RunningOps
  <2>2. CASE pc[u] \in {"fill", "complete", "ft_complete", "finish"}
    BY <1>0, <1>2, <1>r, <1>8, <2>2, OneCompleter
  <2>3. CASE pc[u] = "reset"
    BY <1>2, <1>c, <2>1, <2>3 DEF ThreadOK, ThreadLinks
  <2>4. CASE FT /\ pc[u] \in {"push", "register"}
    BY <1>0, <1>2, <1>r, <2>1, <2>4 DEF ThreadOK, FtExact
  <2>5. CASE pc[u] = "push"
    <3>1. call[u].req \in Requests
      BY <2>1, <2>5 DEF ThreadOK
    <3> SUFFICES ASSUME call[u].req = r PROVE FALSE
      BY <3>1
    <3>2. FreshBy(u, c)
      BY <1>c, <2>5 DEF FreshBy
    <3>3. In("fresh", c)
      BY <3>2 DEF In
    <3>4. CASE call[t].ret = "destroy"
      <4>1. HeldBy(t, c)
        BY <1>4, <1>5, <3>4 DEF HeldBy
      <4>2. In("held", c)
        BY <4>1 DEF In
      <4> QED BY <1>0, <1>2, <3>3, <4>2 DEF OneSpot, Spots
    <3>5. CASE call[t].ret \in {"injected", "failed"}
      <4>1. SomeOp /\ FrontOp.ctx = c
        BY <1>0, <1>4, <1>5, <3>5 DEF SpotsExact
      <4>2. \E e \in ToSet(priority_ops) \cup ToSet(pending_ops) : e.ctx = c
        BY <1>0, <4>1, FrontFacts
      <4>3. In("priority", c) \/ In("pending", c)
        BY <4>2, InData
      <4> QED BY <1>0, <1>2, <3>3, <4>3 DEF OneSpot, Spots
    <3>6. CASE call[t].ret = "idle"
      BY <1>0, <1>4, <1>r, <1>8, <2>1, <2>5, <3>6 DEF ThreadOK
    <3> QED BY <1>2, <3>4, <3>5, <3>6
  <2> QED BY <1>8, <2>2, <2>3, <2>4, <2>5
<1>9. Stay
  <2>1. \A u \in Threads : u # t /\ pc[u] = "push" =>
          wait_context'[call[u].req] = wait_context[call[u].req]
    BY <1>3, <1>8
  <2>2. ASSUME NEW d \in Contexts, NEW m \in Spots PROVE In(m, d)' <=> In(m, d)
    <3>1. CASE m = "fresh"
      BY <1>1, <1>7, <2>1, <3>1, FreshFrame
    <3>2. CASE m # "fresh"
      BY <1>1, <1>7, <2>2, <3>2, InSame, HeldSame DEF Spots
    <3> QED BY <3>1, <3>2
  <2> QED BY <2>2 DEF Stay
<1>10. OneSpot'
  BY <1>0, <1>9, StayOneSpot
<1>11. SpotsExact'
  <2>1. SomeOp' = SomeOp /\ FrontOp' = FrontOp
    BY <1>1 DEF SomeOp, FrontOp
  <2>2. AtFront(t)' => SomeOp' /\ call'[t].ctx = FrontOp'.ctx
    BY <1>0, <1>1, <1>6, <2>1 DEF SpotsExact
  <2>3. (\A u \in Threads : AtFront(u) => SomeOp /\ call[u].ctx = FrontOp.ctx)'
    BY <1>0, <1>1, <2>2, FrontFrame
  <2>4. (\A d \in Contexts : \A k \in Spots : In(k, d) => d \in created)'
    BY <1>0, <1>1, <1>9 DEF SpotsExact, Stay
  <2> QED BY <1>0, <1>1, <2>3, <2>4 DEF SpotsExact
<1>12. TypeOK'
  <2>1. pc' \in [Threads -> PCs]
    <3>1. call[t].ret \in PCs
      BY <1>2 DEF PCs
    <3> QED BY <1>0, <1>1, <3>1, PcType
  <2>2. /\ wait_context' \in [Requests -> Contexts \cup {Null}]
        /\ ctx_req' \in [Contexts -> Requests \cup {Null}]
        /\ error' = [q \in Requests |-> error'[q]] /\ ended' = [q \in Requests |-> ended'[q]]
    BY <1>0, <1>1 DEF TypeOK
  <2> QED BY <1>0, <1>1, <2>1, <2>2 DEF TypeOK, CallType
<1>13. QueueTypeOK'
  <2>1. <<r, gen[r]>> \in Requests \X Nat
    BY <1>0, <1>2 DEF TypeOK
  <2>2. callbacks' \in Seq(Requests \X Nat)
    BY <1>0, <1>1, <2>1 DEF QueueTypeOK
  <2> QED BY <1>0, <1>1, <2>2 DEF QueueTypeOK
<1>14. Control'
  <2>1. ThreadOK(t)'
    BY <1>0, <1>1, <1>2, <1>4, <1>6 DEF ThreadOK, Owner
  <2>2. \A u \in Threads : u # t => SameLocks(u)
    BY <1>1, LocksFrame
  <2> QED BY <1>0, <1>1, <2>1, <2>2, ControlFrame DEF Control
<1>15. Links'
  <2>1. \A q \in Requests : q # r => wait_context[q] # c
    BY <1>0, <1>2 DEF Links
  <2>2. \A d \in Contexts : d # c => ctx_req[d] # r
    BY <1>0, <1>2, <1>c, LifecycleAssumption DEF Links
  <2>3. ASSUME NEW q \in Requests, wait_context'[q] # Null PROVE ctx_req'[wait_context'[q]] = q
    <3>1. q # r /\ wait_context'[q] = wait_context[q] /\ wait_context[q] \in Contexts
      BY <1>0, <1>3, <2>3 DEF TypeOK
    <3> QED BY <1>0, <1>3, <2>1, <2>3, <3>1 DEF Links
  <2>4. ASSUME NEW d \in Contexts, ctx_req'[d] # Null PROVE wait_context'[ctx_req'[d]] = d
    <3>1. d # c /\ ctx_req'[d] = ctx_req[d] /\ ctx_req[d] \in Requests
      BY <1>0, <1>3, <2>4 DEF TypeOK
    <3> QED BY <1>0, <1>3, <2>2, <2>4, <3>1 DEF Links
  <2>5. ASSUME NEW d \in Contexts, d \in ToSet(pool) \/ d \notin created PROVE ctx_req'[d] = Null
    BY <1>0, <1>3, <2>5 DEF Links
  <2> QED BY <1>1, <2>3, <2>4, <2>5 DEF Links
<1>16. RunningOps'
  <2>1. ThreadLinks(t)'
    BY <1>1, <1>2, <1>3, <1>5, <1>6 DEF ThreadLinks
  <2>2. ASSUME NEW u \in Threads, u # t PROVE ThreadLinks(u)'
    <3>1. pc[u] \in {"reset", "push", "fill", "complete", "ft_complete", "finish"}
          \/ (FT /\ pc[u] = "register") =>
            wait_context'[call[u].req] = wait_context[call[u].req]
            /\ gen'[call[u].req] = gen[call[u].req]
      BY <1>1, <1>3, <1>8, <2>2
    <3>2. pc[u] \in {"destroy", "injected", "failed"} /\ call[u].ctx \in Contexts =>
            (ctx_req[call[u].ctx] = Null => ctx_req'[call[u].ctx] = Null)
      BY <1>3
    <3> QED BY <1>0, <1>1, <2>2, <3>1, <3>2, OtherThreadLinks
  <2> QED BY <2>1, <2>2 DEF RunningOps
<1>17. OpsExact'
  <2>1. /\ \A e \in ToSet(priority_ops) \cup ToSet(pending_ops) : e.ctx \in Contexts
        /\ \A e \in posted \cup ToSet(cq) \cup ToSet(comp) : e.ctx \in Contexts
    BY <1>0, OpContexts
  <2>2. \A d \in Contexts : ctx_req'[d] # Null => ctx_req'[d] = ctx_req[d]
    BY <1>3
  <2> QED BY <1>0, <1>1, <2>1, <2>2 DEF OpsExact
<1>18. Outstanding'
  <2> SUFFICES ASSUME NEW q \in Requests, NEW d \in Contexts, wait_context'[q] = d
               PROVE  (\E k \in Spots : In(k, d)') \/ \E u \in Threads : Cancels(u, q)'
    BY DEF Outstanding
  <2>1. q # r /\ wait_context[q] = d
    BY <1>3, LifecycleAssumption
  <2>2. CASE \E k \in Spots : In(k, d)
    BY <1>9, <2>2 DEF Stay
  <2>3. CASE \E u \in Threads : Cancels(u, q)
    <3>1. PICK u \in Threads : Cancels(u, q)
      BY <2>3
    <3>2. Cancels(u, q)'
      BY <1>1, <1>4, <1>6, <2>1, <3>1, OtherPlace
    <3> QED BY <3>2
  <2> QED BY <1>0, <2>1, <2>2, <2>3 DEF Outstanding
<1>19. FtExact'
  <2>1. \A u \in Threads : u # t => pc'[u] = pc[u] /\ call'[u] = call[u]
    BY <1>1 DEF Others
  <2>2. InTransit \subseteq InTransit' \cup {r}
    BY <1>r, <2>1 DEF InTransit
  <2>3. FT => r \notin ft_requests
    BY <1>0, <1>2, <1>r DEF FtExact
  <2>4. FtListNow'
    BY <1>0, <1>1, <1>3, <2>2, <2>3 DEF FtExact, FtListNow
  <2>5. ASSUME NEW u \in Threads, NEW v \in Threads, FT, pc'[u] = "finish"
        PROVE  /\ call'[u].req \notin ft_requests'
               /\ pc'[v] \in {"push", "register"} => call'[v].req # call'[u].req
    <3>1. u # t /\ pc[u] = "finish" /\ call'[u] = call[u]
      BY <1>1, <1>2, <2>1, <2>5
    <3>2. pc'[v] \in {"push", "register"} => v # t /\ pc[v] = pc'[v] /\ call'[v] = call[v]
      BY <1>1, <1>2, <2>1
    <3> QED BY <1>0, <1>1, <2>5, <3>1, <3>2 DEF FtExact
  <2> QED BY <2>4, <2>5 DEF FtExact
<1>20. SizeExact'
  <2>1. op_type[r] = "RECV" /\ call[t].err = "SUCCESS" => size[r] = "got"
    BY <1>0, <1>2, <1>4, <1>r DEF SizeOK
  <2>2. SizesNow'
    BY <1>0, <1>1, <1>3, <2>1 DEF SizeExact, SizesNow
  <2>3. SizeOK(t)'
    BY <1>6 DEF SizeOK
  <2>4. ASSUME NEW u \in Threads, u # t PROVE SizeOK(u)'
    BY <1>0, <1>1, <2>4, OtherPlace DEF SizeExact, SizeOK, Others
  <2> QED BY <2>2, <2>3, <2>4 DEF SizeExact
<1>21. CallbackKept'
  <2>1. /\ callbacks \in Seq(Requests \X Nat) /\ Len(callbacks) \in Nat /\ gen[r] \in Nat
    BY <1>0, <1>2 DEF QueueTypeOK, TypeOK
  <2>2. /\ Len(callbacks') = Len(callbacks) + 1
        /\ \A i \in 1..Len(callbacks) : callbacks'[i] = callbacks[i]
        /\ callbacks'[Len(callbacks) + 1] = <<r, gen[r]>>
    BY <1>1, <2>1
  <2>3. \A x : Contains(callbacks, x) => Contains(callbacks', x)
    BY <2>1, <2>2 DEF Contains
  <2>4. Contains(callbacks', <<r, gen[r]>>)
    BY <2>1, <2>2 DEF Contains
  <2>5. ASSUME NEW q \in Requests, NEW k \in 1..gen[q], k < gen[q] \/ wait_context'[q] = Null
        PROVE  <<q, k>> \in called \/ Contains(callbacks', <<q, k>>)
    <3>1. CASE q = r /\ k = gen[r]
      BY <2>4, <3>1
    <3>2. CASE ~(q = r /\ k = gen[r])
      <4>1. k < gen[q] \/ wait_context[q] = Null
        BY <1>3, <2>1, <2>5, <3>2
      <4> QED BY <1>0, <2>3, <4>1 DEF CallbackKept
    <3> QED BY <3>1, <3>2
  <2> QED BY <1>1, <2>5 DEF CallbackKept
<1>22. OwnOpNow'
  BY <1>0, <1>1, <1>3, <1>5 DEF OwnOpNow
<1> QED BY <1>10, <1>11, <1>12, <1>13, <1>14, <1>15, <1>16, <1>17, <1>18, <1>19, <1>20, <1>21, <1>22
        DEF IInv

\* reset: a context of the pool or a new one is given to the request.
LEMMA PostResetStep ==
  ASSUME IInv, NEW t \in Threads, PostReset(t)
  PROVE  IInv'
<1>0. /\ TypeOK /\ QueueTypeOK /\ Control /\ ThreadOK(t) /\ ThreadLinks(t) /\ CallbackKept
      /\ OneSpot /\ SpotsExact /\ Links /\ OpsExact /\ RunningOps /\ Outstanding /\ FtExact
      /\ SizeExact /\ OwnOpNow
  BY DEF IInv, Control, RunningOps
<1>r. PICK r : r = call[t].req
  OBVIOUS
<1>1. /\ pc[t] = "reset" /\ pc' = [pc EXCEPT ![t] = "push"] /\ pc'[t] = "push" /\ Others(t)
      /\ FT => ft_mutex = Null /\ ft_mutex' = t
      /\ ~FT => ft_mutex' = ft_mutex
      /\ gen' = [gen EXCEPT ![r] = gen[r] + 1]
      /\ error' = [error EXCEPT ![r] = "SUCCESS"]
      /\ \E x \in Types : \E y : op_type' = [op_type EXCEPT ![r] = x] /\ size' = [size EXCEPT ![r] = y]
      /\ UNCHANGED <<call, cancelling, callbacks, called, leader, pending_ops_mutex,
                     priority_ops, pending_ops, posted, cq, comp, workload, ended, ft_requests>>
  <2>1. \E x \in Types : \E y : op_type' = [op_type EXCEPT ![r] = x] /\ size' = [size EXCEPT ![r] = y]
    BY <1>r DEF PostReset, AsyncSend, AsyncRecv, AsyncPut, AsyncGet, Types
  <2> QED BY <1>0, <1>r, <2>1
             DEF PostReset, Goto, TypeOK, CallType, Others, queueVars, fabricVars, readVars, cbVars
<1>2. PICK c \in Contexts : CreateContext(r, c) /\ wait_context' = [wait_context EXCEPT ![r] = c]
  BY <1>r DEF PostReset
<1>3. r \in Requests /\ wait_context[r] = Null /\ Owner[r] = t /\ cancelling[t].req = Null
  BY <1>0, <1>1, <1>r DEF ThreadOK, ThreadLinks
<1>4. /\ ctx_req' = [ctx_req EXCEPT ![c] = r] /\ created' = created \cup {c}
      /\ pool' \in Seq(Contexts) /\ IsInjective(pool')
      /\ ToSet(pool') = ToSet(pool) \ {c}
      /\ c \in ToSet(pool) \/ c \notin created
  <2>1. pool \in Seq(Contexts) /\ IsInjective(pool)
    BY <1>0 DEF TypeOK, SpotsExact
  <2>2. CASE pool # <<>>
    <3>1. c = Last(pool) /\ pool' = Front(pool)
      BY <1>2, <2>2 DEF CreateContext
    <3> QED BY <1>2, <2>1, <2>2, <3>1, PoolLast DEF CreateContext
  <2>3. CASE pool = <<>>
    <3>1. c \notin created /\ pool' = pool
      BY <1>2, <2>3 DEF CreateContext
    <3>2. ToSet(pool) = {}
      BY <2>3 DEF ToSet
    <3> QED BY <1>2, <2>1, <3>1, <3>2 DEF CreateContext
  <2> QED BY <2>2, <2>3
<1>5. /\ wait_context'[r] = c /\ \A q \in Requests : q # r => wait_context'[q] = wait_context[q]
      /\ ctx_req'[c] = r /\ \A d \in Contexts : d # c => ctx_req'[d] = ctx_req[d]
      /\ \A q \in Requests : q # r => error'[q] = error[q] /\ gen'[q] = gen[q]
      /\ \A q \in Requests : q # r => op_type'[q] = op_type[q] /\ size'[q] = size[q]
      /\ gen[r] \in Nat /\ gen'[r] = gen[r] + 1 /\ c # Null
  BY <1>0, <1>1, <1>2, <1>3, <1>4, LifecycleAssumption DEF TypeOK
<1>6. /\ ctx_req[c] = Null
      /\ \A q \in Requests : wait_context[q] # c
      /\ \A d \in Contexts : ctx_req[d] # r
      /\ \A m \in Spots : m # "pool" => ~In(m, c)
  <2>1. ctx_req[c] = Null
    BY <1>0, <1>4 DEF Links
  <2>2. \A m \in Spots : m # "pool" => ~In(m, c)
    BY <1>0, <1>4, InData DEF OneSpot, SpotsExact, Spots
  <2>3. \A q \in Requests : wait_context[q] # c
    BY <1>0, <1>5, <2>1, LifecycleAssumption DEF Links
  <2>4. \A d \in Contexts : ctx_req[d] # r
    BY <1>0, <1>3, LifecycleAssumption DEF Links
  <2> QED BY <2>1, <2>2, <2>3, <2>4
\* no other thread works on the request
<1>7. ASSUME NEW u \in Threads, u # t,
             pc[u] \in {"reset", "push", "register", "fill", "complete", "ft_complete", "finish"}
      PROVE  call[u].req \in Requests /\ call[u].req # r
  <2>1. ThreadOK(u) /\ ThreadLinks(u)
    BY <1>0 DEF Control, RunningOps
  <2>2. CASE pc[u] \in {"reset", "push", "register"}
    BY <1>3, <1>7, <2>1, <2>2 DEF ThreadOK
  <2>3. CASE pc[u] \in {"fill", "complete", "ft_complete", "finish"}
    <3> SUFFICES ASSUME call[u].req = r PROVE FALSE
      BY <2>1, <2>3 DEF ThreadOK
    <3>1. ~Returns(u, {"idle"})
      BY <1>3, <1>7, <2>1 DEF ThreadOK
    <3>2. Completes(u) /\ call[u].req \in Requests
      BY <2>1, <2>3, <3>1 DEF ThreadOK, Completes, Returns
    <3> QED BY <1>3, <2>1, <3>2, LifecycleAssumption DEF ThreadLinks
  <2> QED BY <1>7, <2>2, <2>3
<1>8. /\ \A d : (FreshBy(t, d)' <=> d = c) /\ ~FreshBy(t, d) /\ ~HeldBy(t, d) /\ ~HeldBy(t, d)'
      /\ \A q : Cancels(t, q) => Cancels(t, q)'
  BY <1>1, <1>5, <1>r, PlainPlace, PlainPlaceAfter DEF FreshBy, HeldBy
<1>9. MoveTo(c, "fresh")
  <2>1. \A u \in Threads : u # t /\ pc[u] = "push" =>
          wait_context'[call[u].req] = wait_context[call[u].req]
    BY <1>5, <1>7
  <2> SUFFICES ASSUME NEW d \in Contexts, NEW m \in Spots
               PROVE  In(m, d)' <=> IF d = c THEN m = "fresh" ELSE In(m, d)
    BY DEF MoveTo
  <2>2. CASE m = "fresh"
    BY <1>1, <1>8, <2>1, <2>2, FreshFrame
  <2>3. CASE m = "pool"
    BY <1>4, <2>3, InData, InDataAfter
  <2>4. CASE m \notin {"fresh", "pool"}
    <3>1. In(m, d)' <=> In(m, d)
      BY <1>1, <1>8, <2>4, InSame, HeldSame DEF Spots
    <3> QED BY <1>6, <2>4, <3>1
  <2> QED BY <2>2, <2>3, <2>4
<1>10. OneSpot'
  BY <1>0, <1>9, MoveOneSpot
<1>11. SpotsExact'
  <2>1. (\A u \in Threads : AtFront(u) => SomeOp /\ call[u].ctx = FrontOp.ctx)'
    BY <1>0, <1>1, PlainPlaceAfter, FrontFrame
  <2>2. (\A d \in Contexts : \A k \in Spots : In(k, d) => d \in created)'
    BY <1>0, <1>4, <1>9 DEF SpotsExact, MoveTo
  <2> QED BY <1>0, <1>1, <1>4, <2>1, <2>2 DEF SpotsExact
<1>12. TypeOK'
  <2>1. pc' \in [Threads -> PCs]
    BY <1>0, <1>1, PcType DEF PCs
  <2>2. /\ wait_context' \in [Requests -> Contexts \cup {Null}]
        /\ ctx_req' \in [Contexts -> Requests \cup {Null}]
        /\ gen' \in [Requests -> Nat]
    BY <1>0, <1>1, <1>2, <1>3, <1>4 DEF TypeOK
  <2>3. /\ error' = [q \in Requests |-> error'[q]] /\ size' = [q \in Requests |-> size'[q]]
        /\ op_type' \in [Requests -> Types \cup {"NONE"}]
    BY <1>0, <1>1 DEF TypeOK
  <2> QED BY <1>0, <1>1, <1>4, <2>1, <2>2, <2>3 DEF TypeOK, CallType
<1>13. QueueTypeOK'
  BY <1>0, <1>1 DEF QueueTypeOK
<1>14. Control'
  <2>1. ThreadOK(t)'
    BY <1>0, <1>1, <1>3, <1>r, PlainPlace, PlainPlaceAfter, LifecycleAssumption DEF ThreadOK, Owner
  <2>2. \A u \in Threads : u # t => SameLocks(u)
    BY <1>1, LifecycleAssumption DEF SameLocks
  <2>3. \A q \in Requests : Owner[q] # t => gen'[q] = gen[q]
    BY <1>3, <1>5
  <2> QED BY <1>0, <1>1, <2>1, <2>2, <2>3, ControlFrame DEF Control
<1>15. Links'
  <2>1. ASSUME NEW q \in Requests, wait_context'[q] # Null PROVE ctx_req'[wait_context'[q]] = q
    <3>1. CASE q = r
      BY <1>5, <3>1
    <3>2. CASE q # r
      <4>1. wait_context'[q] = wait_context[q] /\ wait_context[q] \in Contexts /\ wait_context[q] # c
        BY <1>0, <1>5, <1>6, <2>1, <3>2 DEF TypeOK
      <4> QED BY <1>0, <1>5, <2>1, <4>1 DEF Links
    <3> QED BY <3>1, <3>2
  <2>2. ASSUME NEW d \in Contexts, ctx_req'[d] # Null PROVE wait_context'[ctx_req'[d]] = d
    <3>1. CASE d = c
      BY <1>5, <3>1
    <3>2. CASE d # c
      <4>1. ctx_req'[d] = ctx_req[d] /\ ctx_req[d] \in Requests /\ ctx_req[d] # r
        BY <1>0, <1>5, <1>6, <2>2, <3>2 DEF TypeOK
      <4> QED BY <1>0, <1>5, <2>2, <4>1 DEF Links
    <3> QED BY <3>1, <3>2
  <2>3. ASSUME NEW d \in Contexts, d \in ToSet(pool') \/ d \notin created' PROVE ctx_req'[d] = Null
    BY <1>0, <1>4, <1>5, <2>3 DEF Links
  <2> QED BY <2>1, <2>2, <2>3 DEF Links
<1>16. RunningOps'
  <2>1. ThreadLinks(t)'
    BY <1>1, <1>5, <1>r, PlainPlaceAfter DEF ThreadLinks
  <2>2. ASSUME NEW u \in Threads, u # t PROVE ThreadLinks(u)'
    <3>1. pc[u] \in {"reset", "push", "fill", "complete", "ft_complete", "finish"}
          \/ (FT /\ pc[u] = "register") =>
            wait_context'[call[u].req] = wait_context[call[u].req]
            /\ gen'[call[u].req] = gen[call[u].req]
      BY <1>5, <1>7, <2>2
    <3>2. ASSUME pc[u] \in {"destroy", "injected", "failed"}, call[u].ctx \in Contexts
          PROVE  call[u].ctx # c
      <4>1. CASE pc[u] = "destroy"
        <5>1. HeldBy(u, call[u].ctx)
          BY <4>1, PlainPlace DEF HeldBy
        <5>2. In("held", call[u].ctx)
          BY <5>1 DEF In
        <5> QED BY <1>6, <5>2 DEF Spots
      <4>2. CASE pc[u] \in {"injected", "failed"}
        <5>1. SomeOp /\ FrontOp.ctx = call[u].ctx
          BY <1>0, <4>2, PlainPlace DEF SpotsExact
        <5>2. \E e \in ToSet(priority_ops) \cup ToSet(pending_ops) : e.ctx = call[u].ctx
          BY <1>0, <5>1, FrontFacts
        <5>3. In("priority", call[u].ctx) \/ In("pending", call[u].ctx)
          BY <5>2, InData
        <5> QED BY <1>6, <5>3 DEF Spots
      <4> QED BY <3>2, <4>1, <4>2
    <3>3. pc[u] \in {"destroy", "injected", "failed"} /\ call[u].ctx \in Contexts =>
            (ctx_req[call[u].ctx] = Null => ctx_req'[call[u].ctx] = Null)
      BY <1>5, <3>2
    <3> QED BY <1>0, <1>1, <2>2, <3>1, <3>3, OtherThreadLinks
  <2> QED BY <2>1, <2>2 DEF RunningOps
<1>17. OpsExact'
  <2>1. /\ \A e \in ToSet(priority_ops) \cup ToSet(pending_ops) : e.ctx \in Contexts
        /\ \A e \in posted \cup ToSet(cq) \cup ToSet(comp) : e.ctx \in Contexts
    BY <1>0, OpContexts
  <2>2. /\ \A e \in ToSet(priority_ops) \cup ToSet(pending_ops) : e.ctx # c
        /\ \A e \in posted \cup ToSet(cq) \cup ToSet(comp) : e.ctx # c
    BY <1>6, InData DEF Spots
  <2>3. \A d \in Contexts : d # c /\ ctx_req'[d] # Null =>
          LET q == ctx_req[d] IN ctx_req'[d] = q /\ ctx_req[d] # Null /\ gen'[q] = gen[q] /\ op_type'[q] = op_type[q]
    <3> SUFFICES ASSUME NEW d \in Contexts, d # c, ctx_req'[d] # Null
                 PROVE  /\ ctx_req'[d] = ctx_req[d] /\ ctx_req[d] # Null
                        /\ gen'[ctx_req[d]] = gen[ctx_req[d]] /\ op_type'[ctx_req[d]] = op_type[ctx_req[d]]
      OBVIOUS
    <3>1. ctx_req'[d] = ctx_req[d] /\ ctx_req[d] \in Requests /\ ctx_req[d] # r
      BY <1>0, <1>5, <1>6 DEF TypeOK
    <3> QED BY <1>5, <3>1
  <2> QED BY <1>0, <1>1, <2>1, <2>2, <2>3 DEF OpsExact
<1>18. Outstanding'
  <2> SUFFICES ASSUME NEW q \in Requests, NEW d \in Contexts, wait_context'[q] = d
               PROVE  (\E k \in Spots : In(k, d)') \/ \E u \in Threads : Cancels(u, q)'
    BY DEF Outstanding
  <2>1. CASE q = r
    <3>1. d = c /\ "fresh" \in Spots
      BY <1>5, <2>1 DEF Spots
    <3> QED BY <1>9, <3>1 DEF MoveTo
  <2>2. CASE q # r
    <3>1. wait_context[q] = d /\ d # c
      BY <1>5, <1>6, <2>2
    <3>2. CASE \E k \in Spots : In(k, d)
      BY <1>9, <3>1, <3>2 DEF MoveTo
    <3>3. CASE \E u \in Threads : Cancels(u, q)
      <4>1. PICK u \in Threads : Cancels(u, q)
        BY <3>3
      <4>2. Cancels(u, q)'
        BY <1>1, <1>8, <4>1, OtherPlace
      <4> QED BY <4>2
    <3> QED BY <1>0, <3>1, <3>2, <3>3 DEF Outstanding
  <2> QED BY <2>1, <2>2
<1>19. FtExact'
  <2>1. \A u \in Threads : /\ u # t => pc'[u] = pc[u]
                           /\ call'[u] = call[u]
    BY <1>1 DEF Others
  <2>2. \A u \in Threads : pc'[u] \in {"reset", "push", "register", "finish"}
                           <=> pc[u] \in {"reset", "push", "register", "finish"}
    BY <1>1, <2>1
  <2>3. InTransit' = InTransit /\ r \in InTransit
    BY <1>1, <1>r, <2>1, <2>2 DEF InTransit
  <2>4. FtListNow'
    BY <1>0, <1>1, <1>5, <2>3 DEF FtExact, FtListNow
  <2>5. ASSUME FT, NEW u \in Threads, NEW v \in Threads, pc'[u] = "finish"
        PROVE  /\ call'[u].req \notin ft_requests'
               /\ pc'[v] \in {"push", "register"} => call'[v].req # call'[u].req
    <3>1. u # t /\ pc[u] = "finish" /\ call'[u] = call[u] /\ call'[v] = call[v]
      BY <1>1, <2>1, <2>5
    <3>2. call[u].req # r
      BY <1>7, <3>1
    <3> QED BY <1>0, <1>1, <1>r, <2>1, <2>5, <3>1, <3>2 DEF FtExact
  <2> QED BY <2>4, <2>5 DEF FtExact
<1>20. SizeExact'
  <2>1. SizesNow'
    BY <1>0, <1>5 DEF SizeExact, SizesNow
  <2>2. SizeOK(t)'
    BY <1>1, PlainPlaceAfter DEF SizeOK
  <2>3. ASSUME NEW u \in Threads, u # t PROVE SizeOK(u)'
    <3>1. SizeOK(u) /\ call'[u] = call[u]
      BY <1>0, <1>1, <2>3 DEF SizeExact
    <3>2. \A R : Returns(u, R)' <=> Returns(u, R)
      BY <1>1, <2>3, OtherPlace
    <3>3. \A R : Returns(u, R) => call[u].req \in Requests /\ call[u].req # r
      BY <1>7, <2>3 DEF Returns
    <3> QED BY <1>5, <3>1, <3>2, <3>3 DEF SizeOK
  <2> QED BY <2>1, <2>2, <2>3 DEF SizeExact
<1>21. CallbackKept'
  <2>1. ASSUME NEW q \in Requests, NEW k \in 1..gen'[q], k < gen'[q] \/ wait_context'[q] = Null
        PROVE  <<q, k>> \in called \/ Contains(callbacks, <<q, k>>)
    <3>1. CASE q = r
      <4>1. k \in 1..gen[r] /\ wait_context[r] = Null
        BY <1>3, <1>5, <2>1, <3>1
      <4> QED BY <1>0, <1>3, <3>1, <4>1 DEF CallbackKept
    <3>2. CASE q # r
      BY <1>0, <1>5, <2>1, <3>2 DEF CallbackKept
    <3> QED BY <3>1, <3>2
  <2> QED BY <1>1, <2>1 DEF CallbackKept
<1>22. OwnOpNow'
  BY <1>0, <1>1, <1>5 DEF OwnOpNow
<1> QED BY <1>10, <1>11, <1>12, <1>13, <1>14, <1>15, <1>16, <1>17, <1>18, <1>19, <1>20, <1>21, <1>22
        DEF IInv

-----------------------------------------------------------------------------
(* The invariant holds.                                                    *)

LEMMA InitInv ==
  ASSUME Init
  PROVE  IInv
<1>1. /\ workload \in Workloads /\ wait_context = [r \in Requests |-> Null]
      /\ error = [r \in Requests |-> "SUCCESS"] /\ op_type = [r \in Requests |-> "NONE"]
      /\ size = [r \in Requests |-> "0"] /\ ctx_req = [c \in Contexts |-> Null]
      /\ pool = <<>> /\ priority_ops = <<>> /\ pending_ops = <<>> /\ posted = {} /\ cq = <<>>
      /\ comp = <<>> /\ callbacks = <<>> /\ ft_requests = {}
      /\ ft_mutex = Null /\ pending_ops_mutex = Null /\ leader = Null
      /\ pc = [t \in Threads |-> "idle"] /\ call = [t \in Threads |-> NoCall]
      /\ cancelling = [t \in Threads |-> NoCancel]
      /\ gen = [r \in Requests |-> 0] /\ ended = [r \in Requests |-> <<r, 0>>] /\ created = {}
  BY DEF Init
<1>2. TypeOK
  <2>1. CallType
    BY <1>1 DEF CallType, NoCall
  <2> QED BY <1>1, <2>1 DEF TypeOK, PCs
<1>3. QueueTypeOK
  BY <1>1 DEF QueueTypeOK
<1>4. ASSUME NEW t \in Threads
      PROVE  /\ \A R : ~Returns(t, R)
             /\ ~Leads(t) /\ ~Posts(t) /\ ~Holds(t) /\ ~AtFront(t) /\ ~Completes(t)
             /\ \A c : ~HeldBy(t, c) /\ ~FreshBy(t, c)
             /\ pc[t] = "idle" /\ cancelling[t].req = Null
  BY <1>1, PlainPlace DEF HeldBy, FreshBy, NoCancel
<1>5. Control
  BY <1>1, <1>4, LifecycleAssumption DEF Control, ThreadOK
<1>6. Links /\ RunningOps
  BY <1>1, <1>4 DEF Links, RunningOps, ThreadLinks
<1>7. \A c, k : ~In(k, c)
  <2>1. ToSet(priority_ops) = {} /\ ToSet(pending_ops) = {} /\ ToSet(cq) = {} /\ ToSet(comp) = {}
        /\ ToSet(pool) = {}
    BY <1>1 DEF ToSet
  <2> QED BY <1>1, <1>4, <2>1 DEF In
<1>8. OneSpot
  BY <1>7 DEF OneSpot
<1>9. SpotsExact
  BY <1>1, <1>4, <1>7 DEF SpotsExact, NoRepeat, IsInjective
<1>10. OpsExact
  BY <1>1 DEF OpsExact, ToSet
<1>11. Outstanding
  BY <1>1, LifecycleAssumption DEF Outstanding
<1>12. FtExact
  BY <1>1 DEF FtExact, FtListNow
<1>13. SizeExact
  BY <1>1, <1>4 DEF SizeExact, SizesNow, SizeOK
<1>14. CallbackKept /\ OwnOpNow
  BY <1>1 DEF CallbackKept, OwnOpNow
<1> QED BY <1>2, <1>3, <1>5, <1>6, <1>8, <1>9, <1>10, <1>11, <1>12, <1>13, <1>14 DEF IInv

LEMMA StutterStep ==
  ASSUME IInv, UNCHANGED vars
  PROVE  IInv'
<1>0. /\ TypeOK /\ QueueTypeOK /\ Control /\ CallbackKept /\ OneSpot /\ SpotsExact
      /\ Links /\ OpsExact /\ RunningOps /\ Outstanding /\ FtExact /\ SizeExact /\ OwnOpNow
  BY DEF IInv
<1>1. UNCHANGED <<pc, call, cancelling, callbacks, called, leader, ft_mutex, pending_ops_mutex,
                  priority_ops, pending_ops, posted, cq, pool, comp, workload, wait_context, gen,
                  op_type, error, size, ended, ctx_req, created, ft_requests>>
  BY DEF vars, reqVars, ctxVars, queueVars, fabricVars, readVars, cbVars, lockVars
<1>2. /\ \A u : (AtFront(u)' <=> AtFront(u)) /\ (Leads(u)' <=> Leads(u)) /\ (Posts(u)' <=> Posts(u))
            /\ (Holds(u)' <=> Holds(u)) /\ (Completes(u)' <=> Completes(u))
      /\ \A u, R : Returns(u, R)' <=> Returns(u, R)
      /\ \A u, r : Cancels(u, r)' <=> Cancels(u, r)
      /\ \A u, d : (HeldBy(u, d)' <=> HeldBy(u, d)) /\ (FreshBy(u, d)' <=> FreshBy(u, d))
  BY <1>1 DEF AtFront, Leads, Posts, Holds, Completes, Returns, Cancels, HeldBy, FreshBy
<1>3. Stay
  BY <1>1, <1>2 DEF Stay, In
<1>4. OneSpot'
  BY <1>0, <1>3, StayOneSpot
<1>5. SpotsExact'
  <2>1. (\A u \in Threads : AtFront(u) => SomeOp /\ call[u].ctx = FrontOp.ctx)'
    BY <1>0, <1>1, <1>2 DEF SpotsExact, SomeOp, FrontOp
  <2>2. (\A d \in Contexts : \A k \in Spots : In(k, d) => d \in created)'
    BY <1>0, <1>1, <1>3 DEF SpotsExact, Stay
  <2> QED BY <1>0, <1>1, <2>1, <2>2 DEF SpotsExact
<1>6. TypeOK' /\ QueueTypeOK'
  BY <1>0, <1>1 DEF TypeOK, CallType, QueueTypeOK
<1>7. Control'
  <2>1. ASSUME NEW u \in Threads PROVE ThreadOK(u)'
    <3>1. ThreadOK(u)
      BY <1>0 DEF Control
    <3> QED BY <1>1, <1>2, <3>1 DEF ThreadOK, Owner
  <2> QED BY <1>0, <1>1, <2>1 DEF Control
<1>8. Links' /\ OpsExact' /\ CallbackKept' /\ OwnOpNow'
  BY <1>0, <1>1, SameCallbacks DEF Links, OpsExact, OwnOpNow
<1>9. RunningOps'
  BY <1>0, <1>1, <1>2 DEF RunningOps, ThreadLinks
<1>10. Outstanding'
  BY <1>0, <1>1, <1>2, <1>3 DEF Outstanding, Stay
<1>11. FtExact'
  BY <1>0, <1>1 DEF FtExact, FtListNow, InTransit
<1>12. SizeExact'
  BY <1>0, <1>1, <1>2 DEF SizeExact, SizesNow, SizeOK
<1> QED BY <1>4, <1>5, <1>6, <1>7, <1>8, <1>9, <1>10, <1>11, <1>12 DEF IInv

LEMMA NextInv ==
  ASSUME ~Colliding, IInv, [Next]_vars
  PROVE  IInv'
<1>1. ASSUME NEW t \in Threads, Step(t) PROVE IInv'
  BY <1>1, PostResetStep, PostPushStep, RegisterRequestStep, CompleteCheckStep, FtCompleteStep,
     CompleteLockedStep, CqReadStep, HandleEntryStep, FillRequestStep, DestroyEntryStep,
     EndBatchStep, PostAcceptedStep, PostInjectedStep, FinishInjectedStep, PostFailedStep,
     FinishFailedStep, PostEndStep, RunCallbacksStep, CancelLockedStep, CancelProgressStep,
     CancelCompleteStep DEF Step
<1>2. ASSUME NEW t \in Threads, ProgressBegin(t) PROVE IInv'
  BY <1>2, ProgressBeginStep
<1>3. ASSUME NEW t \in Threads, NEW r \in Requests, PostBegin(t, r) \/ CancelErase(t, r) PROVE IInv'
  BY <1>3, PostBeginStep, CancelEraseStep
<1>4. ASSUME NEW p \in posted, NEW err \in Errors, Arrive(p, err) PROVE IInv'
  BY <1>4, ArriveStep
<1>5. CASE UNCHANGED vars
  BY <1>5, StutterStep
<1> QED BY <1>1, <1>2, <1>3, <1>4, <1>5 DEF Next, Moves

\* Until two threads have completed one request at once.
QInv == ~collided => IInv /\ ~Colliding

\* A step after which no two threads have, starts where they had not.
LEMMA NotCollided ==
  ASSUME [Next]_vars, ~collided'
  PROVE  ~collided /\ (~Colliding => ~Colliding')
<1>1. CASE Next
  BY <1>1 DEF Next
<1>2. CASE UNCHANGED vars
  BY <1>2 DEF vars, Colliding, Completers
<1> QED BY <1>1, <1>2

LEMMA Inductive == Spec => []QInv
<1>1. ASSUME Init PROVE QInv
  <2>1. ~Colliding
    BY <1>1 DEF Init, Colliding, Completers
  <2> QED BY <1>1, <2>1, InitInv DEF QInv
<1>2. ASSUME QInv, [Next]_vars PROVE QInv'
  <2> SUFFICES ASSUME ~collided' PROVE IInv' /\ ~Colliding'
    BY DEF QInv
  <2>1. ~collided /\ IInv /\ ~Colliding
    BY <1>2, NotCollided DEF QInv
  <2> QED BY <1>2, <2>1, NextInv, NotCollided
<1> QED BY <1>1, <1>2, PTL DEF Spec

-----------------------------------------------------------------------------
(* The theorems.                                                           *)

\* The communicator's list of outstanding requests is exact, so cancel_comm
\* reaches every request that waits and none that has finished: async_* and
\* complete keep it under ft_mutex, until two threads complete one request at once.
THEOREM FtListExactInvariant == Spec => []FtListExact
<1>1. QInv => FtListExact
  BY DEF QInv, IInv, FtExact, FtListNow, FtListExact
<1> QED BY <1>1, Inductive, PTL

\* A request is completed by the operation that runs on it, never by the late
\* completion or cancellation of an earlier one: complete compares nothing, it
\* is the context that ties the completion to the request.  That holds whoever
\* cancels, until two threads complete one request at once.
THEOREM CompletedByOwnOpInvariant == Spec => []CompletedByOwnOp
<1>1. QInv => CompletedByOwnOp
  BY DEF QInv, IInv, OwnOpNow, CompletedByOwnOp, OwnCompletion
<1> QED BY <1>1, Inductive, PTL

\* A receive that succeeded reports the size of the message: the write of
\* async_recv and that of progress are ordered by request.mutex and the queue.
THEOREM ReceivedSizeInvariant == Spec => []ReceivedSize
<1>1. QInv => ReceivedSize
  BY DEF QInv, IInv, SizeExact, SizesNow, ReceivedSize
<1> QED BY <1>1, Inductive, PTL

\* When no thread is in the library, every outstanding operation is queued, at
\* the provider or in its completion queue; proved until two threads complete one
\* request at once.
THEOREM NoOpForgottenInvariant == Spec => [](~collided => NoOpForgotten)
<1>1. ASSUME IInv, \A t \in Threads : pc[t] = "idle", NEW r \in Requests, wait_context[r] # Null
      PROVE  \/ \E p \in posted : p.ctx = wait_context[r]
             \/ \E i \in 1..3 : wait_context[r] \in ToSet(Places[i])
  <2>0. /\ TypeOK /\ QueueTypeOK /\ Control /\ Links /\ Outstanding
    BY <1>1 DEF IInv
  <2>c. PICK c \in Contexts : c = wait_context[r]
    BY <1>1, <2>0 DEF TypeOK
  <2>1. \A t \in Threads : /\ ~Leads(t) /\ ~(\E d : HeldBy(t, d) \/ FreshBy(t, d))
                           /\ ~Cancels(t, r)
    BY <1>1, <2>0, PlainPlace, LifecycleAssumption DEF Control, ThreadOK, HeldBy, FreshBy
  <2>2. comp = <<>>
    BY <2>0, <2>1 DEF Control, ThreadOK, TypeOK
  <2>3. ~In("comp", c) /\ ~In("held", c) /\ ~In("fresh", c)
    BY <2>1, <2>2 DEF In, ToSet
  <2>4. ~In("pool", c)
    BY <1>1, <2>0, <2>c, InData, LifecycleAssumption DEF Links
  <2>5. In("priority", c) \/ In("pending", c) \/ In("posted", c) \/ In("cq", c)
    BY <2>0, <2>1, <2>3, <2>4, <2>c DEF Outstanding, Spots
  <2>6. /\ \A e \in ToSet(priority_ops) : e.ctx \in ToSet(Places[1])
        /\ \A e \in ToSet(pending_ops) : e.ctx \in ToSet(Places[2])
        /\ \A e \in ToSet(cq) : e.ctx \in ToSet(Places[3])
    BY DEF Places, ToSet
  <2> QED BY <2>5, <2>6, <2>c, InData
<1>2. QInv => (~collided => NoOpForgotten)
  BY <1>1 DEF NoOpForgotten, QInv
<1> QED BY <1>2, Inductive, PTL

\* The spots of the five lists of Places.
PlaceSpots == <<"priority", "pending", "cq", "comp", "pool">>

LEMMA ContextsOf ==
  ASSUME NEW S, NEW s \in Seq(S), \A x \in S : x.ctx \in Contexts, NoRepeat(s),
         NEW f, f = [a \in DOMAIN s |-> s[a].ctx]
  PROVE  /\ \A c : c \in ToSet(f) <=> \E e \in ToSet(s) : e.ctx = c
         /\ \A a, b \in DOMAIN f : f[a] = f[b] => a = b
         /\ \A a \in DOMAIN f : f[a] \in Contexts
<1>1. DOMAIN f = DOMAIN s /\ \A a \in DOMAIN s : f[a] = s[a].ctx /\ s[a] \in S
  OBVIOUS
<1> QED BY <1>1 DEF ToSet, NoRepeat

LEMMA PlaceFacts ==
  ASSUME IInv, NEW i \in DOMAIN Places
  PROVE  /\ PlaceSpots[i] \in Spots /\ PlaceSpots[i] # "posted"
         /\ \A j \in DOMAIN Places : PlaceSpots[i] = PlaceSpots[j] => i = j
         /\ \A c : c \in ToSet(Places[i]) <=> In(PlaceSpots[i], c)
         /\ \A a, b \in DOMAIN Places[i] : Places[i][a] = Places[i][b] => a = b
         /\ \A a \in DOMAIN Places[i] : Places[i][a] \in Contexts
<1>0. QueueTypeOK /\ TypeOK /\ SpotsExact
  BY DEF IInv
<1>1. DOMAIN Places = {1, 2, 3, 4, 5}
  BY DEF Places
<1>2. /\ PlaceSpots[1] = "priority" /\ PlaceSpots[2] = "pending" /\ PlaceSpots[3] = "cq"
      /\ PlaceSpots[4] = "comp" /\ PlaceSpots[5] = "pool"
  BY DEF PlaceSpots
<1>3. /\ PlaceSpots[i] \in Spots /\ PlaceSpots[i] # "posted"
      /\ \A j \in DOMAIN Places : PlaceSpots[i] = PlaceSpots[j] => i = j
  BY <1>1, <1>2 DEF Spots
<1>5. /\ \A x \in Ops : x.ctx \in Contexts
      /\ \A x \in Entries : x.ctx \in Contexts
  BY DEF Ops, Entries
<1>6. /\ priority_ops \in Seq(Ops) /\ pending_ops \in Seq(Ops) /\ cq \in Seq(Entries)
      /\ comp \in Seq(Entries) /\ NoRepeat(priority_ops) /\ NoRepeat(pending_ops)
      /\ NoRepeat(cq) /\ NoRepeat(comp)
  BY <1>0 DEF QueueTypeOK, SpotsExact
<1>7. CASE i = 1
  <2>1. Places[i] = [a \in DOMAIN priority_ops |-> priority_ops[a].ctx]
    BY <1>7 DEF Places
  <2>2. /\ \A c : c \in ToSet(Places[i]) <=> \E e \in ToSet(priority_ops) : e.ctx = c
        /\ \A a, b \in DOMAIN Places[i] : Places[i][a] = Places[i][b] => a = b
        /\ \A a \in DOMAIN Places[i] : Places[i][a] \in Contexts
    <3>s. PICK s \in Seq(Ops) : s = priority_ops
      BY <1>6
    <3>f. PICK f : f = [a \in DOMAIN s |-> s[a].ctx]
      OBVIOUS
    <3>1. f = Places[i] /\ NoRepeat(s)
      BY <1>6, <2>1, <3>s, <3>f
    <3>2. /\ \A c : c \in ToSet(f) <=> \E e \in ToSet(s) : e.ctx = c
          /\ \A a, b \in DOMAIN f : f[a] = f[b] => a = b
          /\ \A a \in DOMAIN f : f[a] \in Contexts
      BY <1>5, <3>1, <3>f, ContextsOf
    <3> QED BY <3>1, <3>2, <3>s
  <2>3. PlaceSpots[i] = "priority"
    BY <1>2, <1>7
  <2> QED BY <1>3, <2>2, <2>3, InData
<1>8. CASE i = 2
  <2>1. Places[i] = [a \in DOMAIN pending_ops |-> pending_ops[a].ctx]
    BY <1>8 DEF Places
  <2>2. /\ \A c : c \in ToSet(Places[i]) <=> \E e \in ToSet(pending_ops) : e.ctx = c
        /\ \A a, b \in DOMAIN Places[i] : Places[i][a] = Places[i][b] => a = b
        /\ \A a \in DOMAIN Places[i] : Places[i][a] \in Contexts
    <3>s. PICK s \in Seq(Ops) : s = pending_ops
      BY <1>6
    <3>f. PICK f : f = [a \in DOMAIN s |-> s[a].ctx]
      OBVIOUS
    <3>1. f = Places[i] /\ NoRepeat(s)
      BY <1>6, <2>1, <3>s, <3>f
    <3>2. /\ \A c : c \in ToSet(f) <=> \E e \in ToSet(s) : e.ctx = c
          /\ \A a, b \in DOMAIN f : f[a] = f[b] => a = b
          /\ \A a \in DOMAIN f : f[a] \in Contexts
      BY <1>5, <3>1, <3>f, ContextsOf
    <3> QED BY <3>1, <3>2, <3>s
  <2>3. PlaceSpots[i] = "pending"
    BY <1>2, <1>8
  <2> QED BY <1>3, <2>2, <2>3, InData
<1>9. CASE i = 3
  <2>1. Places[i] = [a \in DOMAIN cq |-> cq[a].ctx]
    BY <1>9 DEF Places
  <2>2. /\ \A c : c \in ToSet(Places[i]) <=> \E e \in ToSet(cq) : e.ctx = c
        /\ \A a, b \in DOMAIN Places[i] : Places[i][a] = Places[i][b] => a = b
        /\ \A a \in DOMAIN Places[i] : Places[i][a] \in Contexts
    <3>s. PICK s \in Seq(Entries) : s = cq
      BY <1>6
    <3>f. PICK f : f = [a \in DOMAIN s |-> s[a].ctx]
      OBVIOUS
    <3>1. f = Places[i] /\ NoRepeat(s)
      BY <1>6, <2>1, <3>s, <3>f
    <3>2. /\ \A c : c \in ToSet(f) <=> \E e \in ToSet(s) : e.ctx = c
          /\ \A a, b \in DOMAIN f : f[a] = f[b] => a = b
          /\ \A a \in DOMAIN f : f[a] \in Contexts
      BY <1>5, <3>1, <3>f, ContextsOf
    <3> QED BY <3>1, <3>2, <3>s
  <2>3. PlaceSpots[i] = "cq"
    BY <1>2, <1>9
  <2> QED BY <1>3, <2>2, <2>3, InData
<1>10. CASE i = 4
  <2>1. Places[i] = [a \in DOMAIN comp |-> comp[a].ctx]
    BY <1>10 DEF Places
  <2>2. /\ \A c : c \in ToSet(Places[i]) <=> \E e \in ToSet(comp) : e.ctx = c
        /\ \A a, b \in DOMAIN Places[i] : Places[i][a] = Places[i][b] => a = b
        /\ \A a \in DOMAIN Places[i] : Places[i][a] \in Contexts
    <3>s. PICK s \in Seq(Entries) : s = comp
      BY <1>6
    <3>f. PICK f : f = [a \in DOMAIN s |-> s[a].ctx]
      OBVIOUS
    <3>1. f = Places[i] /\ NoRepeat(s)
      BY <1>6, <2>1, <3>s, <3>f
    <3>2. /\ \A c : c \in ToSet(f) <=> \E e \in ToSet(s) : e.ctx = c
          /\ \A a, b \in DOMAIN f : f[a] = f[b] => a = b
          /\ \A a \in DOMAIN f : f[a] \in Contexts
      BY <1>5, <3>1, <3>f, ContextsOf
    <3> QED BY <3>1, <3>2, <3>s
  <2>3. PlaceSpots[i] = "comp"
    BY <1>2, <1>10
  <2> QED BY <1>3, <2>2, <2>3, InData
<1>11. CASE i = 5
  <2>1. Places[i] = pool
    BY <1>11 DEF Places
  <2>2. pool \in Seq(Contexts) /\ IsInjective(pool)
    BY <1>0 DEF TypeOK, SpotsExact
  <2> QED BY <1>2, <1>3, <1>11, <2>1, <2>2, InData DEF IsInjective
<1> QED BY <1>1, <1>7, <1>8, <1>9, <1>10, <1>11

\* A context is in at most one place: it is never recycled while a queue,
\* libfabric or a completion entry still has it (req_ctx_factory); proved until two
\* threads complete one request at once.
THEOREM ContextInOnePlaceInvariant == Spec => [](~collided => ContextInOnePlace)
<1>1. ASSUME IInv PROVE ContextInOnePlace
  <2>0. OneSpot /\ SpotsExact /\ QueueTypeOK /\ TypeOK /\ Links
    BY <1>1 DEF IInv
  <2>1. ASSUME NEW i \in DOMAIN Places, NEW j \in DOMAIN Places, NEW a \in DOMAIN Places[i],
               NEW b \in DOMAIN Places[j], Places[i][a] = Places[j][b]
        PROVE  i = j /\ a = b
    <3>c. PICK c \in Contexts : c = Places[i][a]
      BY <1>1, PlaceFacts
    <3>1. c \in ToSet(Places[i]) /\ c \in ToSet(Places[j])
      BY <2>1, <3>c DEF ToSet
    <3>2. In(PlaceSpots[i], c) /\ In(PlaceSpots[j], c)
      BY <1>1, <3>1, PlaceFacts
    <3>3. PlaceSpots[i] = PlaceSpots[j]
      BY <1>1, <2>0, <3>2, PlaceFacts DEF OneSpot
    <3> QED BY <1>1, <2>1, <3>3, PlaceFacts
  <2>2. ASSUME NEW p \in posted, NEW i \in DOMAIN Places, p.ctx \in ToSet(Places[i])
        PROVE  FALSE
    <3>c. PICK c \in Contexts : c = p.ctx
      BY <2>0, OpContexts
    <3>1. In("posted", c) /\ In(PlaceSpots[i], c)
      BY <1>1, <2>2, <3>c, InData, PlaceFacts
    <3>2. PlaceSpots[i] \in Spots /\ PlaceSpots[i] # "posted"
      BY <1>1, PlaceFacts
    <3> QED BY <2>0, <3>1, <3>2 DEF OneSpot, Spots
  <2>3. \A r \in Requests : wait_context[r] # Null => wait_context[r] \notin ToSet(pool)
    BY <2>0, LifecycleAssumption DEF Links, TypeOK
  <2> QED BY <2>0, <2>1, <2>2, <2>3 DEF ContextInOnePlace, SpotsExact
<1>2. QInv => (~collided => ContextInOnePlace)
  BY <1>1 DEF QInv
<1> QED BY <1>2, Inductive, PTL


-----------------------------------------------------------------------------
(* The requests of the interface.                                          *)

\* complete is called with one of the errors an operation can end with.
ErrorsKnown == \A t \in Threads : call[t].err \in Errors

LEMMA CallErrors ==
  ASSUME TypeOK, ErrorsKnown, NEW t \in Threads,
         \/ UNCHANGED call \/ call' = [call EXCEPT ![t] = NoCall]
         \/ \E r : call' = [call EXCEPT ![t].req = r]
         \/ \E r, o, c, l : \E e \in Errors : EnterComplete(t, r, e, o, c, l)
  PROVE  ErrorsKnown'
<1>0. \A u \in Threads : call[u].err \in Errors
  BY DEF ErrorsKnown
<1>1. call = [u \in Threads |-> [req |-> call[u].req, err |-> call[u].err, op |-> call[u].op,
                                 ctx |-> call[u].ctx, ret |-> call[u].ret]]
  BY DEF TypeOK, CallType
<1>2. \A u \in Threads \ {t} : call'[u] = call[u]
  BY <1>1 DEF EnterComplete
<1>3. call'[t].err \in Errors
  <2>1. CASE UNCHANGED call
    BY <1>0, <2>1
  <2>2. CASE call' = [call EXCEPT ![t] = NoCall]
    BY <1>1, <2>2 DEF NoCall, Errors
  <2>3. ASSUME NEW r, call' = [call EXCEPT ![t].req = r] PROVE call'[t].err \in Errors
    <3>1. call[t] = [req |-> call[t].req, err |-> call[t].err, op |-> call[t].op,
                     ctx |-> call[t].ctx, ret |-> call[t].ret]
      BY <1>1
    <3>2. call'[t] = [call[t] EXCEPT !.req = r]
      BY <1>1, <2>3
    <3>3. call'[t].err = call[t].err
      BY <3>1, <3>2
    <3> QED BY <1>0, <3>3
  <2>4. ASSUME NEW r, NEW o, NEW c, NEW l, NEW e \in Errors, EnterComplete(t, r, e, o, c, l)
        PROVE  call'[t].err \in Errors
    BY <1>1, <2>4 DEF EnterComplete
  <2> QED BY <2>1, <2>2, <2>3, <2>4
<1> QED BY <1>0, <1>2, <1>3 DEF ErrorsKnown

LEMMA ErrorsNext ==
  ASSUME IInv, ErrorsKnown, [Next]_vars
  PROVE  ErrorsKnown'
<1>0. TypeOK /\ QueueTypeOK
  BY DEF IInv
<1>1. ASSUME NEW t \in Threads, Step(t) PROVE ErrorsKnown'
  <2>1. ASSUME PostReset(t) \/ PostPush(t) \/ CompleteCheck(t) \/ FtComplete(t) \/ CompleteLocked(t)
               \/ CqRead(t) \/ FillRequest(t) \/ EndBatch(t) \/ PostAccepted(t) \/ PostEnd(t)
               \/ RunCallbacks(t) \/ CancelLocked(t) \/ CancelProgress(t)
        PROVE  UNCHANGED call
    BY <2>1 DEF PostReset, PostPush, CompleteCheck, FtComplete, CompleteLocked, CqRead, FillRequest,
                EndBatch, PostAccepted, PostEnd, RunCallbacks, CancelLocked, CancelProgress
  <2>2. ASSUME RegisterRequest(t) \/ DestroyEntry(t) \/ FinishInjected(t) \/ FinishFailed(t)
        PROVE  call' = [call EXCEPT ![t] = NoCall]
    BY <2>2 DEF RegisterRequest, DestroyEntry, FinishInjected, FinishFailed
  <2>3. ASSUME HandleEntry(t)
        PROVE  UNCHANGED call \/ \E r, o, c, l : \E e \in Errors : EnterComplete(t, r, e, o, c, l)
    <3>1. comp # <<>> /\ comp \in Seq(Entries)
      BY <1>0, <2>3 DEF HandleEntry, QueueTypeOK
    <3>2. Head(comp) \in Entries
      BY <3>1
    <3>3. Head(comp).err \in Errors
      BY <3>2 DEF Entries
    <3> QED BY <2>3, <3>3 DEF HandleEntry
  <2>4. ASSUME PostInjected(t)
        PROVE  UNCHANGED call \/ \E r, o, c, l : \E e \in Errors : EnterComplete(t, r, e, o, c, l)
    <3>1. "SUCCESS" \in Errors
      BY DEF Errors
    <3> QED BY <2>4, <3>1 DEF PostInjected
  <2>5. ASSUME PostFailed(t)
        PROVE  UNCHANGED call \/ \E r, o, c, l : \E e \in Errors : EnterComplete(t, r, e, o, c, l)
    <3>1. "LIBFABRIC_ERROR" \in Errors
      BY DEF Errors
    <3> QED BY <2>5, <3>1 DEF PostFailed
  <2>6. ASSUME CancelComplete(t) PROVE \E r, o, c, l : \E e \in Errors : EnterComplete(t, r, e, o, c, l)
    <3>1. "CANCELED" \in Errors
      BY DEF Errors
    <3> QED BY <2>6, <3>1 DEF CancelComplete
  <2> QED BY <1>0, <1>1, <2>1, <2>2, <2>3, <2>4, <2>5, <2>6, CallErrors DEF Step
<1>2. ASSUME NEW t \in Threads, ProgressBegin(t) PROVE ErrorsKnown'
  BY <1>2 DEF ProgressBegin, ErrorsKnown
<1>3. ASSUME NEW t \in Threads, NEW r \in Requests, PostBegin(t, r) \/ CancelErase(t, r) PROVE ErrorsKnown'
  <2>1. UNCHANGED call \/ call' = [call EXCEPT ![t].req = r]
    BY <1>3 DEF PostBegin, CancelErase
  <2> QED BY <1>0, <2>1, CallErrors
<1>4. ASSUME NEW p \in posted, NEW err \in Errors, Arrive(p, err) PROVE ErrorsKnown'
  BY <1>4 DEF Arrive, ErrorsKnown
<1>5. CASE UNCHANGED vars
  BY <1>5 DEF vars, ErrorsKnown
<1> QED BY <1>1, <1>2, <1>3, <1>4, <1>5 DEF Next, Moves

\* The application sees nothing of a step that leaves these alone.
LEMMA Unseen ==
  ASSUME UNCHANGED <<wait_context, gen, error, size, callbacks, called>>
  PROVE  UNCHANGED A!avars
BY DEF A!avars

\* A post.
LEMMA PostRefines ==
  ASSUME IInv, NEW t \in Threads, PostReset(t)
  PROVE  \E r \in Requests : A!APost(r)
<1>0. TypeOK /\ ThreadOK(t) /\ ThreadLinks(t)
  BY DEF IInv, Control, RunningOps
<1>r. PICK r : r = call[t].req
  OBVIOUS
<1>1. r \in Requests /\ wait_context[r] = Null
  BY <1>0, <1>r DEF PostReset, ThreadOK, ThreadLinks
<1>2. PICK c \in Contexts : wait_context' = [wait_context EXCEPT ![r] = c]
  BY <1>r DEF PostReset
<1>3. c # Null
  BY LifecycleAssumption
<1>4. PICK s \in {"0", "asked", "got"} : size' = [size EXCEPT ![r] = s]
  BY <1>r DEF PostReset, AsyncSend, AsyncRecv, AsyncPut, AsyncGet
<1>5. /\ gen' = [gen EXCEPT ![r] = gen[r] + 1] /\ error' = [error EXCEPT ![r] = "SUCCESS"]
      /\ UNCHANGED <<callbacks, called>>
  BY <1>r DEF PostReset, cbVars
<1>6. /\ ~[q \in Requests |-> wait_context[q] # Null][r]
      /\ [q \in Requests |-> wait_context'[q] # Null]
           = [[q \in Requests |-> wait_context[q] # Null] EXCEPT ![r] = TRUE]
  <2>1. \A q \in Requests : wait_context'[q] = IF q = r THEN c ELSE wait_context[q]
    BY <1>0, <1>2 DEF TypeOK
  <2> QED BY <1>1, <1>3, <2>1
<1>7. A!APost(r)
  BY <1>4, <1>5, <1>6 DEF A!APost
<1> QED BY <1>1, <1>7

\* The size of a running request.
LEMMA FillRefines ==
  ASSUME IInv, NEW t \in Threads, PostPush(t) \/ FillRequest(t)
  PROVE  (\E r \in Requests : A!AFill(r)) \/ UNCHANGED A!avars
<1>0. TypeOK /\ ThreadOK(t) /\ ThreadLinks(t)
  BY DEF IInv, Control, RunningOps
<1>r. PICK r : r = call[t].req
  OBVIOUS
<1>1. r \in Requests /\ wait_context[r] # Null
  <2>1. CASE PostPush(t)
    BY <1>0, <1>r, <2>1 DEF PostPush, ThreadOK, ThreadLinks
  <2>2. CASE FillRequest(t)
    <3>1. pc[t] = "fill" /\ Completes(t)
      BY <2>2 DEF FillRequest, Completes
    <3> QED BY <1>0, <1>r, <3>1, LifecycleAssumption DEF ThreadOK, ThreadLinks
  <2> QED BY <2>1, <2>2
<1>2. UNCHANGED <<wait_context, gen, error, callbacks, called>>
  BY DEF PostPush, FillRequest, cbVars
<1>3. UNCHANGED size \/ \E s \in {"0", "asked", "got"} : size' = [size EXCEPT ![r] = s]
  BY <1>r DEF PostPush, FillRequest
<1>4. CASE UNCHANGED size
  BY <1>2, <1>4, Unseen
<1>5. ASSUME NEW s \in {"0", "asked", "got"}, size' = [size EXCEPT ![r] = s] PROVE A!AFill(r)
  BY <1>1, <1>2, <1>5 DEF A!AFill
<1> QED BY <1>1, <1>3, <1>4, <1>5

\* The end of an operation: whoever gets there, the operation still runs.
LEMMA EndRefines ==
  ASSUME IInv, ErrorsKnown, NEW t \in Threads, CompleteLocked(t)
  PROVE  \E r \in Requests : A!AEnd(r)
<1>0. TypeOK /\ ThreadOK(t) /\ ThreadLinks(t) /\ call[t].err \in Errors
  BY DEF IInv, Control, RunningOps, ErrorsKnown
<1>r. PICK r : r = call[t].req
  OBVIOUS
<1>1. r \in Requests /\ wait_context[r] # Null
  BY <1>0, <1>r DEF CompleteLocked, ThreadOK, ThreadLinks
<1>2. /\ wait_context' = [wait_context EXCEPT ![r] = Null] /\ error' = [error EXCEPT ![r] = call[t].err]
      /\ callbacks' = Append(callbacks, <<r, gen[r]>>) /\ UNCHANGED <<gen, size, called>>
  BY <1>r DEF CompleteLocked
<1>3. /\ [q \in Requests |-> wait_context[q] # Null][r]
      /\ [q \in Requests |-> wait_context'[q] # Null]
           = [[q \in Requests |-> wait_context[q] # Null] EXCEPT ![r] = FALSE]
  <2>1. \A q \in Requests : wait_context'[q] = IF q = r THEN Null ELSE wait_context[q]
    BY <1>0, <1>2 DEF TypeOK
  <2> QED BY <1>1, <2>1
<1>4. A!AEnd(r)
  BY <1>0, <1>2, <1>3 DEF A!AEnd
<1> QED BY <1>1, <1>4

LEMMA CallbacksRefine ==
  ASSUME NEW t \in Threads, RunCallbacks(t)
  PROVE  A!ARunCallbacks \/ UNCHANGED A!avars
<1>1. UNCHANGED <<wait_context, gen, error, size>>
  BY DEF RunCallbacks, reqVars
<1>2. CASE cancelling[t].req = Null
  <2>1. called' = called \cup A!ToSet(callbacks) /\ callbacks' = <<>>
    BY <1>2 DEF RunCallbacks, ToSet, A!ToSet
  <2> QED BY <1>1, <2>1 DEF A!ARunCallbacks
<1>3. CASE cancelling[t].req # Null
  BY <1>1, <1>3, Unseen DEF RunCallbacks, cbVars
<1> QED BY <1>2, <1>3

LEMMA NextRefines ==
  ASSUME IInv, ErrorsKnown, [Next]_vars
  PROVE  [A!ANext]_A!avars
<1>1. ASSUME NEW t \in Threads, Step(t) PROVE A!ANext \/ UNCHANGED A!avars
  <2>1. CASE PostReset(t)
    BY <2>1, PostRefines DEF A!ANext
  <2>2. CASE PostPush(t) \/ FillRequest(t)
    BY <2>2, FillRefines DEF A!ANext
  <2>3. CASE CompleteLocked(t)
    BY <2>3, EndRefines DEF A!ANext
  <2>4. CASE RunCallbacks(t)
    BY <2>4, CallbacksRefine DEF A!ANext
  <2>5. CASE RegisterRequest(t) \/ CompleteCheck(t) \/ FtComplete(t) \/ CqRead(t) \/ HandleEntry(t)
             \/ DestroyEntry(t) \/ EndBatch(t)
    <3>1. UNCHANGED <<reqVars, cbVars>>
      BY <2>5 DEF RegisterRequest, CompleteCheck, FtComplete, CqRead, HandleEntry, DestroyEntry, EndBatch
    <3> QED BY <3>1, Unseen DEF reqVars, cbVars
  <2>6. CASE PostAccepted(t) \/ PostInjected(t) \/ FinishInjected(t) \/ PostFailed(t) \/ FinishFailed(t)
             \/ PostEnd(t) \/ CancelLocked(t) \/ CancelProgress(t) \/ CancelComplete(t)
    <3>1. UNCHANGED <<reqVars, cbVars>>
      BY <2>6 DEF PostAccepted, PostInjected, FinishInjected, PostFailed, FinishFailed, PostEnd,
                  CancelLocked, CancelProgress, CancelComplete
    <3> QED BY <3>1, Unseen DEF reqVars, cbVars
  <2> QED BY <1>1, <2>1, <2>2, <2>3, <2>4, <2>5, <2>6 DEF Step
<1>2. ASSUME NEW t \in Threads, NEW r \in Requests, ProgressBegin(t) \/ PostBegin(t, r) \/ CancelErase(t, r)
      PROVE  UNCHANGED A!avars
  <2>1. UNCHANGED <<reqVars, cbVars>>
    BY <1>2 DEF ProgressBegin, PostBegin, CancelErase
  <2> QED BY <2>1, Unseen DEF reqVars, cbVars
<1>3. ASSUME NEW t \in Threads, ProgressBegin(t) PROVE UNCHANGED A!avars
  <2>1. UNCHANGED <<reqVars, cbVars>>
    BY <1>3 DEF ProgressBegin
  <2> QED BY <2>1, Unseen DEF reqVars, cbVars
<1>4. ASSUME NEW p \in posted, NEW err \in Errors, Arrive(p, err) PROVE UNCHANGED A!avars
  <2>1. UNCHANGED <<reqVars, cbVars>>
    BY <1>4 DEF Arrive
  <2> QED BY <2>1, Unseen DEF reqVars, cbVars
<1>5. CASE UNCHANGED vars
  BY <1>5, Unseen DEF vars, reqVars, cbVars
<1> QED BY <1>1, <1>2, <1>3, <1>4, <1>5 DEF Next, Moves

\* The endpoint implements the requests of the interface until two threads
\* complete one request at once: for any threads, requests and contexts, and
\* whoever cancels, an operation ends once, and what its request reports stays
\* until the next post (async_*, progress, post_pending_ops, complete and cancel).
THEOREM RequestsImplemented == Spec => ImplementsRequest
<1>1. ASSUME Init PROVE A!AInit /\ ErrorsKnown
  <2>1. ErrorsKnown
    BY <1>1 DEF Init, ErrorsKnown, NoCall, Errors
  <2>2. [r \in Requests |-> wait_context[r] # Null] = [r \in Requests |-> FALSE]
    <3>1. \A r \in Requests : wait_context[r] = Null
      BY <1>1 DEF Init
    <3> QED BY <3>1
  <2>3. A!AInit
    BY <1>1, <2>2 DEF Init, A!AInit
  <2> QED BY <2>1, <2>3
<1>2. ASSUME QInv, ~collided => ErrorsKnown, [Next]_vars PROVE (~collided => ErrorsKnown)'
  <2> SUFFICES ASSUME ~collided' PROVE ErrorsKnown'
    OBVIOUS
  <2>1. IInv /\ ErrorsKnown
    BY <1>2, NotCollided DEF QInv
  <2> QED BY <1>2, <2>1, ErrorsNext
<1>3. ASSUME QInv, ~collided => ErrorsKnown, [Next]_vars PROVE [A!ANext \/ collided']_(A!avars)
  <2>1. CASE collided'
    BY <2>1
  <2>2. CASE ~collided'
    <3>1. IInv /\ ErrorsKnown
      BY <1>3, <2>2, NotCollided DEF QInv
    <3> QED BY <1>3, <3>1, NextRefines
  <2> QED BY <2>1, <2>2
<1> QED BY <1>1, <1>2, <1>3, Inductive, PTL DEF Spec, ImplementsRequest

-----------------------------------------------------------------------------
(* Callbacks.                                                              *)

\* CallbackOnce, request by request.
Once ==
  /\ IsInjective(callbacks) /\ ToSet(callbacks) \cap called = {} /\ called \subseteq Requests \X Nat
  /\ \A e \in ToSet(callbacks) \cup called :
       e[2] <= gen[e[1]] /\ (wait_context[e[1]] # Null => e[2] < gen[e[1]])

\* A step that posts, ends or runs nothing else than the interface allows.
LEMMA OnceNext ==
  ASSUME TypeOK, QueueTypeOK, Once, [A!ANext]_A!avars
  PROVE  Once'
<1>0. /\ callbacks \in Seq(Requests \X Nat) /\ gen \in [Requests -> Nat]
      /\ IsInjective(callbacks) /\ ToSet(callbacks) \cap called = {} /\ called \subseteq Requests \X Nat
  BY DEF TypeOK, QueueTypeOK, Once
<1>1. ToSet(callbacks) \subseteq Requests \X Nat
  BY <1>0 DEF ToSet
<1>2. \A e \in ToSet(callbacks) \cup called :
        /\ e[1] \in Requests /\ e[2] \in Nat /\ e[2] <= gen[e[1]]
        /\ wait_context[e[1]] # Null => e[2] < gen[e[1]]
  BY <1>0, <1>1 DEF Once
<1>3. ASSUME NEW r \in Requests, A!APost(r) PROVE Once'
  <2>1. UNCHANGED <<callbacks, called>> /\ gen' = [gen EXCEPT ![r] = gen[r] + 1]
    BY <1>3 DEF A!APost
  <2>2. \A q \in Requests : q # r => (wait_context'[q] # Null <=> wait_context[q] # Null)
    <3>1. [q \in Requests |-> wait_context'[q] # Null]
            = [[q \in Requests |-> wait_context[q] # Null] EXCEPT ![r] = TRUE]
      BY <1>3 DEF A!APost
    <3>2. ASSUME NEW q \in Requests, q # r PROVE wait_context'[q] # Null <=> wait_context[q] # Null
      <4>1. [x \in Requests |-> wait_context'[x] # Null][q] = [x \in Requests |-> wait_context[x] # Null][q]
        BY <3>1, <3>2
      <4> QED BY <4>1
    <3> QED BY <3>2
  <2>3. \A e \in ToSet(callbacks) \cup called :
          e[2] <= gen'[e[1]] /\ (wait_context'[e[1]] # Null => e[2] < gen'[e[1]])
    <3> SUFFICES ASSUME NEW e \in ToSet(callbacks) \cup called
                 PROVE  e[2] <= gen'[e[1]] /\ (wait_context'[e[1]] # Null => e[2] < gen'[e[1]])
      OBVIOUS
    <3>q. PICK q \in Requests : q = e[1]
      BY <1>2
    <3>k. PICK k \in Nat : k = e[2]
      BY <1>2
    <3>1. k <= gen[q] /\ (wait_context[q] # Null => k < gen[q]) /\ gen[q] \in Nat
      BY <1>0, <1>2, <3>q, <3>k
    <3>2. gen'[q] = IF q = r THEN gen[q] + 1 ELSE gen[q]
      BY <1>0, <2>1
    <3>3. k <= gen'[q] /\ (wait_context'[q] # Null => k < gen'[q])
      BY <2>2, <3>1, <3>2
    <3> QED BY <3>3, <3>q, <3>k
  <2> QED BY <1>0, <2>1, <2>3 DEF Once
<1>4. ASSUME NEW r \in Requests, A!AFill(r) PROVE Once'
  <2>1. UNCHANGED <<callbacks, called, gen, [q \in Requests |-> wait_context[q] # Null]>>
    BY <1>4 DEF A!AFill
  <2>2. \A q \in Requests : wait_context'[q] # Null <=> wait_context[q] # Null
    <3>1. ASSUME NEW q \in Requests PROVE wait_context'[q] # Null <=> wait_context[q] # Null
      <4>1. [x \in Requests |-> wait_context'[x] # Null][q] = [x \in Requests |-> wait_context[x] # Null][q]
        BY <2>1
      <4> QED BY <4>1
    <3> QED BY <3>1
  <2> QED BY <1>0, <1>2, <2>1, <2>2 DEF Once
<1>5. ASSUME NEW r \in Requests, A!AEnd(r) PROVE Once'
  <2>n. PICK n \in Requests \X Nat : n = <<r, gen[r]>>
    BY <1>0
  <2>1. callbacks' = Append(callbacks, n) /\ UNCHANGED <<gen, called>> /\ wait_context[r] # Null
    <3>1. [q \in Requests |-> wait_context[q] # Null][r]
      BY <1>5 DEF A!AEnd
    <3>2. wait_context[r] # Null
      BY <3>1
    <3> QED BY <1>5, <2>n, <3>2 DEF A!AEnd
  <2>2. n \notin ToSet(callbacks) \cup called
    <3>1. n[1] = r /\ n[2] = gen[r] /\ gen[r] \in Nat
      BY <1>0, <2>n
    <3>2. ~(gen[r] < gen[r])
      BY <3>1
    <3> QED BY <1>2, <2>1, <3>1, <3>2
  <2>3. /\ callbacks' \in Seq(Requests \X Nat) /\ IsInjective(callbacks')
        /\ ToSet(callbacks') = ToSet(callbacks) \cup {n}
    BY <1>0, <2>1, <2>2, PoolAppend
  <2>4. \A q \in Requests : wait_context'[q] # Null => q # r /\ wait_context[q] # Null
    <3>1. [q \in Requests |-> wait_context'[q] # Null]
            = [[q \in Requests |-> wait_context[q] # Null] EXCEPT ![r] = FALSE]
      BY <1>5 DEF A!AEnd
    <3>2. ASSUME NEW q \in Requests, wait_context'[q] # Null PROVE q # r /\ wait_context[q] # Null
      <4>1. [x \in Requests |-> wait_context'[x] # Null][q]
              = IF q = r THEN FALSE ELSE [x \in Requests |-> wait_context[x] # Null][q]
        BY <3>1
      <4> QED BY <3>2, <4>1
    <3> QED BY <3>2
  <2>5. ASSUME NEW e \in ToSet(callbacks') \cup called'
        PROVE  e[2] <= gen'[e[1]] /\ (wait_context'[e[1]] # Null => e[2] < gen'[e[1]])
    <3>1. CASE e = n
      <4>1. e[1] = r /\ e[2] = gen[r] /\ gen[r] \in Nat
        BY <1>0, <2>n, <3>1
      <4> QED BY <2>1, <2>4, <4>1
    <3>2. CASE e \in ToSet(callbacks) \cup called
      BY <1>2, <2>1, <2>4, <3>2
    <3> QED BY <2>1, <2>3, <3>1, <3>2
  <2> QED BY <1>0, <2>1, <2>2, <2>3, <2>5 DEF Once
<1>6. CASE A!ARunCallbacks
  <2>1. /\ called' = called \cup ToSet(callbacks) /\ callbacks' = <<>> /\ UNCHANGED gen
        /\ UNCHANGED [q \in Requests |-> wait_context[q] # Null]
    BY <1>6 DEF A!ARunCallbacks, A!ToSet, ToSet
  <2>2. \A q \in Requests : wait_context'[q] # Null <=> wait_context[q] # Null
    <3>1. ASSUME NEW q \in Requests PROVE wait_context'[q] # Null <=> wait_context[q] # Null
      <4>1. [x \in Requests |-> wait_context'[x] # Null][q] = [x \in Requests |-> wait_context[x] # Null][q]
        BY <2>1
      <4> QED BY <4>1
    <3> QED BY <3>1
  <2>3. IsInjective(callbacks') /\ ToSet(callbacks') = {}
    BY <2>1 DEF IsInjective, ToSet
  <2> QED BY <1>0, <1>1, <1>2, <2>1, <2>2, <2>3 DEF Once
<1>7. CASE UNCHANGED A!avars
  <2>1. UNCHANGED <<callbacks, called, gen, [q \in Requests |-> wait_context[q] # Null]>>
    BY <1>7 DEF A!avars
  <2>2. \A q \in Requests : wait_context'[q] # Null <=> wait_context[q] # Null
    <3>1. ASSUME NEW q \in Requests PROVE wait_context'[q] # Null <=> wait_context[q] # Null
      <4>1. [x \in Requests |-> wait_context'[x] # Null][q] = [x \in Requests |-> wait_context[x] # Null][q]
        BY <2>1
      <4> QED BY <4>1
    <3> QED BY <3>1
  <2> QED BY <1>0, <1>2, <2>1, <2>2 DEF Once
<1> QED BY <1>3, <1>4, <1>5, <1>6, <1>7 DEF A!ANext

\* The callback of every finished operation is queued or has run, once, and
\* not before the operation has ended: complete queues it, and progress empties
\* the queue as it runs them.  That it is not there twice follows from the
\* requests of the interface alone.  Proved until two threads complete one
\* request at once.
THEOREM CallbackOnceInvariant == Spec => [](~collided => CallbackOnce)
<1>1. Init => Once
  BY DEF Init, Once, IsInjective, ToSet
<1>2. ASSUME QInv, ~collided => Once, [Next]_vars, [A!ANext \/ collided']_(A!avars)
      PROVE  (~collided => Once)'
  <2> SUFFICES ASSUME ~collided' PROVE Once'
    OBVIOUS
  <2>1. IInv /\ Once /\ [A!ANext]_(A!avars)
    BY <1>2, NotCollided DEF QInv
  <2> QED BY <2>1, OnceNext DEF IInv
<1>3. ASSUME IInv, Once PROVE CallbackOnce
  <2>1. ToSet(callbacks) \cup called \subseteq Requests \X Nat
    BY <1>3 DEF IInv, QueueTypeOK, Once, ToSet
  <2>2. \A e \in ToSet(callbacks) \cup called :
          e[2] <= gen[e[1]] /\ ([r \in Requests |-> wait_context[r] # Null][e[1]] => e[2] < gen[e[1]])
    <3> SUFFICES ASSUME NEW e \in ToSet(callbacks) \cup called
                 PROVE  e[2] <= gen[e[1]] /\ ([r \in Requests |-> wait_context[r] # Null][e[1]] => e[2] < gen[e[1]])
      OBVIOUS
    <3>1. e[1] \in Requests
      BY <2>1
    <3>2. e[2] <= gen[e[1]] /\ (wait_context[e[1]] # Null => e[2] < gen[e[1]])
      BY <1>3 DEF Once
    <3> QED BY <3>1, <3>2
  <2>3. A!CallbackOnce
    BY <1>3, <2>2 DEF A!CallbackOnce, Once, IsInjective, A!IsInjective, ToSet, A!ToSet
  <2> QED BY <1>3, <2>3 DEF CallbackOnce, IInv
<1>4. Spec => [][A!ANext \/ collided']_(A!avars)
  BY RequestsImplemented, PTL DEF ImplementsRequest
<1>5. QInv /\ (~collided => Once) => (~collided => CallbackOnce)
  BY <1>3 DEF QInv
<1> QED BY <1>1, <1>2, <1>4, <1>5, Inductive, PTL DEF Spec
=============================================================================
