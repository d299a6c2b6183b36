------------------------ MODULE ProgressGuard_proofs ------------------------
(***************************************************************************)
(* Proofs about ProgressGuard, for any number of threads and requests.      *)
(***************************************************************************)
EXTENDS ProgressGuard, SequenceTheorems, TLAPS

-----------------------------------------------------------------------------
(* Removal of one element from waiters_list.                               *)

\* RemoveAt(s, i) closes the gap at position i (DoubleLinkedList::erase).
LEMMA RemoveAtProperties ==
  ASSUME NEW S, NEW s \in Seq(S), NEW i \in DOMAIN s
  PROVE  /\ RemoveAt(s, i) \in Seq(S)
         /\ Len(RemoveAt(s, i)) = Len(s) - 1
         /\ \A j \in 1..(Len(s) - 1) :
              RemoveAt(s, i)[j] = IF j < i THEN s[j] ELSE s[j + 1]
<1> DEFINE a == SubSeq(s, 1, i - 1)
           b == SubSeq(s, i + 1, Len(s))
           c == a \o b
<1>1. i \in 1..Len(s) /\ Len(s) \in Nat
  OBVIOUS
<1>2. /\ a \in Seq(S) /\ Len(a) = i - 1
      /\ \A j \in 1..(i - 1) : a[j] = s[j]
  BY <1>1
<1>3. /\ b \in Seq(S) /\ Len(b) = Len(s) - i
      /\ \A j \in 1..(Len(s) - i) : b[j] = s[i + j]
  BY <1>1
<1>4. RemoveAt(s, i) = c
  BY DEF RemoveAt
<1> HIDE DEF a, b
<1>5. /\ c \in Seq(S)
      /\ Len(c) = Len(a) + Len(b)
      /\ \A j \in 1..(Len(a) + Len(b)) :
           c[j] = IF j <= Len(a) THEN a[j] ELSE b[j - Len(a)]
  BY <1>2, <1>3, ConcatProperties, Zenon
<1> HIDE DEF c
<1>6. ASSUME NEW j \in 1..(Len(s) - 1)
      PROVE  c[j] = IF j < i THEN s[j] ELSE s[j + 1]
  <2>1. c[j] = IF j <= i - 1 THEN a[j] ELSE b[j - (i - 1)]
    <3>1. Len(a) = i - 1 /\ j \in 1..(Len(a) + Len(b))
      BY <1>1, <1>2, <1>3
    <3>2. c[j] = IF j <= Len(a) THEN a[j] ELSE b[j - Len(a)]
      BY <1>5, <3>1, Zenon
    <3> QED BY <3>1, <3>2, Zenon
  <2>2. CASE j < i
    BY <2>1, <2>2, <1>1, <1>2
  <2>3. CASE ~(j < i)
    <3>1. j - (i - 1) \in 1..(Len(s) - i) /\ i + (j - (i - 1)) = j + 1
      BY <2>3, <1>1
    <3>2. c[j] = b[j - (i - 1)]
      BY <1>1, <2>1, <2>3
    <3>3. b[j - (i - 1)] = s[i + (j - (i - 1))]
      BY <1>3, <3>1, Zenon
    <3> QED BY <2>3, <3>1, <3>2, <3>3, Zenon
  <2> QED BY <2>2, <2>3
<1>7. Len(c) = Len(s) - 1
  BY <1>1, <1>2, <1>3, <1>5
<1> QED BY <1>4, <1>5, <1>6, <1>7

\* Erasing one element of a duplicate-free list removes it and nothing else.
LEMMA RemoveAtInjective ==
  ASSUME NEW S, NEW s \in Seq(S), IsInjective(s), NEW i \in DOMAIN s
  PROVE  /\ RemoveAt(s, i) \in Seq(S)
         /\ IsInjective(RemoveAt(s, i))
         /\ \A x : Contains(RemoveAt(s, i), x) <=> Contains(s, x) /\ x # s[i]
<1> DEFINE r == RemoveAt(s, i)
<1>1. /\ r \in Seq(S)
      /\ Len(r) = Len(s) - 1
      /\ \A j \in 1..(Len(s) - 1) : r[j] = IF j < i THEN s[j] ELSE s[j + 1]
  BY RemoveAtProperties
<1> HIDE DEF r
<1>2. i \in 1..Len(s) /\ Len(s) \in Nat /\ DOMAIN s = 1..Len(s)
      /\ DOMAIN r = 1..(Len(s) - 1)
  BY <1>1
<1>3. \A j, k \in 1..Len(s) : s[j] = s[k] => j = k
  BY <1>2 DEF IsInjective
<1>4. IsInjective(r)
  <2>1. SUFFICES ASSUME NEW j \in 1..(Len(s) - 1), NEW k \in 1..(Len(s) - 1), r[j] = r[k]
                 PROVE  j = k
    BY <1>2 DEF IsInjective
  <2> DEFINE skip(m) == IF m < i THEN m ELSE m + 1
  <2>2. skip(j) \in 1..Len(s) /\ skip(k) \in 1..Len(s)
    BY <1>2
  <2>3. r[j] = s[skip(j)] /\ r[k] = s[skip(k)]
    BY <1>1
  <2>4. skip(j) = skip(k)
    BY <2>1, <2>2, <2>3, <1>3
  <2> QED BY <2>4, <1>2
<1>5. ASSUME NEW x, Contains(r, x)
      PROVE  Contains(s, x) /\ x # s[i]
  <2>1. PICK j \in 1..(Len(s) - 1) : r[j] = x
    BY <1>1, <1>5 DEF Contains
  <2>2. PICK k \in 1..Len(s) : k # i /\ s[k] = x
    BY <2>1, <1>1, <1>2
  <2> QED BY <2>2, <1>2, <1>3 DEF Contains
<1>6. ASSUME NEW x, Contains(s, x), x # s[i]
      PROVE  Contains(r, x)
  <2>1. PICK k \in 1..Len(s) : s[k] = x /\ k # i
    BY <1>6, <1>2 DEF Contains
  <2>2. CASE k < i
    <3>1. k \in 1..(Len(s) - 1) /\ r[k] = s[k]
      BY <2>1, <2>2, <1>1, <1>2
    <3> QED BY <3>1, <2>1, <1>1 DEF Contains
  <2>3. CASE k > i
    <3>1. k - 1 \in 1..(Len(s) - 1) /\ ~(k - 1 < i) /\ (k - 1) + 1 = k
      BY <2>1, <2>3, <1>2
    <3>2. r[k - 1] = s[k]
      BY <3>1, <1>1
    <3> QED BY <3>1, <3>2, <2>1, <1>1 DEF Contains
  <2> QED BY <2>1, <2>2, <2>3, <1>2
<1> QED BY <1>1, <1>4, <1>5, <1>6 DEF r

\* Appending a new element keeps a list duplicate-free.
LEMMA AppendKeepsInjective ==
  ASSUME NEW S, NEW s \in Seq(S), IsInjective(s), NEW e \in S, ~Contains(s, e)
  PROVE  /\ Append(s, e) \in Seq(S)
         /\ IsInjective(Append(s, e))
         /\ \A x : Contains(Append(s, e), x) <=> Contains(s, x) \/ x = e
<1> DEFINE r == Append(s, e)
<1>1. /\ r \in Seq(S)
      /\ Len(r) = Len(s) + 1
      /\ \A j \in 1..Len(s) : r[j] = s[j]
      /\ r[Len(s) + 1] = e
  BY AppendProperties
<1> HIDE DEF r
<1>2. Len(s) \in Nat /\ DOMAIN s = 1..Len(s) /\ DOMAIN r = 1..(Len(s) + 1)
  BY <1>1
<1>3. IsInjective(r)
  BY <1>1, <1>2 DEF IsInjective, Contains
<1>4. \A x : Contains(r, x) <=> Contains(s, x) \/ x = e
  BY <1>1, <1>2 DEF Contains
<1> QED BY <1>1, <1>3, <1>4 DEF r

-----------------------------------------------------------------------------
(* Type correctness.                                                       *)

\* The initial state is well typed.
LEMMA InitType == Init => TypeOK
<1>1. (CHOOSE r \in Requests : TRUE) \in Requests
  BY ConstAssumption
<1>2. <<>> \in Seq(Threads)
  OBVIOUS
<1>3. ASSUME Init
      PROVE  /\ in_progress \in BOOLEAN /\ is_leader \in [Threads -> BOOLEAN]
             /\ wlock \in Threads \cup {NoThread} /\ rlock \in [Requests -> Threads \cup {NoThread}]
             /\ completed \in [Requests -> BOOLEAN] /\ waiters \in Seq(Threads)
  BY <1>2, <1>3 DEF Init
<1>4. ASSUME Init
      PROVE  /\ cq \in SUBSET Requests /\ comp \in [Threads -> SUBSET Requests]
             /\ pc \in [Threads -> PCs] /\ op \in [Threads -> Ops]
             /\ arg \in [Threads -> Requests] /\ succ \in [Threads -> Threads \cup {NoThread}]
  BY <1>1, <1>4 DEF Init, PCs, Ops
<1> QED BY <1>3, <1>4 DEF TypeOK

\* Every step of every action keeps the types.
LEMMA TypeStep == TypeOK /\ [Next]_vars => TypeOK'
<1> SUFFICES ASSUME TypeOK, [Next]_vars PROVE TypeOK'
  OBVIOUS
<1> USE ConstAssumption DEF TypeOK, PCs, Ops
<1>1. ASSUME NEW t \in Threads, TryAcquire(t) PROVE TypeOK'
  BY <1>1 DEF TryAcquire
<1>2. ASSUME NEW t \in Threads, RegisterWaiter(t) PROVE TypeOK'
  BY <1>2 DEF RegisterWaiter
<1>3. ASSUME NEW t \in Threads, UnregisterWaiter(t) PROVE TypeOK'
  <2>1. waiters' \in Seq(Threads)
    BY <1>3, RemoveAtProperties DEF UnregisterWaiter
  <2> QED BY <1>3, <2>1 DEF UnregisterWaiter
<1>4. ASSUME NEW t \in Threads, TransferLeader(t) PROVE TypeOK'
  <2>1. waiters # <<>> => Head(waiters) \in Threads
    OBVIOUS
  <2>2. is_leader' \in [Threads -> BOOLEAN] /\ in_progress' \in BOOLEAN
    BY <1>4, <2>1 DEF TransferLeader
  <2>3. pc' \in [Threads -> PCs] /\ rlock' \in [Requests -> Threads \cup {NoThread}]
    BY <1>4 DEF TransferLeader, Leave
  <2>4. succ' \in [Threads -> Threads \cup {NoThread}] /\ wlock' \in Threads \cup {NoThread}
    BY <1>4, <2>1 DEF TransferLeader
  <2> QED BY <1>4, <2>2, <2>3, <2>4 DEF TransferLeader
<1>5. ASSUME NEW t \in Threads, NotifySuccessor(t) PROVE TypeOK'
  <2>1. pc' \in [Threads -> PCs]
    BY <1>5 DEF NotifySuccessor, Sleepers
  <2> QED BY <1>5, <2>1 DEF NotifySuccessor
<1>6. ASSUME NEW t \in Threads, CheckWait(t) PROVE TypeOK'
  BY <1>6 DEF CheckWait
<1>7. ASSUME NEW t \in Threads, CheckTest(t) PROVE TypeOK'
  BY <1>7 DEF CheckTest
<1>8. ASSUME NEW t \in Threads, CheckProtectedProgress(t) PROVE TypeOK'
  BY <1>8 DEF CheckProtectedProgress
<1>9. ASSUME NEW t \in Threads, CqRead(t) PROVE TypeOK'
  BY <1>9 DEF CqRead
<1>10. ASSUME NEW t \in Threads, NEW r \in Requests, CompleteEntry(t, r)
       PROVE  TypeOK'
  BY <1>10 DEF CompleteEntry
<1>11. ASSUME NEW t \in Threads, EndProgress(t) PROVE TypeOK'
  BY <1>11 DEF EndProgress
<1>12. ASSUME NEW t \in Threads, Relock(t) PROVE TypeOK'
  BY <1>12 DEF Relock
<1>13. ASSUME NEW t \in Threads, Call(t) PROVE TypeOK'
  <2>1. ASSUME NEW r \in MayWait[t], BeginWait(t, r) PROVE TypeOK'
    BY <2>1 DEF BeginWait
  <2>2. ASSUME NEW r \in MayTest[t], BeginTest(t, r) PROVE TypeOK'
    BY <2>2 DEF BeginTest
  <2>3. CASE BeginProtectedProgress(t)
    BY <2>3 DEF BeginProtectedProgress
  <2> QED BY <1>13, <2>1, <2>2, <2>3 DEF Call
<1>14. ASSUME NEW r \in Requests, Post(r) \/ Arrive(r) PROVE TypeOK'
  BY <1>14 DEF Post, Arrive
<1>15. CASE UNCHANGED vars
  BY <1>15 DEF vars
<1> QED
  BY <1>1, <1>2, <1>3, <1>4, <1>5, <1>6, <1>7, <1>8, <1>9, <1>10, <1>11,
     <1>12, <1>13, <1>14, <1>15 DEF Next, Step

\* Type correctness of the guards, the locks and the requests, for any number
\* of threads and requests: TypeOK is inductive by itself.
THEOREM TypeCorrect == Spec => []TypeOK
  BY InitType, TypeStep, PTL DEF Spec

-----------------------------------------------------------------------------
(* Leadership.                                                             *)

\* A thread inside progress, or back from it in test, is the leader.
ProgressIsLeader ==
  \A t \in Threads : pc[t] \in {"read", "handle", "relock"} => is_leader[t]

\* waiters_mutex is kept across steps only by a thread about to notify the
\* successor it has chosen.
NotifierHoldsLock ==
  \A t \in Threads :
    /\ pc[t] = "notify" <=> wlock = t
    /\ pc[t] = "notify" => succ[t] \in Threads

\* The inductive invariant.
IInv ==
  /\ TypeOK
  /\ WaitersAreLive
  /\ LeadershipHeld
  /\ ProgressIsLeader
  /\ NotifierHoldsLock

\* The initial state satisfies the inductive invariant.
LEMMA InitIInv == Init => IInv
<1>1. Init => WaitersAreLive
  BY ConstAssumption DEF Init, WaitersAreLive, Registered, IsInjective, Contains
<1>2. Init => LeadershipHeld /\ ProgressIsLeader /\ NotifierHoldsLock
  BY ConstAssumption DEF Init, LeadershipHeld, ProgressIsLeader, NotifierHoldsLock
<1> QED BY <1>1, <1>2, InitType DEF IInv

\* Every step of every action keeps the inductive invariant.
LEMMA IInvStep == IInv /\ [Next]_vars => IInv'
<1> SUFFICES ASSUME IInv, [Next]_vars PROVE IInv'
  OBVIOUS
<1>a. TypeOK /\ TypeOK'
  BY TypeStep DEF IInv
<1>b. WaitersAreLive /\ LeadershipHeld /\ ProgressIsLeader /\ NotifierHoldsLock
  BY DEF IInv
<1> USE <1>a, <1>b, ConstAssumption DEF TypeOK, PCs, Ops
<1> DEFINE Rest == WaitersAreLive /\ LeadershipHeld /\ ProgressIsLeader /\ NotifierHoldsLock
<1> HIDE DEF Rest
<1>1. ASSUME NEW t \in Threads, TryAcquire(t) PROVE Rest'
  <2>1. WaitersAreLive'
    BY <1>1 DEF TryAcquire, WaitersAreLive, Registered
  <2>2. LeadershipHeld'
    <3>1. CASE in_progress
      BY <1>1, <3>1 DEF TryAcquire, LeadershipHeld
    <3>2. CASE ~in_progress
      <4>1. \A u \in Threads : is_leader'[u] <=> u = t
        BY <1>1, <3>2 DEF TryAcquire, LeadershipHeld
      <4> QED BY <1>1, <4>1 DEF TryAcquire, LeadershipHeld
    <3> QED BY <3>1, <3>2
  <2>3. ProgressIsLeader' /\ NotifierHoldsLock'
    BY <1>1 DEF TryAcquire, ProgressIsLeader, NotifierHoldsLock
  <2> QED BY <2>1, <2>2, <2>3 DEF Rest
<1>2. ASSUME NEW t \in Threads, RegisterWaiter(t) PROVE Rest'
  <2>1. WaitersAreLive'
    <3>1. ~Contains(waiters, t) /\ IsInjective(waiters)
      BY <1>2 DEF RegisterWaiter, WaitersAreLive, Registered
    <3>2. /\ IsInjective(waiters')
          /\ \A x : Contains(waiters', x) <=> Contains(waiters, x) \/ x = t
      BY <1>2, <3>1, AppendKeepsInjective DEF RegisterWaiter
    <3>3. \A x \in Threads : x \in Registered' <=> x \in Registered \/ x = t
      BY <1>2 DEF RegisterWaiter, Registered
    <3> QED BY <3>2, <3>3 DEF WaitersAreLive
  <2>2. LeadershipHeld' /\ ProgressIsLeader' /\ NotifierHoldsLock'
    BY <1>2 DEF RegisterWaiter, LeadershipHeld, ProgressIsLeader, NotifierHoldsLock
  <2> QED BY <2>1, <2>2 DEF Rest
<1>3. ASSUME NEW t \in Threads, UnregisterWaiter(t) PROVE Rest'
  <2>1. WaitersAreLive'
    <3>1. PICK i \in DOMAIN waiters : waiters[i] = t /\ waiters' = RemoveAt(waiters, i)
      BY <1>3 DEF UnregisterWaiter
    <3>2. /\ IsInjective(waiters')
          /\ \A x : Contains(waiters', x) <=> Contains(waiters, x) /\ x # t
      BY <3>1, RemoveAtInjective DEF WaitersAreLive
    <3>3. \A x \in Threads : x \in Registered' <=> x \in Registered /\ x # t
      BY <1>3 DEF UnregisterWaiter, Registered
    <3> QED BY <3>2, <3>3 DEF WaitersAreLive
  <2>2. LeadershipHeld' /\ ProgressIsLeader' /\ NotifierHoldsLock'
    BY <1>3 DEF UnregisterWaiter, LeadershipHeld, ProgressIsLeader, NotifierHoldsLock
  <2> QED BY <2>1, <2>2 DEF Rest
<1>4. ASSUME NEW t \in Threads, TransferLeader(t) PROVE Rest'
  <2>1. WaitersAreLive'
    BY <1>4 DEF TransferLeader, Leave, WaitersAreLive, Registered
  <2>2. waiters # <<>> => Head(waiters) \in Registered /\ Head(waiters) # t
    BY <1>4 DEF TransferLeader, WaitersAreLive, Registered, Contains
  <2>3. LeadershipHeld'
    <3>1. CASE ~is_leader[t]
      BY <1>4, <3>1 DEF TransferLeader, Leave, LeadershipHeld
    <3>2. CASE is_leader[t] /\ waiters = <<>>
      BY <1>4, <3>2 DEF TransferLeader, Leave, LeadershipHeld
    <3>3. CASE is_leader[t] /\ waiters # <<>>
      <4>1. /\ Head(waiters) \in Threads /\ Head(waiters) # t
            /\ pc[Head(waiters)] \notin {"idle", "acquire", "notify"}
        BY <2>2, <3>3 DEF Registered
      <4>2. \A u \in Threads : is_leader'[u] <=> u = Head(waiters)
        BY <1>4, <3>3, <4>1 DEF TransferLeader, LeadershipHeld
      <4>3. in_progress' /\ pc'[Head(waiters)] = pc[Head(waiters)]
        BY <1>4, <3>3, <4>1 DEF TransferLeader, Leave, LeadershipHeld
      <4> QED BY <4>1, <4>2, <4>3 DEF LeadershipHeld
    <3> QED BY <3>1, <3>2, <3>3
  <2>4. ProgressIsLeader'
    BY <1>4, <2>2 DEF TransferLeader, Leave, ProgressIsLeader, Registered
  <2>5. NotifierHoldsLock'
    BY <1>4, <2>2 DEF TransferLeader, Leave, NotifierHoldsLock, Registered
  <2> QED BY <2>1, <2>3, <2>4, <2>5 DEF Rest
<1>5. ASSUME NEW t \in Threads, NotifySuccessor(t) PROVE Rest'
  <2>1. PICK W \in SUBSET Threads :
          /\ \A u \in W : pc[u] = "blocked"
          /\ pc' = [u \in Threads |-> IF u = t THEN "idle" ELSE IF u \in W THEN "check" ELSE pc[u]]
    <3> DEFINE S == Sleepers(arg[succ[t]])
    <3>1. CASE S = {}
      <4> WITNESS {} \in SUBSET Threads
      <4> QED BY <1>5, <3>1 DEF NotifySuccessor
    <3>2. CASE S # {}
      <4>1. PICK u \in S : pc' = [[pc EXCEPT ![t] = "idle"] EXCEPT ![u] = "check"]
        BY <1>5, <3>2 DEF NotifySuccessor
      <4>2. u \in Threads /\ pc[u] = "blocked" /\ u # t
        BY <1>5, <4>1 DEF NotifySuccessor, Sleepers
      <4> {u} \in SUBSET Threads
        BY <4>2
      <4>3. pc' = [v \in Threads |-> IF v = t THEN "idle"
                                     ELSE IF v \in {u} THEN "check" ELSE pc[v]]
        BY <4>1, <4>2
      <4> WITNESS {u} \in SUBSET Threads
      <4> QED BY <4>2, <4>3, Zenon
    <3> QED BY <3>1, <3>2
  <2>2. WaitersAreLive'
    BY <1>5, <2>1 DEF NotifySuccessor, WaitersAreLive, Registered
  <2>3. LeadershipHeld' /\ ProgressIsLeader'
    BY <1>5, <2>1 DEF NotifySuccessor, LeadershipHeld, ProgressIsLeader
  <2>4. NotifierHoldsLock'
    BY <1>5, <2>1 DEF NotifySuccessor, NotifierHoldsLock
  <2> QED BY <2>2, <2>3, <2>4 DEF Rest
<1>6. ASSUME NEW t \in Threads, CheckWait(t) PROVE Rest'
  <2>1. WaitersAreLive'
    BY <1>6 DEF CheckWait, WaitersAreLive, Registered
  <2>2. LeadershipHeld' /\ ProgressIsLeader' /\ NotifierHoldsLock'
    BY <1>6 DEF CheckWait, LeadershipHeld,
              ProgressIsLeader, NotifierHoldsLock
  <2> QED BY <2>1, <2>2 DEF Rest
<1>7. ASSUME NEW t \in Threads, CheckTest(t) PROVE Rest'
  <2>1. WaitersAreLive'
    BY <1>7 DEF CheckTest, WaitersAreLive, Registered
  <2>2. LeadershipHeld' /\ ProgressIsLeader' /\ NotifierHoldsLock'
    BY <1>7 DEF CheckTest, LeadershipHeld,
              ProgressIsLeader, NotifierHoldsLock
  <2> QED BY <2>1, <2>2 DEF Rest
<1>8. ASSUME NEW t \in Threads, CheckProtectedProgress(t) PROVE Rest'
  <2>1. WaitersAreLive'
    BY <1>8 DEF CheckProtectedProgress, WaitersAreLive, Registered
  <2>2. LeadershipHeld' /\ ProgressIsLeader' /\ NotifierHoldsLock'
    BY <1>8 DEF CheckProtectedProgress, LeadershipHeld,
              ProgressIsLeader, NotifierHoldsLock
  <2> QED BY <2>1, <2>2 DEF Rest
<1>9. ASSUME NEW t \in Threads, CqRead(t) PROVE Rest'
  <2>1. WaitersAreLive'
    BY <1>9 DEF CqRead, WaitersAreLive, Registered
  <2>2. LeadershipHeld' /\ ProgressIsLeader' /\ NotifierHoldsLock'
    BY <1>9 DEF CqRead, LeadershipHeld,
              ProgressIsLeader, NotifierHoldsLock
  <2> QED BY <2>1, <2>2 DEF Rest
<1>10. ASSUME NEW t \in Threads, NEW r \in Requests, CompleteEntry(t, r) PROVE Rest'
  <2>1. WaitersAreLive'
    BY <1>10 DEF CompleteEntry, Sleepers, WaitersAreLive, Registered
  <2>2. LeadershipHeld' /\ ProgressIsLeader' /\ NotifierHoldsLock'
    BY <1>10 DEF CompleteEntry, Sleepers, LeadershipHeld,
              ProgressIsLeader, NotifierHoldsLock
  <2> QED BY <2>1, <2>2 DEF Rest
<1>11. ASSUME NEW t \in Threads, EndProgress(t) PROVE Rest'
  <2>1. WaitersAreLive'
    BY <1>11 DEF EndProgress, WaitersAreLive, Registered
  <2>2. LeadershipHeld' /\ ProgressIsLeader' /\ NotifierHoldsLock'
    BY <1>11 DEF EndProgress, LeadershipHeld,
              ProgressIsLeader, NotifierHoldsLock
  <2> QED BY <2>1, <2>2 DEF Rest
<1>12. ASSUME NEW t \in Threads, Relock(t) PROVE Rest'
  <2>1. WaitersAreLive'
    BY <1>12 DEF Relock, WaitersAreLive, Registered
  <2>2. LeadershipHeld' /\ ProgressIsLeader' /\ NotifierHoldsLock'
    BY <1>12 DEF Relock, LeadershipHeld,
              ProgressIsLeader, NotifierHoldsLock
  <2> QED BY <2>1, <2>2 DEF Rest
<1>13. ASSUME NEW t \in Threads, Call(t) PROVE Rest'
  <2>1. WaitersAreLive'
    BY <1>13 DEF Call, BeginWait, BeginTest, BeginProtectedProgress, WaitersAreLive, Registered
  <2>2. LeadershipHeld' /\ ProgressIsLeader' /\ NotifierHoldsLock'
    BY <1>13 DEF Call, BeginWait, BeginTest, BeginProtectedProgress, LeadershipHeld,
              ProgressIsLeader, NotifierHoldsLock
  <2> QED BY <2>1, <2>2 DEF Rest
<1>14. ASSUME NEW r \in Requests, Post(r) \/ Arrive(r) PROVE Rest'
  <2>1. WaitersAreLive'
    BY <1>14 DEF Post, Arrive, WaitersAreLive, Registered
  <2>2. LeadershipHeld' /\ ProgressIsLeader' /\ NotifierHoldsLock'
    BY <1>14 DEF Post, Arrive, LeadershipHeld,
              ProgressIsLeader, NotifierHoldsLock
  <2> QED BY <2>1, <2>2 DEF Rest
<1>15. ASSUME UNCHANGED vars PROVE Rest'
  <2>1. WaitersAreLive'
    BY <1>15 DEF vars, WaitersAreLive, Registered
  <2>2. LeadershipHeld' /\ ProgressIsLeader' /\ NotifierHoldsLock'
    BY <1>15 DEF vars, LeadershipHeld, ProgressIsLeader, NotifierHoldsLock
  <2> QED BY <2>1, <2>2 DEF Rest
<1>16. Rest'
  <2> HIDE <1>a, <1>b DEF TypeOK, PCs, Ops
  <2>1. ASSUME NEW t \in Threads, Step(t) PROVE Rest'
    BY <2>1, <1>1, <1>2, <1>3, <1>4, <1>5, <1>6, <1>7, <1>8, <1>9, <1>10, <1>11,
       <1>12 DEF Step
  <2> QED BY <2>1, <1>13, <1>14, <1>15 DEF Next
<1> QED BY <1>16 DEF IInv, Rest

\* IInv holds in every reachable state.
LEMMA Inductive == Spec => []IInv
BY InitIInv, IInvStep, PTL DEF Spec

\* The waiter list names every registered guard once and no guard that is gone,
\* so the successor transfer_leader_and_wake picks exists.
THEOREM WaitersAreLiveInvariant == Spec => []WaitersAreLive
<1>1. IInv => WaitersAreLive
  BY DEF IInv
<1> QED BY <1>1, Inductive, PTL

\* Leadership of an endpoint belongs to exactly one live guard while it is taken:
\* try_acquire and transfer_leader_and_wake neither share nor leak it.
THEOREM LeadershipHeldInvariant == Spec => []LeadershipHeld
<1>1. IInv => LeadershipHeld
  BY DEF IInv, LeadershipHeld
<1> QED BY <1>1, Inductive, PTL

\* At most one thread at a time is inside progress of the endpoint.
THEOREM SingleProgressInvariant == Spec => []SingleProgress
<1>1. IInv => SingleProgress
  BY DEF IInv, LeadershipHeld, ProgressIsLeader, SingleProgress
<1> QED BY <1>1, Inductive, PTL

-----------------------------------------------------------------------------
(* Wake-ups.                                                               *)

\* Only wait sleeps, and it sleeps on a request of its own.
SleepsOnOwn ==
  \A t \in Threads :
    /\ pc[t] = "blocked" => op[t] = "wait"
    /\ pc[t] # "idle" /\ op[t] = "wait" => arg[t] \in MayWait[t]

\* No step makes a thread sleep outside wait or on a foreign request.
LEMMA SleepsOnOwnStep == TypeOK /\ SleepsOnOwn /\ [Next]_vars => SleepsOnOwn'
<1> SUFFICES ASSUME TypeOK, SleepsOnOwn, [Next]_vars PROVE SleepsOnOwn'
  OBVIOUS
<1> USE ConstAssumption DEF TypeOK, SleepsOnOwn
<1>1. ASSUME NEW t \in Threads, TryAcquire(t) \/ RegisterWaiter(t) \/ UnregisterWaiter(t)
      PROVE  SleepsOnOwn'
  BY <1>1 DEF TryAcquire, RegisterWaiter, UnregisterWaiter
<1>2. ASSUME NEW t \in Threads, TransferLeader(t) PROVE SleepsOnOwn'
  BY <1>2 DEF TransferLeader, Leave
<1>3. ASSUME NEW t \in Threads, NotifySuccessor(t) PROVE SleepsOnOwn'
  <2>1. \A u \in Threads : pc'[u] \in {pc[u], "idle"} \/ (pc[u] = "blocked" /\ pc'[u] = "check")
    BY <1>3 DEF NotifySuccessor, Sleepers
  <2> QED BY <1>3, <2>1 DEF NotifySuccessor
<1>4. ASSUME NEW t \in Threads, CheckWait(t) \/ CheckTest(t) \/ CheckProtectedProgress(t)
      PROVE  SleepsOnOwn'
  BY <1>4 DEF CheckWait, CheckTest, CheckProtectedProgress
<1>5. ASSUME NEW t \in Threads, CqRead(t) \/ EndProgress(t) \/ Relock(t) PROVE SleepsOnOwn'
  BY <1>5 DEF CqRead, EndProgress, Relock
<1>6. ASSUME NEW t \in Threads, NEW r \in Requests, CompleteEntry(t, r) PROVE SleepsOnOwn'
  BY <1>6 DEF CompleteEntry, Sleepers
<1>7. ASSUME NEW t \in Threads, Call(t) PROVE SleepsOnOwn'
  BY <1>7 DEF Call, BeginWait, BeginTest, BeginProtectedProgress
<1>8. ASSUME NEW r \in Requests, Post(r) \/ Arrive(r) PROVE SleepsOnOwn'
  BY <1>8 DEF Post, Arrive
<1>9. CASE UNCHANGED vars
  BY <1>9 DEF vars
<1> HIDE DEF TypeOK, SleepsOnOwn
<1> QED BY <1>1, <1>2, <1>3, <1>4, <1>5, <1>6, <1>7, <1>8, <1>9 DEF Next, Step

\* No step loses the wake-up of a sleeper, when no request is shared.
LEMMA NoLostWakeupStep ==
  ASSUME PrivateRequests
  PROVE  IInv /\ SleepsOnOwn /\ NoLostWakeup /\ [Next]_vars => NoLostWakeup'
<1> SUFFICES ASSUME IInv, SleepsOnOwn, NoLostWakeup, [Next]_vars PROVE NoLostWakeup'
  OBVIOUS
<1>a. TypeOK /\ NotifierHoldsLock
  BY DEF IInv
<1> USE <1>a, ConstAssumption DEF TypeOK, NoLostWakeup
<1>1. ASSUME NEW t \in Threads, TryAcquire(t) \/ RegisterWaiter(t) \/ UnregisterWaiter(t)
      PROVE  NoLostWakeup'
  BY <1>1 DEF TryAcquire, RegisterWaiter, UnregisterWaiter
<1>2. ASSUME NEW t \in Threads, TransferLeader(t) PROVE NoLostWakeup'
  <2>1. CASE ~is_leader[t]
    BY <1>2, <2>1 DEF TransferLeader, Leave
  <2>2. CASE is_leader[t] /\ waiters = <<>>
    BY <1>2, <2>2 DEF TransferLeader, Leave
  <2>3. CASE is_leader[t] /\ waiters # <<>>
    <3>1. Head(waiters) \in Threads /\ wlock = NoThread
      BY <1>2, <2>3 DEF TransferLeader
    <3>2. \A u \in Threads : pc[u] # "notify"
      BY <3>1 DEF NotifierHoldsLock
    <3>3. \A u \in Threads : pc'[u] = "blocked" => pc[u] = "blocked"
      BY <1>2, <2>3 DEF TransferLeader, Leave
    <3>4. \A u \in Threads : is_leader'[u] => is_leader[u] \/ u = Head(waiters)
      BY <1>2, <2>3, <3>1 DEF TransferLeader
    <3>5. pc[Head(waiters)] = "blocked" => pc'[t] = "notify" /\ succ'[t] = Head(waiters)
      BY <1>2, <2>3, <3>1 DEF TransferLeader, HasCv, SleepsOnOwn
    <3> QED BY <1>2, <3>1, <3>2, <3>3, <3>4, <3>5 DEF TransferLeader
  <2> QED BY <1>2, <2>1, <2>2, <2>3 DEF TransferLeader
<1>3. ASSUME NEW t \in Threads, NotifySuccessor(t) PROVE NoLostWakeup'
  <2>1. SUFFICES ASSUME NEW x \in Threads, pc'[x] = "blocked",
                        completed'[arg'[x]] \/ is_leader'[x]
                 PROVE  FALSE
    OBVIOUS
  <2>2. pc[x] = "blocked" /\ (completed[arg[x]] \/ is_leader[x])
    BY <1>3, <2>1 DEF NotifySuccessor, Sleepers
  <2>3. succ[t] = x
    BY <1>3, <2>2 DEF NotifySuccessor, NotifierHoldsLock
  <2>4. Sleepers(arg[x]) = {x}
    BY <2>2 DEF Sleepers, SleepsOnOwn, PrivateRequests
  <2> QED BY <1>3, <2>1, <2>3, <2>4 DEF NotifySuccessor
<1>4. ASSUME NEW t \in Threads, CheckWait(t) \/ CheckTest(t) \/ CheckProtectedProgress(t)
      PROVE  NoLostWakeup'
  BY <1>4 DEF CheckWait, CheckTest, CheckProtectedProgress
<1>5. ASSUME NEW t \in Threads, CqRead(t) \/ EndProgress(t) \/ Relock(t) PROVE NoLostWakeup'
  BY <1>5 DEF CqRead, EndProgress, Relock
<1>6. ASSUME NEW t \in Threads, NEW r \in Requests, CompleteEntry(t, r) PROVE NoLostWakeup'
  BY <1>6 DEF CompleteEntry, Sleepers
<1>7. ASSUME NEW t \in Threads, Call(t) PROVE NoLostWakeup'
  <2>1. /\ pc[t] = "idle" /\ pc'[t] = "acquire"
        /\ \A u \in Threads \ {t} : pc'[u] = pc[u] /\ arg'[u] = arg[u]
        /\ UNCHANGED <<completed, is_leader, succ>>
    BY <1>7 DEF Call, BeginWait, BeginTest, BeginProtectedProgress
  <2> QED BY <2>1
<1>8. ASSUME NEW r \in Requests, Post(r) \/ Arrive(r) PROVE NoLostWakeup'
  BY <1>8 DEF Post, Arrive
<1>9. CASE UNCHANGED vars
  BY <1>9 DEF vars
<1> HIDE <1>a DEF TypeOK, NoLostWakeup
<1> QED BY <1>1, <1>2, <1>3, <1>4, <1>5, <1>6, <1>7, <1>8, <1>9 DEF Next, Step

\* With a request per thread no wake-up is lost, neither of a completion nor
\* of a leadership handed over, for any number of threads.
THEOREM NoWakeupLost ==
  ASSUME PrivateRequests
  PROVE  Spec => []NoLostWakeup
<1>1. Init => SleepsOnOwn /\ NoLostWakeup
  <2>1. Init => \A t \in Threads : pc[t] = "idle"
    BY DEF Init
  <2> QED BY <2>1 DEF SleepsOnOwn, NoLostWakeup
<1> QED BY <1>1, InitIInv, IInvStep, SleepsOnOwnStep, NoLostWakeupStep, PTL DEF Spec, IInv
=============================================================================
