-------------------------- MODULE FtManager_proofs --------------------------
(***************************************************************************)
(* Proofs about FtManager, for any communicators, requests, mode of the     *)
(* application and number of posts: a canceled communicator keeps no        *)
(* request, and a failure found in an ANY loop is reported exactly once.    *)
(***************************************************************************)
EXTENDS FtManager, FiniteSetTheorems, TLAPS

-----------------------------------------------------------------------------
(* The inductive invariant.                                                *)

\* The types the argument needs.
TypeOK ==
  /\ m_comms \subseteq Comms /\ todo \subseteq Comms
  /\ ft_requests = [c \in Comms |-> ft_requests[c]]
  /\ ft_current_status \in [Comms -> {"IDLE", "HEARTBEAT", "ERROR"}]
  /\ is_canceled \in [Comms -> BOOLEAN]
  /\ is_any_comm \in BOOLEAN
  /\ comm \in Comms \cup {Null}
  /\ pc = [t \in Threads |-> pc[t]] /\ cancelled = [t \in Threads |-> cancelled[t]]
  /\ reported \in Seq(Comms) /\ canceled_coms \in Seq(Comms) /\ to_cancel \in Seq(Comms)
  /\ ft_pending_failed_comms \subseteq Comms

\* The pointers of the list are communicators or null.
ListTypeOK ==
  /\ list \in [head : Comms \cup {Null}, tail : Comms \cup {Null}]
  /\ next \in [Comms -> Comms \cup {Null}] /\ prev \in [Comms -> Comms \cup {Null}]

\* process_comm and cancel_comm have a communicator.
InProcess ==
  /\ pc["leader"] \in {"process", "advance"} => comm # Null
  /\ \A t \in Threads : pc[t] \in {"cancel", "cancel_requests"} => cancelled[t] \in Comms

\* The communicators in canceled_coms are the failures of an ANY loop.
Collecting == is_any_comm \/ pc["leader"] = "reports"

\* A communicator is put into canceled_coms when it leaves IDLE or HEARTBEAT
\* for ERROR, which it never leaves: it is there once.  The failures of ANY
\* loops are the reported ones, the kept ones and those in canceled_coms.
FailuresExact ==
  /\ \A c \in ToSet(canceled_coms) \cup detected : ft_current_status[c] = "ERROR"
  /\ IsInjective(canceled_coms) /\ IsInjective(reported)
  /\ ToSet(reported) \cap ft_pending_failed_comms = {}
  /\ pc["leader"] = "idle" => canceled_coms = <<>> /\ is_any_comm = FALSE
  /\ pc["leader"] = "reports" => is_any_comm = FALSE
  /\ ~Collecting => detected = ToSet(reported) \cup ft_pending_failed_comms
  /\ Collecting =>
       /\ detected = ToSet(reported) \cup ft_pending_failed_comms \cup ToSet(canceled_coms)
       /\ ToSet(canceled_coms) \cap (ToSet(reported) \cup ft_pending_failed_comms) = {}

\* The reports count requests and failures, which are finitely many.
FiniteCounts ==
  /\ IsFiniteSet(ft_any_comm_requests)
  /\ IsFiniteSet(ft_pending_failed_comms) /\ IsFiniteSet(ToSet(canceled_coms))

IInv ==
  /\ TypeOK /\ ListTypeOK /\ InProcess
  /\ NothingLeftOnCanceled /\ FailuresExact /\ FiniteCounts

-----------------------------------------------------------------------------
(* Sequences without repetition.                                           *)

\* Appending an element that is not there.
LEMMA AppendNew ==
  ASSUME NEW S, NEW s \in Seq(S), NEW x \in S
  PROVE  /\ Append(s, x) \in Seq(S)
         /\ ToSet(Append(s, x)) = ToSet(s) \cup {x}
         /\ IsInjective(s) /\ x \notin ToSet(s) => IsInjective(Append(s, x))
<1>1. /\ Append(s, x) \in Seq(S) /\ Len(s) \in Nat
      /\ DOMAIN s = 1..Len(s) /\ DOMAIN Append(s, x) = 1..(Len(s) + 1)
      /\ \A i \in 1..Len(s) : Append(s, x)[i] = s[i]
      /\ Append(s, x)[Len(s) + 1] = x
  OBVIOUS
<1>2. \A i \in 1..(Len(s) + 1) : i \in 1..Len(s) \/ i = Len(s) + 1
  BY <1>1
<1>3. 1..Len(s) \subseteq 1..(Len(s) + 1) /\ Len(s) + 1 \in 1..(Len(s) + 1)
  BY <1>1
<1>4. ToSet(Append(s, x)) = ToSet(s) \cup {x}
  BY <1>1, <1>2, <1>3 DEF ToSet
<1>5. ASSUME IsInjective(s), x \notin ToSet(s) PROVE IsInjective(Append(s, x))
  BY <1>1, <1>2, <1>5 DEF IsInjective, ToSet
<1> QED BY <1>1, <1>4, <1>5

\* Concatenation of sequences with different elements.
LEMMA ConcatDisjoint ==
  ASSUME NEW S, NEW s \in Seq(S), NEW u \in Seq(S)
  PROVE  /\ s \o u \in Seq(S)
         /\ ToSet(s \o u) = ToSet(s) \cup ToSet(u)
         /\ IsInjective(s) /\ IsInjective(u) /\ ToSet(s) \cap ToSet(u) = {}
              => IsInjective(s \o u)
<1>1. /\ s \o u \in Seq(S) /\ Len(s) \in Nat /\ Len(u) \in Nat
      /\ DOMAIN s = 1..Len(s) /\ DOMAIN u = 1..Len(u)
      /\ DOMAIN (s \o u) = 1..(Len(s) + Len(u))
      /\ \A i \in 1..(Len(s) + Len(u)) :
           (s \o u)[i] = IF i <= Len(s) THEN s[i] ELSE u[i - Len(s)]
  OBVIOUS
<1>2. ASSUME NEW i \in 1..(Len(s) + Len(u))
      PROVE  \/ i \in 1..Len(s) /\ (s \o u)[i] = s[i]
             \/ i - Len(s) \in 1..Len(u) /\ (s \o u)[i] = u[i - Len(s)]
  BY <1>1
<1>3. \A i \in 1..Len(s) : i \in 1..(Len(s) + Len(u)) /\ (s \o u)[i] = s[i]
  BY <1>1
<1>4. ASSUME NEW i \in 1..Len(u)
      PROVE  i + Len(s) \in 1..(Len(s) + Len(u)) /\ (s \o u)[i + Len(s)] = u[i]
  <2>1. i + Len(s) \in 1..(Len(s) + Len(u)) /\ ~(i + Len(s) <= Len(s)) /\ (i + Len(s)) - Len(s) = i
    BY <1>1
  <2> QED BY <1>1, <2>1
<1>5. ToSet(s \o u) = ToSet(s) \cup ToSet(u)
  <2>1. ASSUME NEW x \in ToSet(s \o u) PROVE x \in ToSet(s) \cup ToSet(u)
    BY <1>1, <1>2, <2>1 DEF ToSet
  <2>2. ASSUME NEW x \in ToSet(s) PROVE x \in ToSet(s \o u)
    BY <1>1, <1>3, <2>2 DEF ToSet
  <2>3. ASSUME NEW x \in ToSet(u) PROVE x \in ToSet(s \o u)
    <3>1. PICK i \in 1..Len(u) : x = u[i]
      BY <1>1, <2>3 DEF ToSet
    <3> QED BY <1>1, <1>4, <3>1 DEF ToSet
  <2> QED BY <2>1, <2>2, <2>3
<1>6. ASSUME IsInjective(s), IsInjective(u), ToSet(s) \cap ToSet(u) = {},
             NEW i \in 1..(Len(s) + Len(u)), NEW j \in 1..(Len(s) + Len(u)),
             (s \o u)[i] = (s \o u)[j]
      PROVE  i = j
  <2>1. CASE i \in 1..Len(s) /\ j \in 1..Len(s)
    BY <1>1, <1>3, <1>6, <2>1 DEF IsInjective
  <2>2. CASE i \notin 1..Len(s) /\ j \notin 1..Len(s)
    <3>0. /\ i - Len(s) \in 1..Len(u) /\ j - Len(s) \in 1..Len(u)
          /\ u[i - Len(s)] = u[j - Len(s)]
      BY <1>2, <1>6, <2>2
    <3>1. i - Len(s) = j - Len(s)
      BY <1>1, <1>6, <3>0 DEF IsInjective
    <3> QED BY <1>1, <3>1
  <2>3. CASE i \in 1..Len(s) /\ j \notin 1..Len(s)
    BY <1>1, <1>2, <1>3, <1>6, <2>3 DEF ToSet
  <2>4. CASE i \notin 1..Len(s) /\ j \in 1..Len(s)
    BY <1>1, <1>2, <1>3, <1>6, <2>4 DEF ToSet
  <2> QED BY <2>1, <2>2, <2>3, <2>4
<1> QED BY <1>1, <1>5, <1>6 DEF IsInjective

\* A sequence without repetition, cut in two.
LEMMA CutInjective ==
  ASSUME NEW S, NEW s \in Seq(S), IsInjective(s), NEW n \in 0..Len(s)
  PROVE  /\ SubSeq(s, 1, n) \in Seq(S) /\ IsInjective(SubSeq(s, 1, n))
         /\ ToSet(SubSeq(s, 1, n)) \cup ToSet(SubSeq(s, n + 1, Len(s))) = ToSet(s)
         /\ ToSet(SubSeq(s, 1, n)) \cap ToSet(SubSeq(s, n + 1, Len(s))) = {}
<1>a. PICK u : u = SubSeq(s, 1, n)
  OBVIOUS
<1>b. PICK v : v = SubSeq(s, n + 1, Len(s))
  OBVIOUS
<1>1. Len(s) \in Nat /\ DOMAIN s = 1..Len(s) /\ n \in Nat /\ n <= Len(s)
      /\ \A i \in 1..Len(s) : s[i] \in S
  OBVIOUS
<1>2. /\ u \in Seq(S) /\ Len(u) = n /\ DOMAIN u = 1..n
      /\ \A i \in 1..n : u[i] = s[i]
  BY <1>1, <1>a
<1>3. /\ DOMAIN v = 1..(Len(s) - n)
      /\ \A i \in 1..(Len(s) - n) : v[i] = s[n + i]
  <2>1. v = [i \in 1..(Len(s) - n) |-> s[n + i]]
    BY <1>1, <1>b
  <2> QED BY <2>1
<1>4. /\ 1..n \subseteq 1..Len(s)
      /\ \A i \in 1..(Len(s) - n) : n + i \in 1..Len(s) /\ n + i \notin 1..n
      /\ \A i \in 1..Len(s) : i \in 1..n \/ (i - n \in 1..(Len(s) - n) /\ n + (i - n) = i)
  BY <1>1
<1>5. IsInjective(u)
  BY <1>1, <1>2, <1>4 DEF IsInjective
<1>6. ToSet(u) \cup ToSet(v) = ToSet(s)
  <2>1. ToSet(u) \subseteq ToSet(s)
    BY <1>1, <1>2, <1>4 DEF ToSet
  <2>2. ASSUME NEW x \in ToSet(v) PROVE x \in ToSet(s)
    <3>1. PICK i \in 1..(Len(s) - n) : x = s[n + i]
      BY <1>3, <2>2 DEF ToSet
    <3> QED BY <1>1, <1>4, <3>1 DEF ToSet
  <2>3. ASSUME NEW i \in 1..Len(s) PROVE s[i] \in ToSet(u) \cup ToSet(v)
    <3>1. CASE i \in 1..n
      BY <1>2, <3>1 DEF ToSet
    <3>2. CASE i \notin 1..n
      <4>1. PICK j \in 1..(Len(s) - n) : n + j = i
        BY <1>4, <2>3, <3>2
      <4> QED BY <1>3, <4>1 DEF ToSet
    <3> QED BY <3>1, <3>2
  <2>4. ToSet(s) \subseteq ToSet(u) \cup ToSet(v)
    BY <1>1, <2>3 DEF ToSet
  <2> QED BY <2>1, <2>2, <2>4
<1>7. ASSUME NEW x \in ToSet(u), x \in ToSet(v) PROVE FALSE
  <2>1. PICK i \in 1..n : x = s[i]
    BY <1>2, <1>7 DEF ToSet
  <2>2. PICK j \in 1..(Len(s) - n) : x = s[n + j]
    BY <1>3, <1>7 DEF ToSet
  <2>3. i \in 1..Len(s) /\ n + j \in 1..Len(s) /\ i # n + j
    BY <1>4
  <2> QED BY <1>1, <2>1, <2>2, <2>3 DEF IsInjective
<1> QED BY <1>a, <1>b, <1>2, <1>5, <1>6, <1>7

\* SetToSeq lists a finite set without repetition.
LEMMA SetToSeqExact ==
  ASSUME NEW S, IsFiniteSet(S)
  PROVE  /\ SetToSeq(S) \in Seq(S) /\ IsInjective(SetToSeq(S))
         /\ ToSet(SetToSeq(S)) = S
<1>1. PICK k : k = Cardinality(S)
  OBVIOUS
<1>2. k \in Nat /\ ExistsBijection(1..k, S)
  BY <1>1, FS_CardinalityType
<1>3. \E f \in [1..k -> S] : IsInjective(f)
  BY <1>2 DEF ExistsBijection, Bijection, Injection
<1>4. SetToSeq(S) \in [1..k -> S] /\ IsInjective(SetToSeq(S))
  BY <1>1, <1>3 DEF SetToSeq
<1>5. SetToSeq(S) \in Seq(S)
  BY <1>2, <1>4
<1>6. IsFiniteSet(1..k) /\ Cardinality(1..k) = k
  <2>1. k \in Int /\ 1 \in Int /\ (IF 1 > k THEN 0 ELSE k - 1 + 1) = k
    BY <1>2
  <2> QED BY <2>1, FS_Interval
<1>7. SetToSeq(S) \in Injection(1..k, S)
  BY <1>4 DEF Injection
<1>8. SetToSeq(S) \in Surjection(1..k, S)
  BY <1>1, <1>6, <1>7, FS_Injection
<1>9. \A x \in S : \E i \in 1..k : SetToSeq(S)[i] = x
  BY <1>8 DEF Surjection
<1> QED BY <1>4, <1>5, <1>9 DEF ToSet

-----------------------------------------------------------------------------
(* The parts of the state most steps leave alone.                          *)

LEMMA PushBackType ==
  ASSUME ListTypeOK, NEW c \in Comms, PushBack(c) PROVE ListTypeOK'
BY DEF ListTypeOK, PushBack

LEMMA EraseNodeType ==
  ASSUME ListTypeOK, NEW c \in Comms, EraseNode(c) PROVE ListTypeOK'
BY DEF ListTypeOK, EraseNode

\* register_request adds at most one request, of communicator c.
LEMMA RegisterEffect ==
  ASSUME TypeOK, ListTypeOK, NEW c \in Comms, NEW r, RegisterRequest(c, r)
  PROVE  /\ ListTypeOK'
         /\ ft_requests' = [d \in Comms |-> ft_requests'[d]]
         /\ \A d \in Comms : d # c => ft_requests'[d] = ft_requests[d]
<1>1. ListTypeOK'
  <2>1. CASE inserted[c]
    BY <2>1 DEF RegisterRequest, listVars, ListTypeOK
  <2>2. CASE ~inserted[c]
    BY <2>2, PushBackType DEF RegisterRequest
  <2> QED BY <2>1, <2>2
<1> QED BY <1>1 DEF RegisterRequest, TypeOK

\* A step that finds no failure and reports none.
LEMMA FailuresFrame ==
  ASSUME FailuresExact, FiniteCounts,
         UNCHANGED <<ft_current_status, canceled_coms, reported, ft_pending_failed_comms,
                     detected, is_any_comm>>,
         \/ pc'["leader"] = pc["leader"]
         \/ /\ pc["leader"] \notin {"idle", "reports"}
            /\ pc'["leader"] \notin {"idle", "reports"},
         IsFiniteSet(ft_any_comm_requests')
  PROVE  FailuresExact' /\ FiniteCounts'
BY DEF FailuresExact, FiniteCounts, Collecting

-----------------------------------------------------------------------------
(* Induction.                                                              *)

LEMMA InitInv == Init => IInv
<1> SUFFICES ASSUME Init PROVE IInv
  OBVIOUS
<1>1. TypeOK /\ ListTypeOK /\ InProcess /\ NothingLeftOnCanceled
  <2>1. <<>> \in Seq(Comms)
    OBVIOUS
  <2>2. TypeOK
    BY <2>1 DEF Init, TypeOK
  <2>3. ListTypeOK
    BY DEF Init, ListTypeOK
  <2>4. InProcess /\ NothingLeftOnCanceled
    BY DEF Init, InProcess, NothingLeftOnCanceled, Threads
  <2> QED BY <2>2, <2>3, <2>4
<1>2. /\ canceled_coms = <<>> /\ reported = <<>> /\ detected = {} /\ is_any_comm = FALSE
      /\ ft_pending_failed_comms = {} /\ ft_any_comm_requests = {} /\ pc["leader"] = "idle"
  BY DEF Init, Threads
<1>3. ToSet(<<>>) = {} /\ IsInjective(<<>>)
  BY DEF ToSet, IsInjective
<1>4. FailuresExact /\ FiniteCounts
  BY <1>2, <1>3, FS_EmptySet DEF FailuresExact, FiniteCounts, Collecting
<1> QED BY <1>1, <1>4 DEF IInv

LEMMA NextInv == IInv /\ [Next]_vars => IInv'
<1> SUFFICES ASSUME IInv, [Next]_vars PROVE IInv'
  OBVIOUS
<1> USE FtAssumption
<1>0. /\ TypeOK /\ ListTypeOK /\ InProcess
      /\ NothingLeftOnCanceled /\ FailuresExact /\ FiniteCounts
  BY DEF IInv
<1>1. ASSUME LoopBegin PROVE IInv'
  <2>1. TypeOK'
    <3>1. is_any_comm' \in BOOLEAN /\ todo' \subseteq Comms
      BY <1>0, <1>1 DEF LoopBegin, TypeOK
    <3>2. comm' \in Comms \cup {Null}
      BY <1>0, <1>1 DEF LoopBegin, ListTypeOK
    <3> QED BY <1>0, <1>1, <3>1, <3>2 DEF TypeOK, LoopBegin, Goto, commVars, anyVars
  <2>2. ListTypeOK'
    BY <1>0, <1>1 DEF ListTypeOK, LoopBegin, Goto, listVars
  <2>3. InProcess'
    BY <1>0, <1>1 DEF InProcess, TypeOK, LoopBegin, Goto, Threads
  <2>4. NothingLeftOnCanceled'
    BY <1>0, <1>1 DEF NothingLeftOnCanceled, TypeOK, LoopBegin, Goto, Threads, commVars
  <2>5. IsFiniteSet(ft_any_comm_requests')
    BY <1>0, <1>1 DEF FiniteCounts, LoopBegin, Goto, anyVars
  <2>6. FailuresExact' /\ FiniteCounts'
    <3>1. /\ pc["leader"] = "idle" /\ pc'["leader"] = "next"
          /\ UNCHANGED <<ft_current_status, canceled_coms, reported, detected,
                         ft_pending_failed_comms>>
      BY <1>0, <1>1 DEF LoopBegin, Goto, TypeOK, Threads, anyVars, commVars
    <3>2. canceled_coms = <<>> /\ ToSet(<<>>) = {} /\ ~Collecting
      BY <1>0, <3>1 DEF FailuresExact, Collecting, ToSet
    <3> QED BY <1>0, <2>5, <3>1, <3>2 DEF FailuresExact, FiniteCounts, Collecting
  <2> QED BY <2>1, <2>2, <2>3, <2>4, <2>6 DEF IInv
<1>2. ASSUME NextListed PROVE IInv'
  <2>1. TypeOK'
    BY <1>0, <1>2 DEF TypeOK, NextListed, ProcessCheck, Goto, commVars, anyVars
  <2>2. ListTypeOK'
    <3>1. comm \in Comms
      BY <1>0, <1>2 DEF NextListed, TypeOK
    <3> QED BY <1>0, <1>2, <3>1, EraseNodeType DEF NextListed, ProcessCheck, ListTypeOK, listVars
  <2>3. InProcess'
    BY <1>0, <1>2 DEF InProcess, TypeOK, NextListed, ProcessCheck, Goto, Threads
  <2>4. NothingLeftOnCanceled'
    <3>1. /\ pc["leader"] = "next" /\ pc'["leader"] \in {"process", "advance"}
          /\ pc'["app"] = pc["app"] /\ UNCHANGED <<ft_requests, is_canceled, cancelled>>
      BY <1>0, <1>2 DEF NextListed, ProcessCheck, Goto, TypeOK, Threads, commVars
    <3> QED BY <1>0, <3>1 DEF NothingLeftOnCanceled, Threads
  <2>5. IsFiniteSet(ft_any_comm_requests')
    BY <1>0, <1>2 DEF FiniteCounts, NextListed, ProcessCheck, Goto, anyVars
  <2>6. FailuresExact' /\ FiniteCounts'
    BY <1>0, <1>2, <2>5, FailuresFrame DEF TypeOK, NextListed, ProcessCheck, Goto, Threads,
       commVars, anyVars
  <2> QED BY <2>1, <2>2, <2>3, <2>4, <2>6 DEF IInv
<1>3. ASSUME NEW c \in Comms, NextAny(c) PROVE IInv'
  <2>1. TypeOK'
    <3>1. pc' = [t \in Threads |-> pc'[t]]
      BY <1>0, <1>3 DEF TypeOK, NextAny, ProcessCheck, Goto
    <3> QED BY <1>0, <1>3, <3>1 DEF TypeOK, NextAny, ProcessCheck, commVars, anyVars
  <2>2. ListTypeOK'
    BY <1>0, <1>3, EraseNodeType DEF NextAny, ProcessCheck, ListTypeOK, listVars
  <2>3. InProcess'
    BY <1>0, <1>3 DEF InProcess, TypeOK, NextAny, ProcessCheck, Goto, Threads
  <2>4. NothingLeftOnCanceled'
    <3>1. /\ pc["leader"] = "next" /\ pc'["leader"] \in {"process", "advance"}
          /\ pc'["app"] = pc["app"] /\ UNCHANGED <<ft_requests, is_canceled, cancelled>>
      BY <1>0, <1>3 DEF NextAny, ProcessCheck, Goto, TypeOK, Threads, commVars
    <3> QED BY <1>0, <3>1 DEF NothingLeftOnCanceled, Threads
  <2>5. IsFiniteSet(ft_any_comm_requests')
    BY <1>0, <1>3 DEF FiniteCounts, NextAny, ProcessCheck, Goto, anyVars
  <2>6. FailuresExact' /\ FiniteCounts'
    BY <1>0, <1>3, <2>5, FailuresFrame DEF TypeOK, NextAny, ProcessCheck, Goto, Threads,
       commVars, anyVars
  <2> QED BY <2>1, <2>2, <2>3, <2>4, <2>6 DEF IInv
<1>4. ASSUME Advance PROVE IInv'
  <2>1. TypeOK'
    <3>1. comm' \in Comms \cup {Null}
      BY <1>0, <1>4 DEF Advance, InProcess, TypeOK, ListTypeOK
    <3> QED BY <1>0, <1>4, <3>1 DEF TypeOK, Advance, Goto, commVars, anyVars
  <2>2. ListTypeOK'
    BY <1>0, <1>4 DEF ListTypeOK, Advance, Goto, listVars
  <2>3. InProcess'
    BY <1>0, <1>4 DEF InProcess, TypeOK, Advance, Goto, Threads
  <2>4. NothingLeftOnCanceled'
    BY <1>0, <1>4 DEF NothingLeftOnCanceled, TypeOK, Advance, Goto, Threads, commVars
  <2>5. IsFiniteSet(ft_any_comm_requests')
    BY <1>0, <1>4 DEF FiniteCounts, Advance, Goto, anyVars
  <2>6. FailuresExact' /\ FiniteCounts'
    BY <1>0, <1>4, <2>5, FailuresFrame DEF TypeOK, Advance, Goto, Threads, commVars, anyVars
  <2> QED BY <2>1, <2>2, <2>3, <2>4, <2>6 DEF IInv
<1>5. ASSUME ScanEnd PROVE IInv'
  <2>1. TypeOK'
    BY <1>0, <1>5 DEF TypeOK, ScanEnd, Goto, commVars, anyVars
  <2>2. ListTypeOK'
    BY <1>0, <1>5 DEF ListTypeOK, ScanEnd, Goto, listVars
  <2>3. InProcess'
    BY <1>0, <1>5 DEF InProcess, TypeOK, ScanEnd, Goto, Threads
  <2>4. NothingLeftOnCanceled'
    BY <1>0, <1>5 DEF NothingLeftOnCanceled, TypeOK, ScanEnd, Goto, Threads, commVars
  <2>5. IsFiniteSet(ft_any_comm_requests')
    BY <1>0, <1>5 DEF FiniteCounts, ScanEnd, Goto, anyVars
  <2>6. FailuresExact' /\ FiniteCounts'
    BY <1>0, <1>5, <2>5, FailuresFrame DEF TypeOK, ScanEnd, Goto, Threads, commVars, anyVars
  <2> QED BY <2>1, <2>2, <2>3, <2>4, <2>6 DEF IInv
<1>6. ASSUME CancelNext PROVE IInv'
  <2>1. TypeOK'
    <3>1. to_cancel' \in Seq(Comms)
      BY <1>0, <1>6 DEF CancelNext, TypeOK
    <3> QED BY <1>0, <1>6, <3>1 DEF TypeOK, CancelNext, Goto, commVars, anyVars
  <2>2. ListTypeOK'
    BY <1>0, <1>6 DEF ListTypeOK, CancelNext, Goto, listVars
  <2>3. InProcess'
    <3>1. Head(to_cancel) \in Comms
      BY <1>0, <1>6 DEF CancelNext, TypeOK
    <3> QED BY <1>0, <1>6, <3>1 DEF InProcess, TypeOK, CancelNext, Goto, Threads
  <2>4. NothingLeftOnCanceled'
    BY <1>0, <1>6 DEF NothingLeftOnCanceled, TypeOK, CancelNext, Goto, Threads, commVars
  <2>5. IsFiniteSet(ft_any_comm_requests')
    BY <1>0, <1>6 DEF FiniteCounts, CancelNext, Goto, anyVars
  <2>6. FailuresExact' /\ FiniteCounts'
    BY <1>0, <1>6, <2>5, FailuresFrame DEF TypeOK, CancelNext, Goto, Threads, commVars, anyVars
  <2> QED BY <2>1, <2>2, <2>3, <2>4, <2>6 DEF IInv
<1>7. ASSUME LoopEnd PROVE IInv'
  <2>1. TypeOK'
    <3>1. <<>> \in Seq(Comms)
      OBVIOUS
    <3>2. canceled_coms' \in Seq(Comms)
      BY <1>0, <1>7, <3>1 DEF LoopEnd, TypeOK
    <3> QED BY <1>0, <1>7, <3>2 DEF TypeOK, LoopEnd, Goto, commVars, anyVars
  <2>2. ListTypeOK'
    BY <1>0, <1>7 DEF ListTypeOK, LoopEnd, Goto, listVars
  <2>3. InProcess'
    BY <1>0, <1>7 DEF InProcess, TypeOK, LoopEnd, Goto, Threads
  <2>4. NothingLeftOnCanceled'
    BY <1>0, <1>7 DEF NothingLeftOnCanceled, TypeOK, LoopEnd, Goto, Threads, commVars
  <2>5. IsFiniteSet(ft_any_comm_requests')
    BY <1>0, <1>7 DEF FiniteCounts, LoopEnd, Goto, anyVars
  <2>6. FailuresExact' /\ FiniteCounts'
    <3>1. /\ pc["leader"] = "cancel_next" /\ is_any_comm' = FALSE
          /\ pc'["leader"] = IF is_any_comm THEN "reports" ELSE "idle"
          /\ canceled_coms' = IF is_any_comm THEN canceled_coms ELSE <<>>
          /\ UNCHANGED <<ft_current_status, reported, detected, ft_pending_failed_comms>>
      BY <1>0, <1>7 DEF LoopEnd, Goto, TypeOK, Threads, anyVars, commVars
    <3>2. ToSet(<<>>) = {} /\ IsInjective(<<>>)
      BY DEF ToSet, IsInjective
    <3>3. CASE is_any_comm
      BY <1>0, <2>5, <3>1, <3>3 DEF FailuresExact, FiniteCounts, Collecting
    <3>4. CASE ~is_any_comm
      BY <1>0, <2>5, <3>1, <3>2, <3>4, FS_EmptySet DEF FailuresExact, FiniteCounts, Collecting
    <3> QED BY <3>3, <3>4
  <2> QED BY <2>1, <2>2, <2>3, <2>4, <2>6 DEF IInv
<1>8. ASSUME HandleAnyCommReports PROVE IInv'
  <2>a. PICK k : k = Smaller(Cardinality(ft_any_comm_requests),
                             Cardinality(ft_pending_failed_comms))
    OBVIOUS
  <2>b. PICK n : n = Smaller(Cardinality(ft_any_comm_requests) - k, Len(canceled_coms))
    OBVIOUS
  <2>c. PICK old \in SUBSET ft_pending_failed_comms, served \in SUBSET ft_any_comm_requests :
           /\ ft_any_comm_requests' = ft_any_comm_requests \ served
           /\ reported' = reported \o SetToSeq(old) \o SubSeq(canceled_coms, 1, n)
           /\ ft_pending_failed_comms' =
                (ft_pending_failed_comms \ old)
                  \cup ToSet(SubSeq(canceled_coms, n + 1, Len(canceled_coms)))
    BY <1>8, <2>a, <2>b DEF HandleAnyCommReports
  <2>d. PICK u : u = SubSeq(canceled_coms, 1, n)
    OBVIOUS
  <2>e. PICK v : v = SubSeq(canceled_coms, n + 1, Len(canceled_coms))
    OBVIOUS
  <2>1. /\ pc["leader"] = "reports" /\ canceled_coms' = <<>>
        /\ pc' = [pc EXCEPT !["leader"] = "idle"]
        /\ UNCHANGED <<m_comms, listVars, ft_requests, ft_current_status, is_canceled, to_cancel,
                       is_any_comm, comm, todo, detected, cancelled>>
    BY <1>8 DEF HandleAnyCommReports, Goto, commVars
  <2>2. n \in 0..Len(canceled_coms)
    <3>1. /\ Cardinality(ft_any_comm_requests) \in Nat
          /\ Cardinality(ft_pending_failed_comms) \in Nat
      BY <1>0, FS_CardinalityType DEF FiniteCounts
    <3>2. Len(canceled_coms) \in Nat
      BY <1>0 DEF TypeOK
    <3> QED BY <2>a, <2>b, <3>1, <3>2 DEF Smaller
  \* what is reported and what is kept
  <2>3. /\ u \in Seq(Comms) /\ IsInjective(u)
        /\ ToSet(u) \cup ToSet(v) = ToSet(canceled_coms) /\ ToSet(u) \cap ToSet(v) = {}
    BY <1>0, <2>2, <2>d, <2>e, CutInjective DEF TypeOK, FailuresExact
  <2>4. IsFiniteSet(old) /\ IsFiniteSet(ft_pending_failed_comms \ old)
    BY <1>0, FS_Subset DEF FiniteCounts
  <2>5. /\ SetToSeq(old) \in Seq(old) /\ IsInjective(SetToSeq(old))
        /\ ToSet(SetToSeq(old)) = old
    BY <2>4, SetToSeqExact
  <2>f. PICK w : w = SetToSeq(old)
    OBVIOUS
  <2>6. w \in Seq(Comms) /\ IsInjective(w) /\ ToSet(w) = old
    <3>1. old \subseteq Comms
      BY <1>0 DEF TypeOK
    <3> QED BY <2>5, <2>f, <3>1
  <2>7. /\ detected = ToSet(reported) \cup ft_pending_failed_comms \cup ToSet(canceled_coms)
        /\ ToSet(canceled_coms) \cap (ToSet(reported) \cup ft_pending_failed_comms) = {}
        /\ ToSet(reported) \cap ft_pending_failed_comms = {}
        /\ IsInjective(reported) /\ reported \in Seq(Comms) /\ is_any_comm = FALSE
        /\ ft_pending_failed_comms \subseteq Comms
        /\ \A c \in ToSet(canceled_coms) : c \in Comms
    <3>1. \A c \in ToSet(canceled_coms) : c \in Comms
      BY <1>0 DEF TypeOK, ToSet
    <3> QED BY <1>0, <2>1, <3>1 DEF FailuresExact, Collecting, TypeOK
  <2>8. /\ reported \o w \in Seq(Comms) /\ IsInjective(reported \o w)
        /\ ToSet(reported \o w) = ToSet(reported) \cup old
    <3>1. ToSet(reported) \cap ToSet(w) = {}
      BY <2>6, <2>7
    <3> QED BY <2>6, <2>7, <3>1, ConcatDisjoint
  <2>g. PICK x : x = reported \o w
    OBVIOUS
  <2>9. /\ x \o u \in Seq(Comms) /\ IsInjective(x \o u)
        /\ ToSet(x \o u) = ToSet(reported) \cup old \cup ToSet(u)
    <3>1. x \in Seq(Comms) /\ IsInjective(x) /\ ToSet(x) = ToSet(reported) \cup old
      BY <2>8, <2>g
    <3>2. ToSet(x) \cap ToSet(u) = {}
      BY <2>3, <2>7, <3>1
    <3>3. IsInjective(x \o u) /\ x \o u \in Seq(Comms) /\ ToSet(x \o u) = ToSet(x) \cup ToSet(u)
      BY <2>3, <3>1, <3>2, ConcatDisjoint
    <3> QED BY <3>1, <3>3
  <2>10. /\ reported' \in Seq(Comms) /\ IsInjective(reported')
         /\ ToSet(reported') = ToSet(reported) \cup old \cup ToSet(u)
         /\ ft_pending_failed_comms' = (ft_pending_failed_comms \ old) \cup ToSet(v)
    <3>1. reported' = x \o u
      BY <2>c, <2>d, <2>f, <2>g
    <3> QED BY <2>c, <2>e, <2>9, <3>1
  <2>11. /\ detected = ToSet(reported') \cup ft_pending_failed_comms'
         /\ ToSet(reported') \cap ft_pending_failed_comms' = {}
         /\ ft_pending_failed_comms' \subseteq Comms
    BY <2>3, <2>7, <2>10
  <2>12. <<>> \in Seq(Comms) /\ ToSet(<<>>) = {} /\ IsInjective(<<>>)
    BY DEF ToSet, IsInjective
  <2>13. TypeOK'
    BY <1>0, <2>1, <2>10, <2>11, <2>12 DEF TypeOK
  <2>14. ListTypeOK' /\ InProcess'
    BY <1>0, <2>1 DEF ListTypeOK, InProcess, listVars, TypeOK, Threads
  <2>15. NothingLeftOnCanceled'
    BY <1>0, <2>1 DEF NothingLeftOnCanceled, TypeOK, Threads
  <2>16. FailuresExact'
    <3>1. pc'["leader"] = "idle" /\ is_any_comm' = FALSE
      BY <1>0, <2>1, <2>7 DEF TypeOK, Threads
    <3> QED BY <1>0, <2>1, <2>10, <2>11, <2>12, <3>1 DEF FailuresExact, Collecting
  <2>17. FiniteCounts'
    <3>1. IsFiniteSet(ft_any_comm_requests')
      BY <1>0, <2>c, FS_Subset DEF FiniteCounts
    <3>2. IsFiniteSet(ToSet(v))
      BY <1>0, <2>3, FS_Subset DEF FiniteCounts
    <3>3. IsFiniteSet(ft_pending_failed_comms')
      BY <2>4, <2>10, <3>2, FS_Union
    <3> QED BY <2>1, <2>12, <3>1, <3>3, FS_EmptySet DEF FiniteCounts
  <2> QED BY <2>13, <2>14, <2>15, <2>16, <2>17 DEF IInv
<1>9. ASSUME NEW elapsed \in BOOLEAN, Process(elapsed) PROVE IInv'
  <2>1. /\ comm \in Comms /\ pc["leader"] = "process"
        /\ pc' = [pc EXCEPT !["leader"] = "advance"] /\ pc'["leader"] = "advance"
        /\ UNCHANGED <<m_comms, is_canceled, ft_any_comm_requests, ft_pending_failed_comms,
                       reported, is_any_comm, comm, todo, to_cancel, cancelled>>
    BY <1>0, <1>9 DEF Process, Goto, anyVars, InProcess, TypeOK, Threads
  \* the requests and the list: at most a heartbeat on a communicator in use
  <2>2. /\ ListTypeOK'
        /\ ft_requests' = [d \in Comms |-> ft_requests'[d]]
        /\ \A d \in Comms : is_canceled[d] => ft_requests'[d] = ft_requests[d]
    <3>1. CASE UNCHANGED <<listVars, ft_requests>>
      BY <1>0, <3>1 DEF ListTypeOK, listVars, TypeOK
    <3>2. CASE RegisterRequest(comm, Heartbeat) /\ ~is_canceled[comm]
      BY <1>0, <2>1, <3>2, RegisterEffect
    <3> QED BY <1>9, <3>1, <3>2 DEF Process, ProcessIdle, ProcessHeartbeat, ProcessError
  \* the status: a failure, or no failure and no way out of ERROR
  <2>3. \/ Fail(comm) /\ ft_current_status[comm] # "ERROR"
        \/ /\ UNCHANGED <<canceled_coms, detected>>
           /\ \/ UNCHANGED ft_current_status
              \/ /\ ft_current_status[comm] # "ERROR"
                 /\ \E st \in {"IDLE", "HEARTBEAT"} :
                      ft_current_status' = [ft_current_status EXCEPT ![comm] = st]
    BY <1>9 DEF Process, ProcessIdle, ProcessHeartbeat, ProcessError
  <2>4. /\ canceled_coms' \in Seq(Comms)
        /\ ft_current_status' \in [Comms -> {"IDLE", "HEARTBEAT", "ERROR"}]
        /\ FailuresExact' /\ FiniteCounts'
    <3>0. /\ canceled_coms \in Seq(Comms)
          /\ ft_current_status \in [Comms -> {"IDLE", "HEARTBEAT", "ERROR"}]
      BY <1>0 DEF TypeOK
    <3>1. CASE Fail(comm) /\ ft_current_status[comm] # "ERROR"
      <4>1. /\ canceled_coms' = Append(canceled_coms, comm)
            /\ ft_current_status' = [ft_current_status EXCEPT ![comm] = "ERROR"]
            /\ detected' = IF is_any_comm THEN detected \cup {comm} ELSE detected
        BY <3>1 DEF Fail
      <4>2. comm \notin ToSet(canceled_coms) /\ comm \notin detected
        BY <1>0, <3>1 DEF FailuresExact
      <4>3. /\ canceled_coms' \in Seq(Comms) /\ IsInjective(canceled_coms')
            /\ ToSet(canceled_coms') = ToSet(canceled_coms) \cup {comm}
        BY <1>0, <2>1, <3>0, <4>1, <4>2, AppendNew DEF FailuresExact
      <4>4. IsFiniteSet(ToSet(canceled_coms'))
        <5>1. IsFiniteSet(ToSet(canceled_coms) \cup {comm})
          BY <1>0, FS_AddElement DEF FiniteCounts
        <5> QED BY <4>3, <5>1
      <4>5. \A c \in ToSet(canceled_coms') \cup detected' : ft_current_status'[c] = "ERROR"
        <5> SUFFICES ASSUME NEW c \in ToSet(canceled_coms') \cup detected'
                     PROVE  ft_current_status'[c] = "ERROR"
          OBVIOUS
        <5>1. c = comm \/ c \in ToSet(canceled_coms) \cup detected
          BY <4>1, <4>3
        <5>2. CASE c = comm
          BY <2>1, <3>0, <4>1, <5>2
        <5>3. CASE c # comm
          <6>1. ft_current_status[c] = "ERROR"
            BY <1>0, <5>1, <5>3 DEF FailuresExact
          <6> QED BY <3>0, <4>1, <5>3, <6>1
        <5> QED BY <5>2, <5>3
      <4>6. FailuresExact'
        <5>1. CASE is_any_comm
          <6>1. detected' = detected \cup {comm} /\ Collecting /\ Collecting'
            BY <2>1, <4>1, <5>1 DEF Collecting
          <6> QED BY <1>0, <2>1, <4>2, <4>3, <4>5, <6>1 DEF FailuresExact
        <5>2. CASE ~is_any_comm
          <6>1. detected' = detected /\ ~Collecting /\ ~Collecting'
            BY <2>1, <4>1, <5>2 DEF Collecting
          <6> QED BY <1>0, <2>1, <4>3, <4>5, <6>1 DEF FailuresExact
        <5> QED BY <5>1, <5>2
      <4> QED BY <1>0, <2>1, <3>0, <4>1, <4>3, <4>4, <4>6 DEF FiniteCounts
    <3>2. CASE UNCHANGED <<canceled_coms, detected, ft_current_status>>
      BY <1>0, <2>1, <3>0, <3>2, FailuresFrame DEF FiniteCounts
    <3>3. ASSUME UNCHANGED <<canceled_coms, detected>>, ft_current_status[comm] # "ERROR",
                 NEW st \in {"IDLE", "HEARTBEAT"},
                 ft_current_status' = [ft_current_status EXCEPT ![comm] = st]
          PROVE  /\ ft_current_status' \in [Comms -> {"IDLE", "HEARTBEAT", "ERROR"}]
                 /\ FailuresExact' /\ FiniteCounts'
      <4>1. \A c \in ToSet(canceled_coms) \cup detected : ft_current_status'[c] = "ERROR"
        <5> SUFFICES ASSUME NEW c \in ToSet(canceled_coms) \cup detected
                     PROVE  ft_current_status'[c] = "ERROR"
          OBVIOUS
        <5>1. ft_current_status[c] = "ERROR" /\ c # comm
          BY <1>0, <3>3 DEF FailuresExact
        <5> QED BY <3>0, <3>3, <5>1
      <4> QED BY <1>0, <2>1, <3>0, <3>3, <4>1 DEF FailuresExact, FiniteCounts, Collecting
    <3> QED BY <2>3, <3>0, <3>1, <3>2, <3>3
  <2>5. TypeOK'
    BY <1>0, <2>1, <2>2, <2>4 DEF TypeOK
  <2>6. InProcess'
    BY <1>0, <2>1 DEF InProcess, TypeOK, Threads
  <2>7. NothingLeftOnCanceled'
    BY <1>0, <2>1, <2>2 DEF NothingLeftOnCanceled, TypeOK, Threads
  <2> QED BY <2>2, <2>4, <2>5, <2>6, <2>7 DEF IInv
<1>10. ASSUME NEW t \in Threads, CancelFlag(t) PROVE IInv'
  <2>1. TypeOK'
    BY <1>0, <1>10 DEF TypeOK, CancelFlag, Goto, anyVars, loopVars
  <2>2. ListTypeOK'
    BY <1>0, <1>10 DEF ListTypeOK, CancelFlag, Goto, listVars
  <2>3. InProcess'
    BY <1>0, <1>10 DEF InProcess, TypeOK, CancelFlag, Goto, Threads, loopVars
  <2>4. NothingLeftOnCanceled'
    BY <1>0, <1>10 DEF NothingLeftOnCanceled, TypeOK, CancelFlag, Goto, Threads
  <2>5. IsFiniteSet(ft_any_comm_requests')
    BY <1>0, <1>10 DEF FiniteCounts, CancelFlag, Goto, anyVars
  <2>6. FailuresExact' /\ FiniteCounts'
    BY <1>0, <1>10, <2>5, FailuresFrame DEF TypeOK, CancelFlag, Goto, Threads, anyVars, loopVars
  <2> QED BY <2>1, <2>2, <2>3, <2>4, <2>6 DEF IInv
<1>11. ASSUME NEW t \in Threads, NEW r \in AllRequests, CancelRequest(t, r) PROVE IInv'
  <2>1. TypeOK'
    BY <1>0, <1>11 DEF TypeOK, CancelRequest, OnRequestComplete, anyVars, loopVars
  <2>2. ListTypeOK'
    BY <1>0, <1>11 DEF ListTypeOK, CancelRequest, OnRequestComplete, listVars
  <2>3. InProcess'
    BY <1>0, <1>11 DEF InProcess, TypeOK, CancelRequest, OnRequestComplete, Threads, loopVars
  <2>4. NothingLeftOnCanceled'
    BY <1>0, <1>11 DEF NothingLeftOnCanceled, TypeOK, CancelRequest, OnRequestComplete, Threads
  <2>5. IsFiniteSet(ft_any_comm_requests')
    BY <1>0, <1>11 DEF FiniteCounts, CancelRequest, OnRequestComplete, anyVars
  <2>6. FailuresExact' /\ FiniteCounts'
    BY <1>0, <1>11, <2>5, FailuresFrame DEF TypeOK, CancelRequest, OnRequestComplete, Threads,
       anyVars, loopVars
  <2> QED BY <2>1, <2>2, <2>3, <2>4, <2>6 DEF IInv
<1>12. ASSUME NEW t \in Threads, CancelEnd(t) PROVE IInv'
  <2>1. TypeOK'
    BY <1>0, <1>12 DEF TypeOK, CancelEnd, Goto, anyVars, loopVars
  <2>2. ListTypeOK'
    BY <1>0, <1>12, EraseNodeType DEF CancelEnd, InProcess
  <2>3. InProcess'
    BY <1>0, <1>12 DEF InProcess, TypeOK, CancelEnd, Goto, Threads, loopVars
  <2>4. NothingLeftOnCanceled'
    BY <1>0, <1>12 DEF NothingLeftOnCanceled, TypeOK, CancelEnd, Goto, Threads
  <2>5. IsFiniteSet(ft_any_comm_requests')
    BY <1>0, <1>12 DEF FiniteCounts, CancelEnd, Goto, anyVars
  <2>6. FailuresExact' /\ FiniteCounts'
    BY <1>0, <1>12, <2>5, FailuresFrame DEF TypeOK, CancelEnd, Goto, Threads, anyVars, loopVars
  <2> QED BY <2>1, <2>2, <2>3, <2>4, <2>6 DEF IInv
<1>13. ASSUME EraseComm PROVE IInv'
  <2>1. TypeOK'
    BY <1>0, <1>13 DEF TypeOK, EraseComm, Goto, commVars, anyVars, loopVars
  <2>2. ListTypeOK'
    BY <1>0, <1>13 DEF ListTypeOK, EraseComm, Goto, listVars
  <2>3. InProcess'
    BY <1>0, <1>13 DEF InProcess, TypeOK, EraseComm, Goto, Threads, loopVars
  <2>4. NothingLeftOnCanceled'
    BY <1>0, <1>13 DEF NothingLeftOnCanceled, TypeOK, EraseComm, Goto, Threads, commVars
  <2>5. IsFiniteSet(ft_any_comm_requests')
    BY <1>0, <1>13 DEF FiniteCounts, EraseComm, Goto, anyVars
  <2>6. FailuresExact' /\ FiniteCounts'
    BY <1>0, <1>13, <2>5, FailuresFrame DEF TypeOK, EraseComm, Goto, Threads, commVars, anyVars,
       loopVars
  <2> QED BY <2>1, <2>2, <2>3, <2>4, <2>6 DEF IInv
<1>14. ASSUME NEW r \in Requests, Post(r) PROVE IInv'
  <2>1. TypeOK'
    BY <1>0, <1>14 DEF TypeOK, Post, RegisterRequest, commVars, anyVars, loopVars
  <2>2. ListTypeOK'
    BY <1>0, <1>14, RegisterEffect DEF Post
  <2>3. InProcess'
    BY <1>0, <1>14 DEF InProcess, TypeOK, Post, RegisterRequest, Threads, loopVars
  <2>4. NothingLeftOnCanceled'
    BY <1>0, <1>14 DEF NothingLeftOnCanceled, TypeOK, Post, RegisterRequest, Threads, commVars
  <2>5. IsFiniteSet(ft_any_comm_requests')
    BY <1>0, <1>14 DEF FiniteCounts, Post, RegisterRequest, anyVars
  <2>6. FailuresExact' /\ FiniteCounts'
    BY <1>0, <1>14, <2>5, FailuresFrame DEF TypeOK, Post, RegisterRequest, Threads, commVars,
       anyVars, loopVars
  <2> QED BY <2>1, <2>2, <2>3, <2>4, <2>6 DEF IInv
<1>15. ASSUME NEW a \in AnyRequests, PostAny(a) PROVE IInv'
  <2>1. TypeOK'
    BY <1>0, <1>15 DEF TypeOK, PostAny, commVars, loopVars
  <2>2. ListTypeOK'
    BY <1>0, <1>15 DEF ListTypeOK, PostAny, listVars
  <2>3. InProcess'
    BY <1>0, <1>15 DEF InProcess, TypeOK, PostAny, Threads, loopVars
  <2>4. NothingLeftOnCanceled'
    BY <1>0, <1>15 DEF NothingLeftOnCanceled, TypeOK, PostAny, Threads, commVars
  <2>5. IsFiniteSet(ft_any_comm_requests')
    BY <1>0, <1>15, FS_AddElement DEF FiniteCounts, PostAny
  <2>6. FailuresExact' /\ FiniteCounts'
    BY <1>0, <1>15, <2>5, FailuresFrame DEF TypeOK, PostAny, Threads, commVars, loopVars
  <2> QED BY <2>1, <2>2, <2>3, <2>4, <2>6 DEF IInv
<1>16. ASSUME NEW c \in Comms, Crash(c) PROVE IInv'
  <2>1. TypeOK'
    BY <1>0, <1>16 DEF TypeOK, Crash, commVars, anyVars, loopVars
  <2>2. ListTypeOK'
    BY <1>0, <1>16 DEF ListTypeOK, Crash, listVars
  <2>3. InProcess'
    BY <1>0, <1>16 DEF InProcess, TypeOK, Crash, Threads, loopVars
  <2>4. NothingLeftOnCanceled'
    BY <1>0, <1>16 DEF NothingLeftOnCanceled, TypeOK, Crash, Threads, commVars
  <2>5. IsFiniteSet(ft_any_comm_requests')
    BY <1>0, <1>16 DEF FiniteCounts, Crash, anyVars
  <2>6. FailuresExact' /\ FiniteCounts'
    BY <1>0, <1>16, <2>5, FailuresFrame DEF TypeOK, Crash, Threads, commVars, anyVars, loopVars
  <2> QED BY <2>1, <2>2, <2>3, <2>4, <2>6 DEF IInv
<1>17. ASSUME NEW c \in Comms, CloseComm(c) PROVE IInv'
  <2>1. TypeOK'
    BY <1>0, <1>17 DEF TypeOK, CloseComm, Goto, commVars, anyVars, loopVars
  <2>2. ListTypeOK'
    BY <1>0, <1>17 DEF ListTypeOK, CloseComm, Goto, listVars
  <2>3. InProcess'
    BY <1>0, <1>17 DEF InProcess, TypeOK, CloseComm, Goto, Threads, loopVars
  <2>4. NothingLeftOnCanceled'
    BY <1>0, <1>17 DEF NothingLeftOnCanceled, TypeOK, CloseComm, Goto, Threads, commVars
  <2>5. IsFiniteSet(ft_any_comm_requests')
    BY <1>0, <1>17 DEF FiniteCounts, CloseComm, Goto, anyVars
  <2>6. FailuresExact' /\ FiniteCounts'
    BY <1>0, <1>17, <2>5, FailuresFrame DEF TypeOK, CloseComm, Goto, Threads, commVars, anyVars,
       loopVars
  <2> QED BY <2>1, <2>2, <2>3, <2>4, <2>6 DEF IInv
<1>18. ASSUME NEW c \in Comms, NEW r \in AllRequests, NEW ok \in BOOLEAN, Complete(c, r, ok)
       PROVE  IInv'
  <2>1. TypeOK'
    BY <1>0, <1>18 DEF TypeOK, Complete, OnRequestComplete, anyVars, loopVars
  <2>2. ListTypeOK'
    BY <1>0, <1>18 DEF ListTypeOK, Complete, OnRequestComplete, listVars
  <2>3. InProcess'
    BY <1>0, <1>18 DEF InProcess, TypeOK, Complete, OnRequestComplete, Threads, loopVars
  <2>4. NothingLeftOnCanceled'
    BY <1>0, <1>18 DEF NothingLeftOnCanceled, TypeOK, Complete, OnRequestComplete, Threads
  <2>5. IsFiniteSet(ft_any_comm_requests')
    BY <1>0, <1>18 DEF FiniteCounts, Complete, OnRequestComplete, anyVars
  <2>6. FailuresExact' /\ FiniteCounts'
    BY <1>0, <1>18, <2>5, FailuresFrame DEF TypeOK, Complete, OnRequestComplete, Threads,
       anyVars, loopVars
  <2> QED BY <2>1, <2>2, <2>3, <2>4, <2>6 DEF IInv
<1>19. ASSUME NEW c \in Comms, NEW a \in AnyRequests, CompleteAny(a, c) PROVE IInv'
  <2>1. TypeOK'
    BY <1>0, <1>19 DEF TypeOK, CompleteAny, commVars, loopVars
  <2>2. ListTypeOK'
    BY <1>0, <1>19 DEF ListTypeOK, CompleteAny, listVars
  <2>3. InProcess'
    BY <1>0, <1>19 DEF InProcess, TypeOK, CompleteAny, Threads, loopVars
  <2>4. NothingLeftOnCanceled'
    BY <1>0, <1>19 DEF NothingLeftOnCanceled, TypeOK, CompleteAny, Threads, commVars
  <2>5. IsFiniteSet(ft_any_comm_requests')
    BY <1>0, <1>19, FS_RemoveElement DEF FiniteCounts, CompleteAny
  <2>6. FailuresExact' /\ FiniteCounts'
    BY <1>0, <1>19, <2>5, FailuresFrame DEF TypeOK, CompleteAny, Threads, commVars, loopVars
  <2> QED BY <2>1, <2>2, <2>3, <2>4, <2>6 DEF IInv
<1>20. ASSUME UNCHANGED vars PROVE IInv'
  <2>1. TypeOK'
    BY <1>0, <1>20 DEF TypeOK, vars, commVars, anyVars, loopVars
  <2>2. ListTypeOK'
    BY <1>0, <1>20 DEF ListTypeOK, vars, listVars
  <2>3. InProcess'
    BY <1>0, <1>20 DEF InProcess, TypeOK, vars, Threads, loopVars
  <2>4. NothingLeftOnCanceled'
    BY <1>0, <1>20 DEF NothingLeftOnCanceled, TypeOK, vars, Threads, commVars
  <2>5. IsFiniteSet(ft_any_comm_requests')
    BY <1>0, <1>20 DEF FiniteCounts, vars, anyVars
  <2>6. FailuresExact' /\ FiniteCounts'
    BY <1>0, <1>20, <2>5, FailuresFrame DEF TypeOK, vars, Threads, commVars, anyVars, loopVars
  <2> QED BY <2>1, <2>2, <2>3, <2>4, <2>6 DEF IInv
<1> QED
  BY <1>1, <1>2, <1>3, <1>4, <1>5, <1>6, <1>7, <1>8, <1>9, <1>10, <1>11, <1>12, <1>13, <1>14,
     <1>15, <1>16, <1>17, <1>18, <1>19, <1>20
     DEF Next, LeaderStep, CancelStep

LEMMA IInvInvariant == Spec => []IInv
BY InitInv, NextInv, PTL DEF Spec

-----------------------------------------------------------------------------
(* Theorems.                                                               *)

\* Once cancel_comm has gone through a communicator's requests none is left on
\* it and none is added: the posts and the heartbeat check is_canceled under
\* the mutex cancel_comm sets it under, whichever of the two threads cancels.
THEOREM NothingLeftOnCanceledInvariant == Spec => []NothingLeftOnCanceled
<1>1. IInv => NothingLeftOnCanceled
  BY DEF IInv
<1> QED BY <1>1, IInvInvariant, PTL

\* Between two loops every failure found in an ANY loop has been reported to
\* exactly one ANY request or is kept (handle_any_comm_reports), however many
\* communicators fail at once and however many ANY requests are outstanding.
THEOREM FailureReportedOnceInvariant == Spec => []FailureReportedOnce
<1>1. IInv => FailureReportedOnce
  BY DEF IInv, FailuresExact, FailureReportedOnce, Collecting
<1> QED BY <1>1, IInvInvariant, PTL
=============================================================================
