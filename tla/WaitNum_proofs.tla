--------------------------- MODULE WaitNum_proofs ---------------------------
(***************************************************************************)
(* Proofs about wait_num and test_num (modules WaitNum and TestNum) for an  *)
(* array of any length, any distribution over the two endpoints and any set *)
(* of counts asked for.                                                     *)
(***************************************************************************)
EXTENDS WaitNum, FiniteSetTheorems, TLAPS

-----------------------------------------------------------------------------
(* The inductive invariant.                                                *)

TestPcs == {"pass1", "polling", "pass2"}
\* wait_num has not yet seen enough completions ...
CountingPcs == {"setup", "acquire_shm", "register_shm", "acquire_peer", "register_peer",
                "loop", "progress", "asleep"}
\* ... or has, and is on its way out.
LeavingPcs == {"destroy", "count", "cleanup"}

TypeOK ==
  /\ done \subseteq 1..N /\ timed_out \subseteq 1..N /\ before \subseteq 1..N
  /\ need \subseteq Endpoints /\ registered \subseteq Endpoints
  /\ how_many \in Int /\ wait_count \in Int
  /\ i \in 1..(N + 1)
  /\ leader \in [Endpoints -> {"none", "me", "other"}]
  /\ linear_counter \in 0..(N - 1)
  /\ out_index \in (-1)..(N - 1)
  /\ pc \in {"idle"} \cup TestPcs \cup CountingPcs \cup LeavingPcs
  /\ result \in Int

\* The request visited first by the clean-up, 0-based, and the step of the
\* clean-up that visits request r.
First == IF linear_counter = 0 THEN N - 1 ELSE linear_counter - 1
Visit(r) == IF r - 1 >= First THEN r - First ELSE r - First + N

\* Which requests point to the wait_struct.
SharedExact ==
  /\ pc \in {"idle"} \cup TestPcs => shared = {}
  /\ pc = "setup" => shared = 1..(i - 1)
  /\ pc \in (CountingPcs \ {"setup"}) \cup {"destroy", "count"} => shared = 1..N
  /\ pc = "cleanup" => shared = {r \in 1..N : Visit(r) >= i} /\ i <= N

\* Every completion of a request that points to the wait_struct is counted
\* there once, and wait_num leaves only when how_many were counted.
CountExact ==
  /\ pc \in CountingPcs => wait_count = how_many - Cardinality(done \cap shared)
  /\ pc \in LeavingPcs => Cardinality(done) >= how_many
  /\ pc \in CountingPcs \cup {"destroy", "count"} => out_index = -1
  /\ pc = "cleanup" => (out_index = -1 \/ out_index + 1 \in done)
  /\ pc \in CountingPcs \cup LeavingPcs => ~tested

\* The first pass of test_num: what it has not counted, and the endpoints.
PassExact ==
  /\ pc \in TestPcs => /\ tested /\ result = NoResult
                       /\ before \subseteq done /\ wait_count >= 0
  /\ pc = "pass1" =>
       /\ \/ wait_count <= how_many - Cardinality(before \cap 1..(i - 1))
          \/ Cardinality(before) < how_many
       /\ \A r \in 1..(i - 1) \ done : Endpoint[r] \in need
  /\ pc \in {"polling", "pass2"} => Cardinality(before) < how_many

IInv ==
  /\ TypeOK /\ SharedExact /\ CountExact /\ PassExact
  /\ TimeoutJustified /\ NoEndpointForgotten
  /\ ReturnsCompleted /\ CompletedNotTimedOut

-----------------------------------------------------------------------------
(* Counting.                                                               *)

\* Sets of requests are finite, and a completion adds one.
LEMMA CardRequests ==
  ASSUME NEW S \in SUBSET (1..N)
  PROVE  /\ IsFiniteSet(S) /\ Cardinality(S) \in Nat
         /\ \A x : Cardinality(S \cup {x}) = IF x \in S THEN Cardinality(S) ELSE Cardinality(S) + 1
<1>1. N \in Int /\ 1 \in Int
  BY TestNumAssumption
<1>2. IsFiniteSet(1..N)
  BY <1>1, FS_Interval
<1>3. IsFiniteSet(S)
  BY <1>2, FS_Subset
<1> QED BY <1>3, FS_CardinalityType, FS_AddElement

\* A larger set of requests has at least as many elements.
LEMMA CardSubset ==
  ASSUME NEW S \in SUBSET (1..N), NEW T \in SUBSET S
  PROVE  Cardinality(T) <= Cardinality(S)
BY CardRequests, FS_Subset

\* What the next element adds to the part of S a pass has seen.
LEMMA CardPrefix ==
  ASSUME NEW S \in SUBSET (1..N), NEW k \in 1..N
  PROVE  Cardinality(S \cap 1..k) =
           IF k \in S THEN Cardinality(S \cap 1..(k - 1)) + 1 ELSE Cardinality(S \cap 1..(k - 1))
<1> DEFINE T == S \cap 1..(k - 1)
<1>1. T \in SUBSET (1..N) /\ k \notin T
  BY TestNumAssumption
<1>2. CASE k \in S
  <2>1. S \cap 1..k = T \cup {k}
    BY <1>2, TestNumAssumption
  <2> QED BY <2>1, <1>1, <1>2, CardRequests
<1>3. CASE k \notin S
  <2>1. S \cap 1..k = T
    BY <1>3, TestNumAssumption
  <2> QED BY <2>1, <1>3
<1> QED BY <1>2, <1>3

\* The part of S a pass has still to see has at most one element per step left.
LEMMA CardRest ==
  ASSUME NEW S \in SUBSET (1..N), NEW k \in 1..(N + 1)
  PROVE  Cardinality(S) <= Cardinality(S \cap 1..(k - 1)) + (N - k + 1)
<1> DEFINE T == S \cap 1..(k - 1)
           U == S \cap k..N
<1>1. N \in Nat /\ k \in Nat /\ k <= N + 1
  BY TestNumAssumption
<1>2. S = T \cup U /\ T \cap U = {} /\ T \in SUBSET (1..N) /\ U \in SUBSET (1..N)
  <2>1. ASSUME NEW x \in S PROVE x \in T \/ x \in U
    BY <1>1
  <2>2. ASSUME NEW x \in T PROVE x \notin U
    BY <1>1
  <2> QED BY <2>1, <2>2
<1>3. /\ IsFiniteSet(T) /\ IsFiniteSet(U)
      /\ Cardinality(T) \in Nat /\ Cardinality(U) \in Nat
  BY <1>2, CardRequests
<1>4. Cardinality(T \cap U) = 0
  BY <1>2, FS_EmptySet
<1>5. Cardinality(S) = Cardinality(T) + Cardinality(U) - Cardinality(T \cap U)
  BY <1>2, <1>3, FS_Union
<1>6. IsFiniteSet(k..N) /\ Cardinality(k..N) = N - k + 1
  <2>1. k \in Int /\ N \in Int /\ (k > N => N - k + 1 = 0)
    BY <1>1
  <2>2. /\ IsFiniteSet(k..N)
        /\ Cardinality(k..N) = IF k > N THEN 0 ELSE N - k + 1
    BY <2>1, FS_Interval
  <2> QED BY <2>1, <2>2
<1>7. U \in SUBSET (k..N)
  OBVIOUS
<1>8. Cardinality(U) <= N - k + 1
  BY <1>6, <1>7, FS_Subset
<1> HIDE DEF T, U
<1> QED BY <1>1, <1>3, <1>4, <1>5, <1>8 DEF T

\* The clean-up visits every request once: the i-th step visits the one request
\* whose turn it is (first_rand + i modulo n_requests).
LEMMA IndexVisits ==
  ASSUME TypeOK, i <= N
  PROVE  /\ Index \in 0..(N - 1)
         /\ \A r \in 1..N : Visit(r) = i <=> r = Index + 1
<1>1. N \in Nat \ {0} /\ N >= 2 /\ linear_counter \in 0..(N - 1) /\ i \in 1..N
  BY TestNumAssumption DEF TypeOK
<1> DEFINE x == linear_counter + N - 1 + i - 1
           w == IF First + i - 1 < N THEN First + i - 1 ELSE First + i - 1 - N
<1>2. First \in 0..(N - 1) /\ w \in 0..(N - 1)
  BY <1>1 DEF First
<1>3. x = w \/ x = w + N \/ x = w + N + N
  BY <1>1, <1>2 DEF First
<1>4. \A y \in 0..(N - 1) : y % N = y /\ (y + N) % N = y /\ (y + N + N) % N = y
  BY <1>1
<1>5. x % N = w
  BY <1>2, <1>3, <1>4
<1>6. Index = w
  BY <1>5 DEF Index
<1>7. \A r \in 1..N : Visit(r) = i <=> r = w + 1
  BY <1>1, <1>2 DEF Visit
<1> QED BY <1>2, <1>6, <1>7

-----------------------------------------------------------------------------
(* The invariant holds initially and every action keeps it.                *)

LEMMA InitIInv == Init => IInv
<1> SUFFICES ASSUME Init PROVE IInv
  OBVIOUS
<1>1. N \in Nat /\ N >= 2
  BY TestNumAssumption
<1>2. i \in 1..(N + 1) /\ linear_counter \in 0..(N - 1) /\ out_index \in (-1)..(N - 1)
  BY <1>1 DEF Init
<1>3. how_many \in Int /\ wait_count \in Int /\ result \in Int
  BY DEF Init, NoResult
<1>4. leader \in [Endpoints -> {"none", "me", "other"}]
  BY Zenon DEF Init
<1>5. TypeOK
  BY <1>2, <1>3, <1>4 DEF Init, TypeOK
<1> QED BY <1>5 DEF Init, IInv, SharedExact, CountExact, PassExact, TimeoutJustified,
     NoEndpointForgotten, ReturnsCompleted, CompletedNotTimedOut, TestPcs, CountingPcs,
     LeavingPcs, NoResult, LFI_TIMEOUT


\* Every action keeps the invariant.  Only the actions that count, scan or take
\* pointers back have something to show; the others leave alone what a part of
\* the invariant is about.
LEMMA StepIInv == IInv /\ [Next]_vars => IInv'
<1> SUFFICES ASSUME IInv, [Next]_vars PROVE IInv'
  OBVIOUS
<1>0. N \in Nat /\ N >= 2 /\ Endpoint \in [1..N -> Endpoints] /\ HowMany \subseteq Int
  BY TestNumAssumption
<1>c. /\ \A S \in SUBSET (1..N) : Cardinality(S) \in Nat
      /\ \A S \in SUBSET (1..N) : \A T \in SUBSET S : Cardinality(T) <= Cardinality(S)
      /\ Cardinality({}) = 0
  BY CardRequests, CardSubset, FS_EmptySet
<1> USE DEF TestPcs, CountingPcs, LeavingPcs, NoResult, LFI_TIMEOUT
<1>1. ASSUME Begin PROVE IInv'
  <2>a. done \cap shared' = {} /\ wait_count' = how_many' /\ how_many' \in Int
    BY <1>0, <1>1 DEF Begin, IInv, SharedExact
  <2>1. TypeOK'
    BY <1>0, <1>1 DEF IInv, TypeOK, Begin
  <2>2. SharedExact'
    BY <1>0, <1>1 DEF IInv, TypeOK, SharedExact, First, Visit, Begin
  <2>3. CountExact'
    BY <1>0, <1>c, <1>1, <2>a DEF IInv, TypeOK, CountExact, Begin
  <2>4. PassExact'
    BY <1>0, <1>1 DEF IInv, TypeOK, PassExact, Begin
  <2>5. TimeoutJustified'
    BY <1>0, <1>1 DEF IInv, TypeOK, TimeoutJustified, Begin
  <2>6. NoEndpointForgotten'
    BY <1>0, <1>1 DEF IInv, TypeOK, NoEndpointForgotten, Begin
  <2>7. ReturnsCompleted'
    BY <1>0, <1>1 DEF IInv, TypeOK, ReturnsCompleted, Begin
  <2>8. CompletedNotTimedOut'
    BY <1>0, <1>1 DEF IInv, TypeOK, CompletedNotTimedOut, Begin
  <2> QED BY <2>1, <2>2, <2>3, <2>4, <2>5, <2>6, <2>7, <2>8 DEF IInv
<1>2. ASSUME BeginInvalid PROVE IInv'
  <2>1. TypeOK'
    BY <1>0, <1>2 DEF IInv, TypeOK, BeginInvalid
  <2>2. SharedExact'
    BY <1>0, <1>2 DEF IInv, TypeOK, SharedExact, First, Visit, BeginInvalid
  <2>3. CountExact'
    BY <1>0, <1>2 DEF IInv, TypeOK, CountExact, BeginInvalid
  <2>4. PassExact'
    BY <1>0, <1>2 DEF IInv, TypeOK, PassExact, BeginInvalid
  <2>5. TimeoutJustified'
    BY <1>0, <1>2 DEF IInv, TypeOK, TimeoutJustified, BeginInvalid
  <2>6. NoEndpointForgotten'
    BY <1>0, <1>2 DEF IInv, TypeOK, NoEndpointForgotten, BeginInvalid
  <2>7. ReturnsCompleted'
    BY <1>0, <1>2 DEF IInv, TypeOK, ReturnsCompleted, BeginInvalid
  <2>8. CompletedNotTimedOut'
    BY <1>0, <1>2 DEF IInv, TypeOK, CompletedNotTimedOut, BeginInvalid
  <2> QED BY <2>1, <2>2, <2>3, <2>4, <2>5, <2>6, <2>7, <2>8 DEF IInv
<1>3. ASSUME Test /\ Scan PROVE IInv'
  <2>1. TypeOK'
    BY <1>0, <1>3 DEF IInv, TypeOK, Test, Scan, InPass, PassOver
  <2>2. SharedExact'
    BY <1>0, <1>3 DEF IInv, TypeOK, SharedExact, First, Visit, Test, Scan, InPass, PassOver
  <2>3. CountExact'
    BY <1>0, <1>3 DEF IInv, TypeOK, CountExact, Test, Scan, InPass, PassOver
  <2>4. PassExact'
    <3>1. /\ pc = "pass1" \/ pc = "pass2"
          /\ i \in 1..N /\ wait_count > 0 /\ i' = i + 1
          /\ done' = done /\ before' = before /\ how_many' = how_many /\ pc' = pc
          /\ tested' = tested /\ result' = result
      BY <1>0, <1>3 DEF IInv, TypeOK, Scan, InPass, PassOver
    <3>2. /\ wait_count' >= 0 /\ wait_count' \in Int
          /\ wait_count' = IF wait_count <= N - i + 1 /\ i \in done THEN wait_count - 1 ELSE wait_count
      BY <1>0, <1>3, <3>1 DEF IInv, TypeOK, Scan
    <3>3. ASSUME pc = "pass1"
          PROVE  \/ wait_count' <= how_many' - Cardinality(before' \cap 1..(i' - 1))
                 \/ Cardinality(before') < how_many'
      <4>1. /\ before \in SUBSET (1..N) /\ before \subseteq done /\ how_many \in Int
            /\ wait_count \in Int
            /\ \/ wait_count <= how_many - Cardinality(before \cap 1..(i - 1))
               \/ Cardinality(before) < how_many
        BY <3>3 DEF IInv, TypeOK, PassExact
      <4>2. /\ Cardinality(before) \in Nat /\ Cardinality(before \cap 1..(i - 1)) \in Nat
            /\ Cardinality(before \cap 1..i) \in Nat
        BY <4>1, <1>c
      <4>3. Cardinality(before) <= Cardinality(before \cap 1..(i - 1)) + (N - i + 1)
        BY <4>1, <3>1, <1>0, CardRest
      <4>4. Cardinality(before \cap 1..i) =
              IF i \in before THEN Cardinality(before \cap 1..(i - 1)) + 1
              ELSE Cardinality(before \cap 1..(i - 1))
        BY <4>1, <3>1, CardPrefix
      <4>5. i' - 1 = i /\ before' \cap 1..(i' - 1) = before \cap 1..i
        BY <3>1
      <4> QED BY <4>1, <4>2, <4>3, <4>4, <4>5, <3>1, <3>2, <1>0
    <3>4. ASSUME pc = "pass1", NEW k \in 1..(i' - 1) \ done'
          PROVE  Endpoint[k] \in need'
      BY <3>4, <3>1, <1>3 DEF IInv, PassExact, Scan
    <3> QED BY <3>1, <3>2, <3>3, <3>4 DEF IInv, PassExact
  <2>5. TimeoutJustified'
    BY <1>0, <1>3 DEF IInv, TypeOK, TimeoutJustified, Test, Scan, InPass, PassOver
  <2>6. NoEndpointForgotten'
    BY <1>0, <1>3 DEF IInv, TypeOK, NoEndpointForgotten, Test, Scan, InPass, PassOver
  <2>7. ReturnsCompleted'
    BY <1>0, <1>3 DEF IInv, TypeOK, ReturnsCompleted, Test, Scan, InPass, PassOver
  <2>8. CompletedNotTimedOut'
    BY <1>0, <1>3 DEF IInv, TypeOK, CompletedNotTimedOut, Test, Scan, InPass, PassOver
  <2> QED BY <2>1, <2>2, <2>3, <2>4, <2>5, <2>6, <2>7, <2>8 DEF IInv
<1>4. ASSUME Test /\ EndPass PROVE IInv'
  \* a call that goes on to make progress had too few completed requests to
  \* begin with, and has noted all endpoints with one that is not completed
  <2>a. ASSUME pc = "pass1", wait_count # 0
        PROVE  /\ Cardinality(before) < how_many
               /\ \A k \in 1..N \ done : Endpoint[k] \in need
    <3>1. /\ before \in SUBSET (1..N) /\ how_many \in Int /\ wait_count \in Int /\ wait_count > 0
          /\ i \in 1..(N + 1)
          /\ \/ wait_count <= how_many - Cardinality(before \cap 1..(i - 1))
             \/ Cardinality(before) < how_many
          /\ \A k \in 1..(i - 1) \ done : Endpoint[k] \in need
      BY <2>a DEF IInv, TypeOK, PassExact
    <3>2. Cardinality(before) \in Nat /\ Cardinality(before \cap 1..(i - 1)) \in Nat
      BY <3>1, <1>c
    <3>3. Cardinality(before) <= Cardinality(before \cap 1..(i - 1)) + (N - i + 1)
      BY <3>1, CardRest
    <3>4. i = N + 1 \/ (wait_count > N - i + 1 /\ need = Endpoints)
      BY <1>0, <1>4, <3>1 DEF EndPass, PassOver, Endpoints
    <3>5. Cardinality(before) < how_many
      BY <3>1, <3>2, <3>3, <3>4, <1>0
    <3> QED BY <3>1, <3>4, <3>5, <1>0
  <2>1. TypeOK'
    BY <1>0, <1>4 DEF IInv, TypeOK, Test, EndPass, Return, InPass, PassOver
  <2>2. SharedExact'
    BY <1>0, <1>4 DEF IInv, TypeOK, SharedExact, First, Visit, Test, EndPass, Return, InPass, PassOver
  <2>3. CountExact'
    BY <1>0, <1>4 DEF IInv, TypeOK, CountExact, Test, EndPass, Return, InPass, PassOver
  <2>4. PassExact'
    BY <1>0, <2>a, <1>4 DEF IInv, TypeOK, PassExact, EndPass, Return, InPass
  <2>5. TimeoutJustified'
    BY <1>0, <2>a, <1>4 DEF IInv, TypeOK, PassExact, TimeoutJustified, EndPass, Return, InPass
  <2>6. NoEndpointForgotten'
    BY <1>0, <2>a, <1>4 DEF IInv, TypeOK, NoEndpointForgotten, EndPass, Return, InPass
  <2>7. ReturnsCompleted'
    BY <1>0, <2>a, <1>4 DEF IInv, TypeOK, PassExact, ReturnsCompleted, EndPass, Return, InPass
  <2>8. CompletedNotTimedOut'
    BY <1>0, <1>4 DEF IInv, TypeOK, CompletedNotTimedOut, Test, EndPass, Return, InPass, PassOver
  <2> QED BY <2>1, <2>2, <2>3, <2>4, <2>5, <2>6, <2>7, <2>8 DEF IInv
<1>5. ASSUME Test /\ Progress PROVE IInv'
  <2>1. TypeOK'
    BY <1>0, <1>5 DEF IInv, TypeOK, Test, Progress
  <2>2. SharedExact'
    BY <1>0, <1>5 DEF IInv, TypeOK, SharedExact, First, Visit, Test, Progress
  <2>3. CountExact'
    BY <1>0, <1>5 DEF IInv, TypeOK, CountExact, Test, Progress
  <2>4. PassExact'
    BY <1>0, <1>5 DEF IInv, TypeOK, PassExact, Test, Progress
  <2>5. TimeoutJustified'
    BY <1>0, <1>5 DEF IInv, TypeOK, TimeoutJustified, Test, Progress
  <2>6. NoEndpointForgotten'
    BY <1>0, <1>5 DEF IInv, TypeOK, NoEndpointForgotten, Test, Progress
  <2>7. ReturnsCompleted'
    BY <1>0, <1>5 DEF IInv, TypeOK, ReturnsCompleted, Test, Progress
  <2>8. CompletedNotTimedOut'
    BY <1>0, <1>5 DEF IInv, TypeOK, CompletedNotTimedOut, Test, Progress
  <2> QED BY <2>1, <2>2, <2>3, <2>4, <2>5, <2>6, <2>7, <2>8 DEF IInv
<1>6. ASSUME Setup PROVE IInv'
  <2>1. TypeOK'
    BY <1>0, <1>6 DEF IInv, TypeOK, Setup
  <2>2. SharedExact'
    BY <1>0, <1>6 DEF IInv, TypeOK, SharedExact, First, Visit, Setup
  <2>3. CountExact'
    <3>1. /\ pc = "setup" /\ i \in 1..N /\ shared = 1..(i - 1) /\ shared' = shared \cup {i}
          /\ done \in SUBSET (1..N)
          /\ wait_count = how_many - Cardinality(done \cap shared) /\ how_many \in Int
      BY <1>0, <1>6 DEF IInv, TypeOK, SharedExact, CountExact, Setup
    <3>2. i \notin done \cap shared /\ done \cap shared \in SUBSET (1..N)
      BY <3>1, <1>0
    <3>3. Cardinality(done \cap shared) \in Nat
      BY <3>2, <1>c
    <3>4. CASE i \in done
      <4>1. done \cap shared' = (done \cap shared) \cup {i}
        BY <3>1, <3>4
      <4>2. Cardinality(done \cap shared') = Cardinality(done \cap shared) + 1
        BY <4>1, <3>2, CardRequests
      <4> QED BY <4>2, <3>1, <3>3, <3>4, <1>6 DEF IInv, CountExact, Setup
    <3>5. CASE i \notin done
      <4>1. done \cap shared' = done \cap shared
        BY <3>1, <3>5
      <4> QED BY <4>1, <3>1, <3>5, <1>6 DEF IInv, CountExact, Setup
    <3> QED BY <3>4, <3>5
  <2>4. PassExact'
    BY <1>0, <1>6 DEF IInv, TypeOK, PassExact, Setup
  <2>5. TimeoutJustified'
    BY <1>0, <1>6 DEF IInv, TypeOK, TimeoutJustified, Setup
  <2>6. NoEndpointForgotten'
    BY <1>0, <1>6 DEF IInv, TypeOK, NoEndpointForgotten, Setup
  <2>7. ReturnsCompleted'
    BY <1>0, <1>6 DEF IInv, TypeOK, ReturnsCompleted, Setup
  <2>8. CompletedNotTimedOut'
    BY <1>0, <1>6 DEF IInv, TypeOK, CompletedNotTimedOut, Setup
  <2> QED BY <2>1, <2>2, <2>3, <2>4, <2>5, <2>6, <2>7, <2>8 DEF IInv
<1>7. ASSUME SetupDone PROVE IInv'
  <2>1. TypeOK'
    BY <1>0, <1>7 DEF IInv, TypeOK, SetupDone
  <2>2. SharedExact'
    BY <1>0, <1>7 DEF IInv, TypeOK, SharedExact, First, Visit, SetupDone
  <2>3. CountExact'
    <3>1. pc \in CountingPcs /\ done \in SUBSET (1..N) /\ done' = done /\ how_many \in Int
      BY <1>7 DEF IInv, TypeOK, SetupDone
    <3>2. Cardinality(done) \in Nat /\ Cardinality(done \cap shared) \in Nat
          /\ Cardinality(done \cap shared) <= Cardinality(done)
      BY <3>1, <1>c
    <3> QED BY <3>1, <3>2, <1>7 DEF IInv, TypeOK, CountExact, SetupDone
  <2>4. PassExact'
    BY <1>0, <1>7 DEF IInv, TypeOK, PassExact, SetupDone
  <2>5. TimeoutJustified'
    BY <1>0, <1>7 DEF IInv, TypeOK, TimeoutJustified, SetupDone
  <2>6. NoEndpointForgotten'
    BY <1>0, <1>7 DEF IInv, TypeOK, NoEndpointForgotten, SetupDone
  <2>7. ReturnsCompleted'
    BY <1>0, <1>7 DEF IInv, TypeOK, ReturnsCompleted, SetupDone
  <2>8. CompletedNotTimedOut'
    BY <1>0, <1>7 DEF IInv, TypeOK, CompletedNotTimedOut, SetupDone
  <2> QED BY <2>1, <2>2, <2>3, <2>4, <2>5, <2>6, <2>7, <2>8 DEF IInv
<1>8. ASSUME Loop PROVE IInv'
  <2>1. TypeOK'
    BY <1>0, <1>8 DEF IInv, TypeOK, Loop, Leads
  <2>2. SharedExact'
    BY <1>0, <1>8 DEF IInv, TypeOK, SharedExact, First, Visit, Loop, Leads
  <2>3. CountExact'
    <3>1. pc \in CountingPcs /\ done \in SUBSET (1..N) /\ done' = done /\ how_many \in Int
      BY <1>8 DEF IInv, TypeOK, Loop
    <3>2. Cardinality(done) \in Nat /\ Cardinality(done \cap shared) \in Nat
          /\ Cardinality(done \cap shared) <= Cardinality(done)
      BY <3>1, <1>c
    <3> QED BY <3>1, <3>2, <1>8 DEF IInv, TypeOK, CountExact, Loop
  <2>4. PassExact'
    BY <1>0, <1>8 DEF IInv, TypeOK, PassExact, Loop, Leads
  <2>5. TimeoutJustified'
    BY <1>0, <1>8 DEF IInv, TypeOK, TimeoutJustified, Loop, Leads
  <2>6. NoEndpointForgotten'
    BY <1>0, <1>8 DEF IInv, TypeOK, NoEndpointForgotten, Loop, Leads
  <2>7. ReturnsCompleted'
    BY <1>0, <1>8 DEF IInv, TypeOK, ReturnsCompleted, Loop, Leads
  <2>8. CompletedNotTimedOut'
    BY <1>0, <1>8 DEF IInv, TypeOK, CompletedNotTimedOut, Loop, Leads
  <2> QED BY <2>1, <2>2, <2>3, <2>4, <2>5, <2>6, <2>7, <2>8 DEF IInv
<1>9. ASSUME ProgressEnds PROVE IInv'
  <2>1. TypeOK'
    BY <1>0, <1>9 DEF IInv, TypeOK, ProgressEnds
  <2>2. SharedExact'
    BY <1>0, <1>9 DEF IInv, TypeOK, SharedExact, First, Visit, ProgressEnds
  <2>3. CountExact'
    BY <1>0, <1>9 DEF IInv, TypeOK, CountExact, ProgressEnds
  <2>4. PassExact'
    BY <1>0, <1>9 DEF IInv, TypeOK, PassExact, ProgressEnds
  <2>5. TimeoutJustified'
    BY <1>0, <1>9 DEF IInv, TypeOK, TimeoutJustified, ProgressEnds
  <2>6. NoEndpointForgotten'
    BY <1>0, <1>9 DEF IInv, TypeOK, NoEndpointForgotten, ProgressEnds
  <2>7. ReturnsCompleted'
    BY <1>0, <1>9 DEF IInv, TypeOK, ReturnsCompleted, ProgressEnds
  <2>8. CompletedNotTimedOut'
    BY <1>0, <1>9 DEF IInv, TypeOK, CompletedNotTimedOut, ProgressEnds
  <2> QED BY <2>1, <2>2, <2>3, <2>4, <2>5, <2>6, <2>7, <2>8 DEF IInv
<1>10. ASSUME TakeCounter PROVE IInv'
  <2>a. /\ pc = "count" /\ pc' = "cleanup" /\ i' = 1 /\ shared' = 1..N
        /\ linear_counter' \in 0..(N - 1)
    BY <1>0, <1>10 DEF IInv, TypeOK, SharedExact, TakeCounter
  <2>1. TypeOK'
    BY <1>0, <1>10 DEF IInv, TypeOK, TakeCounter
  <2>2. SharedExact'
    BY <1>0, <2>a DEF SharedExact, First, Visit
  <2>3. CountExact'
    BY <1>0, <1>10 DEF IInv, TypeOK, CountExact, TakeCounter
  <2>4. PassExact'
    BY <1>0, <1>10 DEF IInv, TypeOK, PassExact, TakeCounter
  <2>5. TimeoutJustified'
    BY <1>0, <1>10 DEF IInv, TypeOK, TimeoutJustified, TakeCounter
  <2>6. NoEndpointForgotten'
    BY <1>0, <1>10 DEF IInv, TypeOK, NoEndpointForgotten, TakeCounter
  <2>7. ReturnsCompleted'
    BY <1>0, <1>10 DEF IInv, TypeOK, ReturnsCompleted, TakeCounter
  <2>8. CompletedNotTimedOut'
    BY <1>0, <1>10 DEF IInv, TypeOK, CompletedNotTimedOut, TakeCounter
  <2> QED BY <2>1, <2>2, <2>3, <2>4, <2>5, <2>6, <2>7, <2>8 DEF IInv
<1>11. ASSUME Cleanup PROVE IInv'
  <2>a. pc = "cleanup" /\ i \in 1..N /\ shared = {k \in 1..N : Visit(k) >= i}
    BY <1>0, <1>11 DEF IInv, TypeOK, SharedExact, Cleanup
  <2>b. Index \in 0..(N - 1) /\ \A k \in 1..N : Visit(k) = i <=> k = Index + 1
    BY <2>a, IndexVisits DEF IInv
  <2>1. TypeOK'
    BY <1>0, <2>a, <2>b, <1>11 DEF IInv, TypeOK, Cleanup, Return
  <2>2. SharedExact'
    <3>1. \A k \in 1..N : Visit(k) \in 1..N
      BY <1>0 DEF IInv, TypeOK, Visit, First
    <3>2. shared' = {k \in 1..N : Visit(k) >= i + 1}
      BY <2>a, <2>b, <3>1, <1>11 DEF Cleanup
    <3>3. CASE i = N
      <4>1. shared' = {} /\ pc' = "idle"
        BY <3>1, <3>2, <3>3, <1>0, <1>11 DEF Cleanup, Return
      <4> QED BY <4>1 DEF SharedExact
    <3>4. CASE i # N
      <4>1. pc' = "cleanup" /\ i' = i + 1 /\ i' <= N
        BY <3>4, <2>a, <1>0, <1>11 DEF Cleanup
      <4>2. \A k \in 1..N : Visit(k)' = Visit(k)
        BY <1>11 DEF Cleanup, Visit, First
      <4> QED BY <4>1, <4>2, <3>2 DEF SharedExact
    <3> QED BY <3>3, <3>4
  <2>3. CountExact'
    BY <1>0, <2>a, <2>b, <1>11 DEF IInv, TypeOK, CountExact, Cleanup, Return
  <2>4. PassExact'
    BY <1>0, <1>11 DEF IInv, TypeOK, PassExact, Cleanup, Return
  <2>5. TimeoutJustified'
    BY <1>0, <1>11 DEF IInv, TypeOK, TimeoutJustified, Cleanup, Return
  <2>6. NoEndpointForgotten'
    BY <1>0, <1>11 DEF IInv, TypeOK, NoEndpointForgotten, Cleanup, Return
  <2>7. ReturnsCompleted'
    <3>1. out_index' = -1 \/ out_index' + 1 \in done
      BY <1>0, <2>a, <2>b, <1>11 DEF IInv, TypeOK, CountExact, Cleanup
    <3> QED BY <1>0, <2>a, <3>1, <1>11 DEF IInv, TypeOK, CountExact, ReturnsCompleted, Cleanup, Return
  <2>8. CompletedNotTimedOut'
    BY <2>b, <1>11 DEF IInv, CompletedNotTimedOut, Cleanup
  <2> QED BY <2>1, <2>2, <2>3, <2>4, <2>5, <2>6, <2>7, <2>8 DEF IInv
<1>12. ASSUME NEW e \in Endpoints, TryAcquire(e) PROVE IInv'
  <2>1. TypeOK'
    BY <1>0, <1>12 DEF IInv, TypeOK, TryAcquire, Endpoints, AcquirePc, RegisterPc
  <2>2. SharedExact'
    BY <1>0, <1>12 DEF IInv, TypeOK, SharedExact, First, Visit, TryAcquire, Endpoints, AcquirePc, RegisterPc
  <2>3. CountExact'
    BY <1>0, <1>12 DEF IInv, TypeOK, CountExact, TryAcquire, Endpoints, AcquirePc, RegisterPc
  <2>4. PassExact'
    BY <1>0, <1>12 DEF IInv, TypeOK, PassExact, TryAcquire, Endpoints, AcquirePc, RegisterPc
  <2>5. TimeoutJustified'
    BY <1>0, <1>12 DEF IInv, TypeOK, TimeoutJustified, TryAcquire, Endpoints, AcquirePc, RegisterPc
  <2>6. NoEndpointForgotten'
    BY <1>0, <1>12 DEF IInv, TypeOK, NoEndpointForgotten, TryAcquire, Endpoints, AcquirePc, RegisterPc
  <2>7. ReturnsCompleted'
    BY <1>0, <1>12 DEF IInv, TypeOK, ReturnsCompleted, TryAcquire, Endpoints, AcquirePc, RegisterPc
  <2>8. CompletedNotTimedOut'
    BY <1>0, <1>12 DEF IInv, TypeOK, CompletedNotTimedOut, TryAcquire, Endpoints, AcquirePc, RegisterPc
  <2> QED BY <2>1, <2>2, <2>3, <2>4, <2>5, <2>6, <2>7, <2>8 DEF IInv
<1>13. ASSUME NEW e \in Endpoints, RegisterWaiter(e) PROVE IInv'
  <2>1. TypeOK'
    BY <1>0, <1>13 DEF IInv, TypeOK, RegisterWaiter, Endpoints, AcquirePc, RegisterPc
  <2>2. SharedExact'
    BY <1>0, <1>13 DEF IInv, TypeOK, SharedExact, First, Visit, RegisterWaiter, Endpoints, AcquirePc, RegisterPc
  <2>3. CountExact'
    BY <1>0, <1>13 DEF IInv, TypeOK, CountExact, RegisterWaiter, Endpoints, AcquirePc, RegisterPc
  <2>4. PassExact'
    BY <1>0, <1>13 DEF IInv, TypeOK, PassExact, RegisterWaiter, Endpoints, AcquirePc, RegisterPc
  <2>5. TimeoutJustified'
    BY <1>0, <1>13 DEF IInv, TypeOK, TimeoutJustified, RegisterWaiter, Endpoints, AcquirePc, RegisterPc
  <2>6. NoEndpointForgotten'
    BY <1>0, <1>13 DEF IInv, TypeOK, NoEndpointForgotten, RegisterWaiter, Endpoints, AcquirePc, RegisterPc
  <2>7. ReturnsCompleted'
    BY <1>0, <1>13 DEF IInv, TypeOK, ReturnsCompleted, RegisterWaiter, Endpoints, AcquirePc, RegisterPc
  <2>8. CompletedNotTimedOut'
    BY <1>0, <1>13 DEF IInv, TypeOK, CompletedNotTimedOut, RegisterWaiter, Endpoints, AcquirePc, RegisterPc
  <2> QED BY <2>1, <2>2, <2>3, <2>4, <2>5, <2>6, <2>7, <2>8 DEF IInv
<1>14. ASSUME NEW e \in Endpoints, Destroy(e) PROVE IInv'
  <2>1. TypeOK'
    BY <1>0, <1>14 DEF IInv, TypeOK, Destroy, Endpoints, AcquirePc, RegisterPc
  <2>2. SharedExact'
    BY <1>0, <1>14 DEF IInv, TypeOK, SharedExact, First, Visit, Destroy, Endpoints, AcquirePc, RegisterPc
  <2>3. CountExact'
    BY <1>0, <1>14 DEF IInv, TypeOK, CountExact, Destroy, Endpoints, AcquirePc, RegisterPc
  <2>4. PassExact'
    BY <1>0, <1>14 DEF IInv, TypeOK, PassExact, Destroy, Endpoints, AcquirePc, RegisterPc
  <2>5. TimeoutJustified'
    BY <1>0, <1>14 DEF IInv, TypeOK, TimeoutJustified, Destroy, Endpoints, AcquirePc, RegisterPc
  <2>6. NoEndpointForgotten'
    BY <1>0, <1>14 DEF IInv, TypeOK, NoEndpointForgotten, Destroy, Endpoints, AcquirePc, RegisterPc
  <2>7. ReturnsCompleted'
    BY <1>0, <1>14 DEF IInv, TypeOK, ReturnsCompleted, Destroy, Endpoints, AcquirePc, RegisterPc
  <2>8. CompletedNotTimedOut'
    BY <1>0, <1>14 DEF IInv, TypeOK, CompletedNotTimedOut, Destroy, Endpoints, AcquirePc, RegisterPc
  <2> QED BY <2>1, <2>2, <2>3, <2>4, <2>5, <2>6, <2>7, <2>8 DEF IInv
<1>15. ASSUME TestBegin /\ UNCHANGED waitVars PROVE IInv'
  <2>1. TypeOK'
    BY <1>0, <1>15 DEF IInv, TypeOK, TestBegin, waitVars
  <2>2. SharedExact'
    BY <1>0, <1>15 DEF IInv, TypeOK, SharedExact, First, Visit, TestBegin, waitVars
  <2>3. CountExact'
    BY <1>0, <1>15 DEF IInv, TypeOK, CountExact, TestBegin, waitVars
  <2>4. PassExact'
    <3>1. /\ before' \in SUBSET (1..N) /\ how_many' \in 1..N
          /\ wait_count' = how_many' /\ i' = 1 /\ before' = done /\ done' = done
          /\ pc' = "pass1" /\ tested' /\ result' = NoResult
      BY <1>0, <1>15 DEF IInv, TypeOK, TestBegin
    <3>2. before' \cap 1..(i' - 1) = {} /\ 1..(i' - 1) \ done' = {}
      BY <3>1
    <3> QED BY <3>1, <3>2, <1>0, <1>c DEF PassExact
  <2>5. TimeoutJustified'
    BY <1>0, <1>15 DEF IInv, TypeOK, TimeoutJustified, TestBegin, waitVars
  <2>6. NoEndpointForgotten'
    BY <1>0, <1>15 DEF IInv, TypeOK, NoEndpointForgotten, TestBegin, waitVars
  <2>7. ReturnsCompleted'
    BY <1>0, <1>15 DEF IInv, TypeOK, ReturnsCompleted, TestBegin, waitVars
  <2>8. CompletedNotTimedOut'
    BY <1>0, <1>15 DEF IInv, TypeOK, CompletedNotTimedOut, TestBegin, waitVars
  <2> QED BY <2>1, <2>2, <2>3, <2>4, <2>5, <2>6, <2>7, <2>8 DEF IInv
<1>16. ASSUME NEW r \in 1..N, Post(r) PROVE IInv'
  <2>1. TypeOK'
    BY <1>0, <1>16 DEF IInv, TypeOK, Post
  <2>2. SharedExact'
    BY <1>0, <1>16 DEF IInv, TypeOK, SharedExact, First, Visit, Post
  <2>3. CountExact'
    BY <1>0, <1>16 DEF IInv, TypeOK, CountExact, Post
  <2>4. PassExact'
    BY <1>0, <1>16 DEF IInv, TypeOK, PassExact, Post
  <2>5. TimeoutJustified'
    BY <1>0, <1>16 DEF IInv, TypeOK, TimeoutJustified, Post
  <2>6. NoEndpointForgotten'
    BY <1>0, <1>16 DEF IInv, TypeOK, NoEndpointForgotten, Post
  <2>7. ReturnsCompleted'
    BY <1>0, <1>16 DEF IInv, TypeOK, ReturnsCompleted, Post
  <2>8. CompletedNotTimedOut'
    BY <1>0, <1>16 DEF IInv, TypeOK, CompletedNotTimedOut, Post
  <2> QED BY <2>1, <2>2, <2>3, <2>4, <2>5, <2>6, <2>7, <2>8 DEF IInv
<1>17. ASSUME NEW r \in 1..N, ProgressCompletes(r) PROVE IInv'
  <2>a. /\ done \in SUBSET (1..N) /\ r \notin done /\ done' = done \cup {r}
        /\ done' \in SUBSET (1..N) /\ how_many \in Int /\ wait_count \in Int /\ how_many' = how_many
        /\ wait_count' = IF r \in shared THEN wait_count - 1 ELSE wait_count
        /\ shared' = shared
    BY <1>17 DEF IInv, TypeOK, ProgressCompletes, Complete
  <2>b. /\ Cardinality(done) \in Nat /\ Cardinality(done') = Cardinality(done) + 1
        /\ Cardinality(done \cap shared) \in Nat
        /\ Cardinality(done' \cap shared) = IF r \in shared THEN Cardinality(done \cap shared) + 1
                                            ELSE Cardinality(done \cap shared)
    <3>1. CASE r \in shared
      <4>1. done' \cap shared = (done \cap shared) \cup {r} /\ r \notin done \cap shared
        BY <3>1, <2>a
      <4> QED BY <4>1, <3>1, <2>a, CardRequests
    <3>2. CASE r \notin shared
      <4>1. done' \cap shared = done \cap shared
        BY <3>2, <2>a
      <4> QED BY <4>1, <3>2, <2>a, CardRequests
    <3> QED BY <3>1, <3>2
  <2>1. TypeOK'
    BY <1>0, <1>17 DEF IInv, TypeOK, ProgressCompletes, Complete
  <2>2. SharedExact'
    BY <1>0, <1>17 DEF IInv, TypeOK, SharedExact, First, Visit, ProgressCompletes, Complete
  <2>3. CountExact'
    BY <2>a, <2>b, <1>17 DEF IInv, TypeOK, CountExact, ProgressCompletes, Complete
  <2>4. PassExact'
    BY <2>a, <2>b, <1>17 DEF IInv, TypeOK, SharedExact, PassExact, ProgressCompletes, Complete
  <2>5. TimeoutJustified'
    BY <1>0, <1>17 DEF IInv, TypeOK, TimeoutJustified, ProgressCompletes, Complete
  <2>6. NoEndpointForgotten'
    BY <1>0, <1>17 DEF IInv, TypeOK, NoEndpointForgotten, ProgressCompletes, Complete
  <2>7. ReturnsCompleted'
    BY <2>a, <2>b, <1>17 DEF IInv, TypeOK, ReturnsCompleted, ProgressCompletes, Complete
  <2>8. CompletedNotTimedOut'
    BY <1>0, <1>17 DEF IInv, TypeOK, CompletedNotTimedOut, ProgressCompletes, Complete
  <2> QED BY <2>1, <2>2, <2>3, <2>4, <2>5, <2>6, <2>7, <2>8 DEF IInv
<1>18. ASSUME NEW r \in 1..N, OtherCompletes(r) PROVE IInv'
  <2>a. /\ done \in SUBSET (1..N) /\ r \notin done /\ done' = done \cup {r}
        /\ done' \in SUBSET (1..N) /\ how_many \in Int /\ wait_count \in Int /\ how_many' = how_many
        /\ wait_count' = IF r \in shared THEN wait_count - 1 ELSE wait_count
        /\ shared' = shared
    BY <1>18 DEF IInv, TypeOK, OtherCompletes, Complete
  <2>b. /\ Cardinality(done) \in Nat /\ Cardinality(done') = Cardinality(done) + 1
        /\ Cardinality(done \cap shared) \in Nat
        /\ Cardinality(done' \cap shared) = IF r \in shared THEN Cardinality(done \cap shared) + 1
                                            ELSE Cardinality(done \cap shared)
    <3>1. CASE r \in shared
      <4>1. done' \cap shared = (done \cap shared) \cup {r} /\ r \notin done \cap shared
        BY <3>1, <2>a
      <4> QED BY <4>1, <3>1, <2>a, CardRequests
    <3>2. CASE r \notin shared
      <4>1. done' \cap shared = done \cap shared
        BY <3>2, <2>a
      <4> QED BY <4>1, <3>2, <2>a, CardRequests
    <3> QED BY <3>1, <3>2
  <2>1. TypeOK'
    BY <1>0, <1>18 DEF IInv, TypeOK, OtherCompletes, Complete
  <2>2. SharedExact'
    BY <1>0, <1>18 DEF IInv, TypeOK, SharedExact, First, Visit, OtherCompletes, Complete
  <2>3. CountExact'
    BY <2>a, <2>b, <1>18 DEF IInv, TypeOK, CountExact, OtherCompletes, Complete
  <2>4. PassExact'
    BY <2>a, <2>b, <1>18 DEF IInv, TypeOK, SharedExact, PassExact, OtherCompletes, Complete
  <2>5. TimeoutJustified'
    BY <1>0, <1>18 DEF IInv, TypeOK, TimeoutJustified, OtherCompletes, Complete
  <2>6. NoEndpointForgotten'
    BY <1>0, <1>18 DEF IInv, TypeOK, NoEndpointForgotten, OtherCompletes, Complete
  <2>7. ReturnsCompleted'
    BY <2>a, <2>b, <1>18 DEF IInv, TypeOK, ReturnsCompleted, OtherCompletes, Complete
  <2>8. CompletedNotTimedOut'
    BY <1>0, <1>18 DEF IInv, TypeOK, CompletedNotTimedOut, OtherCompletes, Complete
  <2> QED BY <2>1, <2>2, <2>3, <2>4, <2>5, <2>6, <2>7, <2>8 DEF IInv
<1>19. ASSUME NEW e \in Endpoints, OtherLeads(e) PROVE IInv'
  <2>1. TypeOK'
    BY <1>0, <1>19 DEF IInv, TypeOK, OtherLeads
  <2>2. SharedExact'
    BY <1>0, <1>19 DEF IInv, TypeOK, SharedExact, First, Visit, OtherLeads
  <2>3. CountExact'
    BY <1>0, <1>19 DEF IInv, TypeOK, CountExact, OtherLeads
  <2>4. PassExact'
    BY <1>0, <1>19 DEF IInv, TypeOK, PassExact, OtherLeads
  <2>5. TimeoutJustified'
    BY <1>0, <1>19 DEF IInv, TypeOK, TimeoutJustified, OtherLeads
  <2>6. NoEndpointForgotten'
    BY <1>0, <1>19 DEF IInv, TypeOK, NoEndpointForgotten, OtherLeads
  <2>7. ReturnsCompleted'
    BY <1>0, <1>19 DEF IInv, TypeOK, ReturnsCompleted, OtherLeads
  <2>8. CompletedNotTimedOut'
    BY <1>0, <1>19 DEF IInv, TypeOK, CompletedNotTimedOut, OtherLeads
  <2> QED BY <2>1, <2>2, <2>3, <2>4, <2>5, <2>6, <2>7, <2>8 DEF IInv
<1>20. ASSUME NEW e \in Endpoints, OtherLeaves(e) PROVE IInv'
  <2>1. TypeOK'
    BY <1>0, <1>20 DEF IInv, TypeOK, OtherLeaves
  <2>2. SharedExact'
    BY <1>0, <1>20 DEF IInv, TypeOK, SharedExact, First, Visit, OtherLeaves
  <2>3. CountExact'
    BY <1>0, <1>20 DEF IInv, TypeOK, CountExact, OtherLeaves
  <2>4. PassExact'
    BY <1>0, <1>20 DEF IInv, TypeOK, PassExact, OtherLeaves
  <2>5. TimeoutJustified'
    BY <1>0, <1>20 DEF IInv, TypeOK, TimeoutJustified, OtherLeaves
  <2>6. NoEndpointForgotten'
    BY <1>0, <1>20 DEF IInv, TypeOK, NoEndpointForgotten, OtherLeaves
  <2>7. ReturnsCompleted'
    BY <1>0, <1>20 DEF IInv, TypeOK, ReturnsCompleted, OtherLeaves
  <2>8. CompletedNotTimedOut'
    BY <1>0, <1>20 DEF IInv, TypeOK, CompletedNotTimedOut, OtherLeaves
  <2> QED BY <2>1, <2>2, <2>3, <2>4, <2>5, <2>6, <2>7, <2>8 DEF IInv
<1>21. ASSUME UNCHANGED vars PROVE IInv'
  <2>1. TypeOK'
    BY <1>0, <1>21 DEF IInv, TypeOK, vars, testVars, waitVars
  <2>2. SharedExact'
    BY <1>0, <1>21 DEF IInv, TypeOK, SharedExact, First, Visit, vars, testVars, waitVars
  <2>3. CountExact'
    BY <1>0, <1>21 DEF IInv, TypeOK, CountExact, vars, testVars, waitVars
  <2>4. PassExact'
    BY <1>0, <1>21 DEF IInv, TypeOK, PassExact, vars, testVars, waitVars
  <2>5. TimeoutJustified'
    BY <1>0, <1>21 DEF IInv, TypeOK, TimeoutJustified, vars, testVars, waitVars
  <2>6. NoEndpointForgotten'
    BY <1>0, <1>21 DEF IInv, TypeOK, NoEndpointForgotten, vars, testVars, waitVars
  <2>7. ReturnsCompleted'
    BY <1>0, <1>21 DEF IInv, TypeOK, ReturnsCompleted, vars, testVars, waitVars
  <2>8. CompletedNotTimedOut'
    BY <1>0, <1>21 DEF IInv, TypeOK, CompletedNotTimedOut, vars, testVars, waitVars
  <2> QED BY <2>1, <2>2, <2>3, <2>4, <2>5, <2>6, <2>7, <2>8 DEF IInv
<1> QED BY <1>1, <1>2, <1>3, <1>4, <1>5, <1>6, <1>7, <1>8, <1>9, <1>10, <1>11, <1>12, <1>13, <1>14, <1>15, <1>16, <1>17, <1>18, <1>19, <1>20, <1>21 DEF Next, Step, Test, TestStep

-----------------------------------------------------------------------------
(* Theorems.                                                               *)

\* No completion writes to the wait_struct of a call that has returned: wait_num
\* takes the pointer back from every request it gave it to, in whatever order
\* linear_counter makes it visit them.
THEOREM NoDanglingWaitInvariant == Spec => []NoDanglingWait
<1>1. IInv => NoDanglingWait
  BY DEF IInv, SharedExact, NoDanglingWait
<1> QED BY <1>1, InitIInv, StepIInv, PTL DEF Spec

\* The index wait_num returns is that of a completed request, and how_many
\* requests are completed, although the count is kept by other threads while
\* the array is still being set up.
THEOREM ReturnsCompletedInvariant == Spec => []ReturnsCompleted
<1>1. IInv => ReturnsCompleted
  BY DEF IInv, ReturnsCompleted
<1> QED BY <1>1, InitIInv, StepIInv, PTL DEF Spec

\* A request that completes while wait_num returns, or later, does not show
\* -LFI_TIMEOUT.
THEOREM CompletedNotTimedOutInvariant == Spec => []CompletedNotTimedOut
<1>1. IInv => CompletedNotTimedOut
  BY DEF IInv, CompletedNotTimedOut
<1> QED BY <1>1, InitIInv, StepIInv, PTL DEF Spec

\* test_num reports a timeout only when fewer than how_many requests were
\* completed when it began: the pass that stops early because too few are left
\* has counted right.
THEOREM TimeoutJustifiedInvariant == Spec => []TimeoutJustified
<1>1. IInv => TimeoutJustified
  BY DEF IInv, TimeoutJustified
<1> QED BY <1>1, InitIInv, StepIInv, PTL DEF Spec

\* test_num makes progress on every endpoint with an unfinished request, also
\* when its first pass stopped before it had seen them all.
THEOREM NoEndpointForgottenInvariant == Spec => []NoEndpointForgotten
<1>1. IInv => NoEndpointForgotten
  BY DEF IInv, NoEndpointForgotten
<1> QED BY <1>1, InitIInv, StepIInv, PTL DEF Spec

=============================================================================
