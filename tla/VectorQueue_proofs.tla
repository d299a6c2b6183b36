------------------------- MODULE VectorQueue_proofs -------------------------
(***************************************************************************)
(* The ring buffer implements the FIFO queue for every capacity, every set  *)
(* of items and any number of growths.                                      *)
(***************************************************************************)
EXTENDS VectorQueue, TLAPS

\* The inductive invariant.
IInv ==
  /\ TypeOK
  /\ TailFollowsCount
  /\ LiveSlotsWritten
  /\ ~in_loop => read_idx = 0 /\ write_idx = 0

\* The initial buffer satisfies the invariant.
LEMMA InitIInv == QInit => IInv
<1> SUFFICES ASSUME QInit PROVE IInv
  OBVIOUS
<1> USE QueueAssumption DEF QInit
<1>1. TypeOK
  <2>1. m_buffer \in [0..(cap - 1) -> Items \cup {Blank}] /\ cap \in Nat \ {0}
    OBVIOUS
  <2>2. m_head \in 0..(cap - 1) /\ m_tail \in 0..(cap - 1) /\ m_count \in 0..cap
    OBVIOUS
  <2>3. pred \in SUBSET Items /\ read_idx \in 0..m_count /\ write_idx \in 0..read_idx
    OBVIOUS
  <2> QED BY <2>1, <2>2, <2>3 DEF TypeOK
<1>2. TailFollowsCount
  BY DEF TailFollowsCount, Wrap
<1>3. LiveSlotsWritten
  <2>1. 0..(m_count - 1) = {}
    OBVIOUS
  <2> QED BY <2>1 DEF LiveSlotsWritten
<1> QED BY <1>1, <1>2, <1>3 DEF IInv

\* A logical offset inside the queue is a position of the buffer, and two
\* offsets share a position only if they are equal.
LEMMA WrapPosition ==
  ASSUME NEW size \in Nat \ {0}, NEW head \in 0..(size - 1),
         NEW i \in 0..(size - 1), NEW j \in 0..(size - 1)
  PROVE  /\ Wrap(head + i, size) \in 0..(size - 1)
         /\ Wrap(head + i, size) = Wrap(head + j, size) => i = j
  BY DEF Wrap

\* Every step keeps the invariant.
LEMMA IInvStep == IInv /\ [QNext]_qvars => IInv'
<1> SUFFICES ASSUME IInv, [QNext]_qvars PROVE IInv'
  OBVIOUS
<1> USE QueueAssumption DEF IInv, TypeOK, TailFollowsCount
<1>1. ASSUME NEW v \in Items, Push(v) PROVE IInv'
  <2>1. TypeOK' /\ TailFollowsCount'
    BY <1>1 DEF Push, Advance, Wrap
  <2>2. LiveSlotsWritten'
    BY <1>1 DEF Push, LiveSlotsWritten, Wrap
  <2> QED BY <1>1, <2>1, <2>2 DEF Push
<1>2. ASSUME NEW v \in Items, PushGrow(v) PROVE IInv'
  <2>0. m_tail = m_head /\ m_count = cap /\ ~in_loop
    BY <1>2 DEF PushGrow, Wrap
  <2>1. TypeOK'
    BY <1>2, <2>0 DEF PushGrow, Advance
  <2>2. TailFollowsCount'
    BY <1>2, <2>0 DEF PushGrow, Advance, Wrap
  <2>3. LiveSlotsWritten'
    <3>1. SUFFICES ASSUME NEW i \in 0..m_count
                   PROVE  m_buffer'[Wrap(m_head + i, 2 * cap)] \in Items
      <4>1. m_count' - 1 = m_count /\ cap' = 2 * cap /\ m_head' = m_head
        BY <1>2 DEF PushGrow
      <4> QED BY <3>1, <4>1 DEF LiveSlotsWritten
    <3>2. CASE i = m_count
      BY <1>2, <2>0, <3>2 DEF PushGrow, Wrap
    <3>3. CASE i < m_count /\ m_head + i < cap
      <4>1. m_buffer[m_head + i] \in Items
        BY <2>0, <3>3 DEF Wrap, LiveSlotsWritten
      <4> QED BY <1>2, <2>0, <3>3, <4>1 DEF PushGrow, Wrap
    <3>4. CASE i < m_count /\ m_head + i >= cap
      <4>1. m_buffer[m_head + i - cap] \in Items
        BY <2>0, <3>4 DEF Wrap, LiveSlotsWritten
      <4> QED BY <1>2, <2>0, <3>4, <4>1 DEF PushGrow, Wrap
    <3> QED BY <3>2, <3>3, <3>4
  <2> QED BY <1>2, <2>1, <2>2, <2>3 DEF PushGrow
<1>3. CASE Pop
  <2>1. TypeOK' /\ TailFollowsCount'
    BY <1>3 DEF Pop, Advance, Wrap
  <2>2. LiveSlotsWritten'
    <3>1. ASSUME NEW i \in 0..(m_count - 2)
          PROVE  Wrap(m_head' + i, cap) = Wrap(m_head + (i + 1), cap)
      BY <1>3 DEF Pop, Advance, Wrap
    <3>2. ASSUME NEW i \in 0..(m_count - 2)
          PROVE  m_buffer[Wrap(m_head' + i, cap)] \in Items
      <4>1. i + 1 \in 0..(m_count - 1)
        BY <1>3 DEF Pop
      <4> QED BY <3>1, <4>1 DEF LiveSlotsWritten
    <3>3. m_count' - 1 = m_count - 2 /\ cap' = cap /\ m_buffer' = m_buffer
      BY <1>3 DEF Pop
    <3> QED BY <3>2, <3>3 DEF LiveSlotsWritten
  <2> QED BY <1>3, <2>1, <2>2 DEF Pop
<1>4. ASSUME NEW P \in SUBSET Items, EraseBegin(P) PROVE IInv'
  BY <1>4 DEF EraseBegin, LiveSlotsWritten
<1>5. CASE EraseIterate
  <2>1. Wrap(m_head + read_idx, cap) \in 0..(cap - 1) /\ Wrap(m_head + write_idx, cap) \in 0..(cap - 1)
    BY <1>5 DEF EraseIterate, Wrap
  <2>2. m_buffer[Wrap(m_head + read_idx, cap)] \in Items
    BY <1>5 DEF EraseIterate, LiveSlotsWritten
  <2>3. TypeOK' /\ TailFollowsCount'
    BY <1>5, <2>1, <2>2 DEF EraseIterate
  <2>4. LiveSlotsWritten'
    <3>1. SUFFICES ASSUME NEW i \in 0..(m_count - 1)
                   PROVE  m_buffer'[Wrap(m_head + i, cap)] \in Items
      <4>1. m_count' = m_count /\ cap' = cap /\ m_head' = m_head
        BY <1>5 DEF EraseIterate
      <4> QED BY <3>1, <4>1 DEF LiveSlotsWritten
    <3>2. Wrap(m_head + i, cap) \in 0..(cap - 1)
      BY DEF Wrap
    <3>3. m_buffer[Wrap(m_head + i, cap)] \in Items
      BY DEF LiveSlotsWritten
    <3>4. m_buffer' = m_buffer \/ m_buffer' = [m_buffer EXCEPT
            ![Wrap(m_head + write_idx, cap)] = m_buffer[Wrap(m_head + read_idx, cap)]]
      BY <1>5 DEF EraseIterate
    <3>5. m_buffer \in [0..(cap - 1) -> Items \cup {Blank}]
      OBVIOUS
    <3> DEFINE w == Wrap(m_head + write_idx, cap)
               r == Wrap(m_head + read_idx, cap)
               p == Wrap(m_head + i, cap)
    <3> HIDE DEF w, r, p, IInv, TypeOK, TailFollowsCount
    <3>6. CASE m_buffer' = m_buffer
      BY <3>3, <3>6
    <3>7. CASE m_buffer' = [m_buffer EXCEPT ![w] = m_buffer[r]]
      BY <2>2, <3>2, <3>3, <3>5, <3>7 DEF w, r, p
    <3> QED BY <3>4, <3>6, <3>7 DEF w, r
  <2> QED BY <1>5, <2>3, <2>4 DEF EraseIterate
<1>6. CASE EraseEnd
  <2>1. TypeOK' /\ TailFollowsCount'
    <3>1. write_idx \in 0..m_count /\ m_head + write_idx \in 0..(2 * cap - 1)
      BY <1>6 DEF EraseEnd
    <3>2. Wrap(m_head + write_idx, cap) \in 0..(cap - 1)
      BY <3>1 DEF Wrap
    <3>3. m_count' \in 0..cap' /\ read_idx' \in 0..m_count' /\ write_idx' \in 0..read_idx'
      BY <1>6, <3>1 DEF EraseEnd
    <3>4. TypeOK'
      BY <1>6, <3>2, <3>3 DEF EraseEnd
    <3> QED BY <1>6, <3>4 DEF EraseEnd
  <2>2. LiveSlotsWritten'
    <3>1. \A i \in 0..(m_count' - 1) : i \in 0..(m_count - 1)
      BY <1>6 DEF EraseEnd
    <3>2. cap' = cap /\ m_head' = m_head /\ m_buffer' = m_buffer
      BY <1>6 DEF EraseEnd
    <3> QED BY <3>1, <3>2 DEF LiveSlotsWritten
  <2> QED BY <1>6, <2>1, <2>2 DEF EraseEnd
<1>7. CASE UNCHANGED qvars
  BY <1>7 DEF qvars, LiveSlotsWritten
<1> QED BY <1>1, <1>2, <1>3, <1>4, <1>5, <1>6, <1>7 DEF QNext

\* Positions stay inside the buffer, tail follows the count, and no slot of
\* the live range is uninitialised, for every capacity.
THEOREM RingBufferSafe == QSpec => [](TypeOK /\ TailFollowsCount /\ LiveSlotsWritten)
<1>1. IInv => TypeOK /\ TailFollowsCount /\ LiveSlotsWritten
  BY DEF IInv
<1> QED BY <1>1, InitIInv, IInvStep, PTL DEF QSpec

-----------------------------------------------------------------------------
(* Refinement.                                                             *)

\* A buffer of capacity c over S with n elements from h, r of them examined and
\* w of these kept by erase_if.
Shape(S, c, buf, h, n, r, w) ==
  /\ c \in Nat \ {0}
  /\ buf \in [0..(c - 1) -> S]
  /\ h \in 0..(c - 1)
  /\ n \in 0..c
  /\ r \in 0..n
  /\ w \in 0..r

\* b2 is buf with x written at position p.
Wrote(b2, buf, p, x) == b2 = [buf EXCEPT ![p] = x]

\* The content is a sequence, each element in a position of the buffer.
LEMMA ContentIsSeq ==
  ASSUME NEW S, NEW c, NEW buf, NEW h, NEW n, NEW r, NEW w, Shape(S, c, buf, h, n, r, w)
  PROVE  /\ ContentOf(buf, h, n, c, r, w) \in Seq(S)
         /\ Len(ContentOf(buf, h, n, c, r, w)) = w + (n - r)
         /\ \A i \in 1..(w + (n - r)) :
              /\ Pos(i, h, c, r, w) \in 0..(c - 1)
              /\ ContentOf(buf, h, n, c, r, w)[i] = buf[Pos(i, h, c, r, w)]
<1> USE DEF Shape
<1>1. w + (n - r) \in Nat
  OBVIOUS
<1>2. \A i \in 1..(w + (n - r)) : Pos(i, h, c, r, w) \in 0..(c - 1)
  BY DEF Pos, Wrap
<1> QED BY <1>1, <1>2 DEF ContentOf

\* Outside erase_if the content is the n elements from the head.
Idle(buf, h, n, c) == [i \in 1..n |-> buf[Wrap(h + i - 1, c)]]

LEMMA IdleContent ==
  ASSUME NEW c \in Nat, NEW buf, NEW h \in Nat, NEW n \in Nat
  PROVE  ContentOf(buf, h, n, c, 0, 0) = Idle(buf, h, n, c)
<1>1. 0 + (n - 0) = n
  OBVIOUS
<1>2. \A i \in 1..n : Pos(i, h, c, 0, 0) = Wrap(h + i - 1, c)
  BY DEF Pos
<1> QED BY <1>1, <1>2 DEF ContentOf, Idle

\* A function on 1..n is a sequence of length n.
LEMMA FunctionIsSeq ==
  ASSUME NEW S, NEW n \in Nat, NEW g \in [1..n -> S]
  PROVE  g \in Seq(S) /\ Len(g) = n
  OBVIOUS

\* What makes a function the result of Append.
LEMMA IsAppend ==
  ASSUME NEW S, NEW n \in Nat, NEW m \in Nat, m = n + 1, NEW v \in S,
         NEW s \in [1..n -> S], NEW t \in [1..m -> S],
         \A i \in 1..n : t[i] = s[i], t[m] = v
  PROVE  t = Append(s, v)
<1>1. s \in Seq(S) /\ Len(s) = n
  BY FunctionIsSeq
<1>2. t \in Seq(S) /\ Len(t) = n + 1
  BY FunctionIsSeq
<1> QED BY <1>1, <1>2

\* What makes a function the result of Tail.
LEMMA IsTail ==
  ASSUME NEW S, NEW n \in Nat \ {0}, NEW s \in [1..n -> S], NEW t \in [1..(n - 1) -> S],
         \A i \in 1..(n - 1) : t[i] = s[i + 1]
  PROVE  t = Tail(s)
<1>1. s \in Seq(S) /\ Len(s) = n /\ s # <<>>
  BY FunctionIsSeq
<1>2. t \in Seq(S) /\ Len(t) = n - 1
  <2>1. n - 1 \in Nat
    OBVIOUS
  <2> QED BY <2>1, FunctionIsSeq
<1> QED BY <1>1, <1>2

\* push appends at the end of the content.
LEMMA PushAppends ==
  ASSUME NEW S, NEW c, NEW buf, NEW h, NEW n, Shape(S, c, buf, h, n, 0, 0), n # c,
         NEW v \in S, NEW b2, Wrote(b2, buf, Wrap(h + n, c), v)
  PROVE  ContentOf(b2, h, n + 1, c, 0, 0) = Append(ContentOf(buf, h, n, c, 0, 0), v)
<1> USE DEF Shape
<1> DEFINE T == Wrap(h + n, c)
           m == n + 1
           new == ContentOf(b2, h, m, c, 0, 0)
           old == ContentOf(buf, h, n, c, 0, 0)
<1>1. T \in 0..(c - 1) /\ b2 \in [0..(c - 1) -> S] /\ n \in 0..c /\ m \in 0..c
  BY DEF Wrap, Wrote
<1>2. b2[T] = v /\ \A p \in 0..(c - 1) : p # T => b2[p] = buf[p]
  BY <1>1 DEF Wrote
<1>3. \A i \in 1..n : Wrap(h + i - 1, c) # T
  BY DEF Wrap
<1>4. Wrap(h + m - 1, c) = T
  OBVIOUS
<1>5. new = Idle(b2, h, m, c) /\ old = Idle(buf, h, n, c)
  BY IdleContent
<1> HIDE DEF T, m, new, old
<1>6. /\ old \in [1..n -> S]
      /\ \A i \in 1..n : Wrap(h + i - 1, c) \in 0..(c - 1) /\ old[i] = buf[Wrap(h + i - 1, c)]
  BY <1>1, <1>5 DEF Idle, Wrap
<1>7. /\ new \in [1..m -> S]
       /\ \A i \in 1..m : new[i] = b2[Wrap(h + i - 1, c)]
  BY <1>1, <1>5 DEF Idle, Wrap
<1>8. new[m] = v
  BY <1>2, <1>4, <1>7 DEF m
<1>9. \A i \in 1..n : new[i] = old[i]
  <2>1. ASSUME NEW i \in 1..n
        PROVE  new[i] = b2[Wrap(h + i - 1, c)]
    BY <1>7 DEF m
  <2> QED BY <1>2, <1>3, <1>6, <2>1
<1>10. new = Append(old, v)
  <2>1. n \in Nat /\ m \in Nat /\ m = n + 1
    BY DEF m
  <2>2. old \in [1..n -> S] /\ new \in [1..m -> S]
    BY <1>6, <1>7
  <2> QED BY <2>1, <2>2, <1>8, <1>9, IsAppend
<1> QED BY <1>10 DEF new, old, m

\* b2 is what push makes of the full buffer buf with head h.
Grown(b2, buf, h, c, v) ==
  /\ \A i \in 0..(c - 1) : b2[i] = buf[i]
  /\ \A i \in c..(c + h - 1) : b2[i] = buf[i - c]
  /\ b2[c + h] = v

\* push on a full buffer appends too: the growth keeps the content.
LEMMA GrowAppends ==
  ASSUME NEW S, NEW c, NEW buf, NEW h, Shape(S, c, buf, h, c, 0, 0), NEW v \in S,
         NEW b2 \in [0..(2 * c - 1) -> S], Grown(b2, buf, h, c, v)
  PROVE  ContentOf(b2, h, c + 1, 2 * c, 0, 0) = Append(ContentOf(buf, h, c, c, 0, 0), v)
<1> USE DEF Shape
<1> DEFINE m == c + 1
           d == 2 * c
           new == ContentOf(b2, h, m, d, 0, 0)
           old == ContentOf(buf, h, c, c, 0, 0)
<1>1. new = Idle(b2, h, m, d) /\ old = Idle(buf, h, c, c)
  BY IdleContent
<1>2. \A i \in 1..m : Wrap(h + i - 1, d) = h + i - 1 /\ h + i - 1 \in 0..(d - 1)
  BY DEF Wrap
<1> HIDE DEF new, old
<1>3. /\ old \in [1..c -> S]
      /\ \A i \in 1..c : Wrap(h + i - 1, c) \in 0..(c - 1) /\ old[i] = buf[Wrap(h + i - 1, c)]
  BY <1>1 DEF Idle, Wrap
<1>4. /\ new \in [1..m -> S]
      /\ \A i \in 1..m : new[i] = b2[h + i - 1]
  BY <1>1, <1>2 DEF Idle
<1>5. new[m] = v
  BY <1>4 DEF Grown
<1>6. \A i \in 1..c : new[i] = old[i]
  <2> SUFFICES ASSUME NEW i \in 1..c PROVE new[i] = old[i]
    OBVIOUS
  <2>1. new[i] = b2[h + i - 1] /\ old[i] = buf[Wrap(h + i - 1, c)]
    BY <1>3, <1>4
  <2>2. CASE h + i - 1 < c
    BY <2>1, <2>2 DEF Wrap, Grown
  <2>3. CASE h + i - 1 >= c
    BY <2>1, <2>3 DEF Wrap, Grown
  <2> QED BY <2>2, <2>3
<1>7. new = Append(old, v)
  <2>1. c \in Nat /\ m \in Nat /\ m = c + 1
    OBVIOUS
  <2>2. old \in [1..c -> S] /\ new \in [1..m -> S] /\ new[m] = v
    BY <1>3, <1>4, <1>5
  <2> HIDE DEF m, d
  <2> QED BY <2>1, <2>2, <1>6, IsAppend
<1> QED BY <1>7 DEF new, old

\* pop removes the first element of the content.
LEMMA PopIsTail ==
  ASSUME NEW S, NEW c \in Nat \ {0}, NEW buf \in [0..(c - 1) -> S], NEW h \in 0..(c - 1),
         NEW n \in 1..c
  PROVE  ContentOf(buf, Advance(h, c), n - 1, c, 0, 0) = Tail(ContentOf(buf, h, n, c, 0, 0))
<1> DEFINE m == n - 1
           g == Advance(h, c)
           new == ContentOf(buf, g, m, c, 0, 0)
           old == ContentOf(buf, h, n, c, 0, 0)
<1>1. g \in Nat /\ m \in Nat /\ n \in Nat \ {0}
  BY DEF Advance
<1>2. \A i \in 1..m : Wrap(g + i - 1, c) = Wrap(h + (i + 1) - 1, c)
  BY DEF Advance, Wrap
<1>3. m = n - 1
  OBVIOUS
<1> HIDE DEF g, m
<1>4. new = Idle(buf, g, m, c) /\ old = Idle(buf, h, n, c)
  BY <1>1, IdleContent
<1> HIDE DEF new, old
<1>5. /\ old \in [1..n -> S]
      /\ \A i \in 1..n : old[i] = buf[Wrap(h + i - 1, c)] /\ buf[Wrap(h + i - 1, c)] \in S
  BY <1>4 DEF Idle, Wrap
<1>6. \A i \in 1..m : buf[Wrap(g + i - 1, c)] = old[i + 1] /\ old[i + 1] \in S
  BY <1>1, <1>2, <1>3, <1>5
<1>7. /\ new \in [1..m -> S]
      /\ \A i \in 1..m : new[i] = old[i + 1]
  BY <1>4, <1>6 DEF Idle
<1>8. new = Tail(old)
  BY <1>1, <1>3, <1>5, <1>7, IsTail
<1> QED BY <1>8 DEF new, old, g, m

\* An iteration of erase_if that keeps the element does not change the content.
LEMMA KeepKeepsContent ==
  ASSUME NEW S, NEW c, NEW buf, NEW h, NEW n, NEW r, NEW w, Shape(S, c, buf, h, n, r, w),
         r # n, NEW b2, Wrote(b2, buf, Wrap(h + w, c), buf[Wrap(h + r, c)])
  PROVE  ContentOf(b2, h, n, c, r + 1, w + 1) = ContentOf(buf, h, n, c, r, w)
<1> USE DEF Shape, Wrote
<1> DEFINE len == w + (n - r)
<1>1. (w + 1) + (n - (r + 1)) = len /\ len \in Nat
  OBVIOUS
<1>2. /\ Wrap(h + w, c) \in 0..(c - 1)
      /\ Wrap(h + r, c) \in 0..(c - 1)
  BY DEF Wrap
<1>3. ASSUME NEW i \in 1..len
      PROVE  b2[Pos(i, h, c, r + 1, w + 1)] = buf[Pos(i, h, c, r, w)]
  <2>1. CASE i = w + 1
    <3>1. Pos(i, h, c, r + 1, w + 1) = Wrap(h + w, c) /\ Pos(i, h, c, r, w) = Wrap(h + r, c)
      BY <2>1 DEF Pos
    <3> QED BY <3>1, <1>2
  <2>2. CASE i # w + 1
    <3>1. Pos(i, h, c, r + 1, w + 1) = Pos(i, h, c, r, w)
      BY <2>2 DEF Pos
    <3>2. Pos(i, h, c, r, w) \in 0..(c - 1) /\ Pos(i, h, c, r, w) # Wrap(h + w, c)
      BY <2>2 DEF Pos, Wrap
    <3> QED BY <3>1, <3>2
  <2> QED BY <2>1, <2>2
<1> HIDE DEF Wrote
<1>4. ContentOf(b2, h, n, c, r + 1, w + 1) = [i \in 1..len |-> b2[Pos(i, h, c, r + 1, w + 1)]]
  BY <1>1 DEF ContentOf
<1>5. ContentOf(buf, h, n, c, r, w) = [i \in 1..len |-> buf[Pos(i, h, c, r, w)]]
  BY DEF ContentOf
<1> QED BY <1>3, <1>4, <1>5

\* The first len elements of q when its element k + 1 is left out.
Without(q, k, len) == [i \in 1..len |-> IF i <= k THEN q[i] ELSE q[i + 1]]

\* An iteration of erase_if that does not keep the element drops it from the
\* content.
LEMMA DropDropsOne ==
  ASSUME NEW S, NEW c, NEW buf, NEW h, NEW n, NEW r, NEW w, Shape(S, c, buf, h, n, r, w),
         r # n, NEW q, q = ContentOf(buf, h, n, c, r, w)
  PROVE  ContentOf(buf, h, n, c, r + 1, w) = Without(q, w, (w + (n - r)) - 1)
<1> USE DEF Shape
<1> DEFINE len == (w + (n - r)) - 1
<1>1. w + (n - (r + 1)) = len
  OBVIOUS
<1>2. ASSUME NEW i \in 1..len
      PROVE  buf[Pos(i, h, c, r + 1, w)] = IF i <= w THEN q[i] ELSE q[i + 1]
  <2>1. CASE i <= w
    <3>1. Pos(i, h, c, r + 1, w) = Pos(i, h, c, r, w) /\ i \in 1..(w + (n - r))
      BY <2>1 DEF Pos
    <3>2. q[i] = buf[Pos(i, h, c, r, w)]
      BY <3>1 DEF ContentOf
    <3> QED BY <2>1, <3>1, <3>2
  <2>2. CASE ~(i <= w)
    <3>1. Pos(i, h, c, r + 1, w) = Pos(i + 1, h, c, r, w) /\ i + 1 \in 1..(w + (n - r))
      BY <2>2 DEF Pos
    <3>2. q[i + 1] = buf[Pos(i + 1, h, c, r, w)]
      BY <3>1 DEF ContentOf
    <3> QED BY <2>2, <3>1, <3>2
  <2> QED BY <2>1, <2>2
<1>3. ContentOf(buf, h, n, c, r + 1, w) = [i \in 1..len |-> buf[Pos(i, h, c, r + 1, w)]]
  BY <1>1 DEF ContentOf
<1> QED BY <1>2, <1>3 DEF Without

\* The content is a sequence whose length the counters give.
LEMMA ContentLength ==
  ASSUME IInv
  PROVE  /\ Content \in Seq(Items \cup {Blank})
         /\ Len(Content) = write_idx + (m_count - read_idx)
         /\ ~in_loop => Len(Content) = m_count /\ (m_count > 0 => Content # <<>>)
<1>1. /\ Content \in Seq(Items \cup {Blank})
      /\ Len(Content) = write_idx + (m_count - read_idx)
  <2> DEFINE S == Items \cup {Blank}
  <2>1. Shape(S, cap, m_buffer, m_head, m_count, read_idx, write_idx)
    BY DEF IInv, TypeOK, Shape
  <2> HIDE DEF S
  <2>2. Content \in Seq(S) /\ Len(Content) = write_idx + (m_count - read_idx)
    BY <2>1, ContentIsSeq DEF Content
  <2> QED BY <2>2 DEF S
<1> QED BY <1>1 DEF IInv, TypeOK

\* Every step of the ring buffer is a step of the FIFO queue.
LEMMA StepRefines == IInv /\ [QNext]_qvars => [F!FNext]_(F!fvars)
<1> SUFFICES ASSUME IInv, [QNext]_qvars PROVE [F!FNext]_(F!fvars)
  OBVIOUS
<1> DEFINE S == Items \cup {Blank}
<1>a. /\ cap \in Nat \ {0} /\ m_buffer \in [0..(cap - 1) -> S] /\ m_head \in 0..(cap - 1)
      /\ m_count \in 0..cap /\ read_idx \in 0..m_count /\ write_idx \in 0..read_idx
      /\ m_tail = Wrap(m_head + m_count, cap) /\ m_tail \in 0..(cap - 1)
      /\ ~in_loop => read_idx = 0 /\ write_idx = 0
  BY DEF IInv, TypeOK, TailFollowsCount
<1>b. Shape(S, cap, m_buffer, m_head, m_count, read_idx, write_idx)
  BY <1>a DEF Shape
<1> HIDE DEF S
<1>1. ASSUME NEW v \in Items, Push(v) PROVE F!FPush(v)
  <2>1. v \in S /\ m_count \in 0..(cap - 1) /\ read_idx = 0 /\ write_idx = 0
    BY <1>1, <1>a DEF Push, S
  <2>2. Wrote(m_buffer', m_buffer, Wrap(m_head + m_count, cap), v)
    BY <1>1, <1>a DEF Push, Wrote
  <2>3. Content' = ContentOf(m_buffer', m_head, m_count + 1, cap, 0, 0)
    BY <1>1, <2>1 DEF Push, Content
  <2>4. Content = ContentOf(m_buffer, m_head, m_count, cap, 0, 0)
    BY <2>1 DEF Content
  <2>5. Shape(S, cap, m_buffer, m_head, m_count, 0, 0) /\ m_count # cap
    BY <1>b, <1>1, <2>1 DEF Push
  <2>6. Content' = Append(Content, v)
    BY <2>1, <2>2, <2>3, <2>4, <2>5, PushAppends
  <2> QED BY <1>1, <2>6 DEF Push, F!FPush
<1>2. ASSUME NEW v \in Items, PushGrow(v) PROVE F!FPush(v)
  <2>1. v \in S /\ m_count = cap /\ m_tail = m_head /\ read_idx = 0 /\ write_idx = 0
    BY <1>2, <1>a DEF PushGrow, S, Wrap
  <2>2. m_buffer' \in [0..(2 * cap - 1) -> S]
    BY <1>2, <1>a, <2>1 DEF PushGrow, S
  <2>3. Grown(m_buffer', m_buffer, m_head, cap, v)
    BY <1>2, <1>a, <2>1 DEF PushGrow, Grown
  <2>4. Content' = ContentOf(m_buffer', m_head, cap + 1, 2 * cap, 0, 0)
    BY <1>2, <2>1 DEF PushGrow, Content
  <2>5. Content = ContentOf(m_buffer, m_head, cap, cap, 0, 0)
    BY <2>1 DEF Content
  <2>6. Content' = Append(Content, v)
    <3>1. Shape(S, cap, m_buffer, m_head, cap, 0, 0)
      BY <1>b, <2>1
    <3> QED BY <3>1, <2>1, <2>2, <2>3, <2>4, <2>5, GrowAppends
  <2> QED BY <1>2, <2>6 DEF PushGrow, F!FPush
<1>3. CASE Pop
  <2>1. m_count \in 1..cap /\ read_idx = 0 /\ write_idx = 0 /\ ~in_loop
    BY <1>3, <1>a DEF Pop
  <2>2. Content' = ContentOf(m_buffer, Advance(m_head, cap), m_count - 1, cap, 0, 0)
    BY <1>3, <2>1 DEF Pop, Content
  <2>3. Content = ContentOf(m_buffer, m_head, m_count, cap, 0, 0)
    BY <2>1 DEF Content
  <2>4. Content' = Tail(Content)
    BY <1>a, <2>1, <2>2, <2>3, PopIsTail
  <2>5. Content # <<>>
    BY <2>1, ContentLength
  <2>6. F!FPop
    BY <1>3, <2>4, <2>5 DEF Pop, F!FPop
  <2> QED BY <2>6 DEF F!FNext
<1>4. ASSUME NEW P \in SUBSET Items, EraseBegin(P) PROVE F!FEraseBegin(P)
  <2>1. Content' = Content
    BY <1>4, <1>a DEF EraseBegin, Content
  <2> QED BY <1>4, <2>1 DEF EraseBegin, F!FEraseBegin
<1>5. CASE EraseIterate
  <2>1. /\ in_loop /\ in_loop' /\ read_idx \in 0..(m_count - 1) /\ read_idx # m_count
        /\ Len(Content) = write_idx + (m_count - read_idx)
    BY <1>5, <1>a, ContentLength DEF EraseIterate
  <2>2. Content[write_idx + 1] = m_buffer[Wrap(m_head + read_idx, cap)]
    BY <1>a, <2>1 DEF Content, ContentOf, Pos
  <2>3. CASE m_buffer[Wrap(m_head + read_idx, cap)] \in pred
    <3>1. Content' = ContentOf(m_buffer, m_head, m_count, cap, read_idx + 1, write_idx)
      BY <1>5, <2>3 DEF EraseIterate, Content
    <3>2. Content' = Without(Content, write_idx, (write_idx + (m_count - read_idx)) - 1)
      BY <1>b, <2>1, <3>1, DropDropsOne DEF Content
    <3>3. Content' = Without(Content, write_idx, Len(Content) - 1)
      BY <2>1, <3>2
    <3>4. write_idx < Len(Content) /\ Content[write_idx + 1] \in pred
      BY <1>a, <2>1, <2>2, <2>3
    <3>5. F!FDrop
      BY <1>5, <2>1, <2>3, <3>3, <3>4 DEF EraseIterate, F!FDrop, Without
    <3> QED BY <3>5 DEF F!FNext
  <2>4. CASE m_buffer[Wrap(m_head + read_idx, cap)] \notin pred
    <3>1. Wrote(m_buffer', m_buffer, Wrap(m_head + write_idx, cap),
                m_buffer[Wrap(m_head + read_idx, cap)])
      BY <1>5, <1>a, <2>4 DEF EraseIterate, Wrote
    <3>2. Content' = Content
      <4>1. Content' = ContentOf(m_buffer', m_head, m_count, cap, read_idx + 1, write_idx + 1)
        BY <1>5, <2>4 DEF EraseIterate, Content
      <4> QED BY <1>b, <2>1, <3>1, <4>1, KeepKeepsContent DEF Content
    <3>3. F!FKeep
      BY <1>5, <1>a, <2>1, <2>2, <2>4, <3>2 DEF EraseIterate, F!FKeep
    <3> QED BY <3>3 DEF F!FNext
  <2> QED BY <2>3, <2>4
<1>6. CASE EraseEnd
  <2>1. Content' = Content
    <3>1. write_idx + (m_count - read_idx) = write_idx /\ 0 + (write_idx - 0) = write_idx
      BY <1>6, <1>a DEF EraseEnd
    <3>2. \A i \in 1..write_idx :
            Pos(i, m_head, cap, read_idx, write_idx) = Pos(i, m_head, cap, 0, 0)
      BY <1>a DEF Pos
    <3>3. Content = [i \in 1..write_idx |-> m_buffer[Pos(i, m_head, cap, read_idx, write_idx)]]
      BY <3>1 DEF Content, ContentOf
    <3>4. Content' = [i \in 1..write_idx |-> m_buffer[Pos(i, m_head, cap, 0, 0)]]
      BY <1>6, <3>1 DEF EraseEnd, Content, ContentOf
    <3> QED BY <3>2, <3>3, <3>4
  <2>2. write_idx = Len(Content)
    BY <1>6, <1>a, ContentLength DEF EraseEnd
  <2>3. F!FEraseEnd
    BY <1>6, <2>1, <2>2 DEF EraseEnd, F!FEraseEnd
  <2> QED BY <2>3 DEF F!FNext
<1>7. CASE UNCHANGED qvars
  BY <1>7 DEF qvars, F!fvars, Content
<1> QED BY <1>1, <1>2, <1>3, <1>4, <1>5, <1>6, <1>7 DEF QNext, F!FNext

\* The ring buffer implements the FIFO queue: no pushed operation is lost,
\* duplicated or overtaken, and erase_if removes what its predicate selects and
\* nothing else, through wrap-around and growth, for every capacity.
THEOREM RingBufferIsFifo == QSpec => ImplementsFifo
<1>1. QInit => F!FInit
  BY QueueAssumption DEF QInit, F!FInit, Content, ContentOf
<1> QED BY <1>1, InitIInv, IInvStep, StepRefines, PTL DEF QSpec, ImplementsFifo, F!FSpec
=============================================================================
