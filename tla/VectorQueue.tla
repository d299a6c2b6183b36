---------------------------- MODULE VectorQueue ----------------------------
(***************************************************************************)
(* The growing ring buffer behind lfi_endpoint::pending_ops and             *)
(* priority_ops (include/impl/vector_queue.hpp).  push and pop are one step *)
(* each; erase_if is one step per iteration of its loop, so that what the   *)
(* buffer holds half-way through the compaction is a state.  All calls are  *)
(* made under pending_ops_mutex, so nothing interleaves with a loop.        *)
(***************************************************************************)
EXTENDS Naturals, Sequences

CONSTANTS
  Items,        \* the values stored (lfi_pending_op)
  Blank,        \* a slot no push has written (value-initialised by the vector)
  InitCap,      \* VectorQueue(cap): 64 in the code
  MaxCap        \* bound: push stops when a resize would exceed it

ASSUME QueueAssumption ==
  /\ InitCap \in Nat \ {0}
  /\ MaxCap \in Nat
  /\ Blank \notin Items

VARIABLES
  m_buffer,     \* [0..cap-1 -> Items \cup {Blank}]
  m_head, m_tail, m_count,
  cap,          \* m_buffer.size()
  pred,         \* the items the running erase_if's predicate selects
  read_idx, write_idx,
  in_loop       \* the loop of erase_if is running

qvars == <<m_buffer, m_head, m_tail, m_count, cap, pred, read_idx, write_idx, in_loop>>

QInit ==
  /\ cap = InitCap
  /\ m_buffer = [i \in 0..(InitCap - 1) |-> Blank]
  /\ m_head = 0 /\ m_tail = 0 /\ m_count = 0
  /\ pred = {} /\ read_idx = 0 /\ write_idx = 0 /\ in_loop = FALSE

\* Physical position of a logical offset (a conditional subtraction, no modulo).
Wrap(sum, size) == IF sum >= size THEN sum - size ELSE sum

\* Successor of a position.
Advance(i, size) == IF i + 1 = size THEN 0 ELSE i + 1

\* push on a full buffer: the vector doubles, and when the content wraps the
\* block in front of head moves behind the old end.
PushGrow(v) ==
  LET wrapped == m_tail <= m_head
      grown == [i \in 0..(2 * cap - 1) |->
                  IF i < cap THEN m_buffer[i]
                  ELSE IF wrapped /\ i < cap + m_tail THEN m_buffer[i - cap] ELSE Blank]
      tail == IF wrapped THEN cap + m_tail ELSE m_tail
  IN  /\ ~in_loop
      /\ m_count = cap
      /\ 2 * cap <= MaxCap
      /\ cap' = 2 * cap
      /\ m_buffer' = [grown EXCEPT ![tail] = v]
      /\ m_tail' = Advance(tail, 2 * cap)
      /\ m_count' = m_count + 1
      /\ UNCHANGED <<m_head, pred, read_idx, write_idx, in_loop>>

Push(v) ==
  /\ ~in_loop
  /\ m_count # cap
  /\ m_buffer' = [m_buffer EXCEPT ![m_tail] = v]
  /\ m_tail' = Advance(m_tail, cap)
  /\ m_count' = m_count + 1
  /\ UNCHANGED <<m_head, cap, pred, read_idx, write_idx, in_loop>>

\* front() and pop() of the posting loop; pop of an empty queue does nothing.
Pop ==
  /\ ~in_loop
  /\ m_count > 0
  /\ m_head' = Advance(m_head, cap)
  /\ m_count' = m_count - 1
  /\ UNCHANGED <<m_buffer, m_tail, cap, pred, read_idx, write_idx, in_loop>>

EraseBegin(P) ==
  /\ ~in_loop
  /\ m_count > 0
  /\ in_loop' = TRUE
  /\ pred' = P
  /\ read_idx' = 0
  /\ write_idx' = 0
  /\ UNCHANGED <<m_buffer, m_head, m_tail, m_count, cap>>

\* Mutant: a kept element stays where it is.
EraseIterateNoShift ==
  /\ in_loop /\ read_idx < m_count
  /\ write_idx' = write_idx + (IF m_buffer[Wrap(m_head + read_idx, cap)] \in pred THEN 0 ELSE 1)
  /\ read_idx' = read_idx + 1
  /\ UNCHANGED <<m_buffer, m_head, m_tail, m_count, cap, pred, in_loop>>

\* One iteration: a kept element slides down over the gap.
EraseIterate ==
  LET current_pos == Wrap(m_head + read_idx, cap)
      target_pos == Wrap(m_head + write_idx, cap)
  IN  /\ in_loop
      /\ read_idx < m_count
      /\ \/ /\ m_buffer[current_pos] \in pred
            /\ UNCHANGED <<m_buffer, write_idx>>
         \/ /\ m_buffer[current_pos] \notin pred
            /\ m_buffer' = IF write_idx # read_idx
                           THEN [m_buffer EXCEPT ![target_pos] = m_buffer[current_pos]]
                           ELSE m_buffer
            /\ write_idx' = write_idx + 1
      /\ read_idx' = read_idx + 1
      /\ UNCHANGED <<m_head, m_tail, m_count, cap, pred, in_loop>>

EraseEnd ==
  /\ in_loop
  /\ read_idx = m_count
  /\ m_count' = write_idx
  /\ m_tail' = Wrap(m_head + write_idx, cap)
  /\ in_loop' = FALSE
  /\ pred' = {}
  /\ read_idx' = 0
  /\ write_idx' = 0
  /\ UNCHANGED <<m_buffer, m_head, cap>>

QNext ==
  \/ \E v \in Items : Push(v) \/ PushGrow(v)
  \/ Pop
  \/ \E P \in SUBSET Items : EraseBegin(P)
  \/ EraseIterate
  \/ EraseEnd

QSpec == QInit /\ [][QNext]_qvars

-----------------------------------------------------------------------------
(* Properties.                                                             *)

\* Type correctness; positions are inside the buffer.
TypeOK ==
  /\ cap \in Nat \ {0}
  /\ m_buffer \in [0..(cap - 1) -> Items \cup {Blank}]
  /\ m_head \in 0..(cap - 1)
  /\ m_tail \in 0..(cap - 1)
  /\ m_count \in 0..cap
  /\ pred \in SUBSET Items
  /\ read_idx \in 0..m_count
  /\ write_idx \in 0..read_idx
  /\ in_loop \in BOOLEAN

\* tail is always m_count slots after head, whatever mix of growth, wrap-around
\* and compaction led here: push never overwrites a queued operation and never
\* leaves a gap (push, erase_if).
TailFollowsCount == m_tail = Wrap(m_head + m_count, cap)

\* No slot of the live range is one that no push wrote: front() and the scan
\* of erase_if never read an uninitialised lfi_pending_op.
LiveSlotsWritten ==
  \A i \in 0..(m_count - 1) : m_buffer[Wrap(m_head + i, cap)] \in Items

\* Position of the i-th element of the content: the first w elements are those
\* erase_if has kept, the rest are those it has not examined yet.
Pos(i, h, c, r, w) == Wrap(h + (IF i <= w THEN i ELSE i + (r - w)) - 1, c)

\* The content of a buffer buf of capacity c with n elements from position h.
ContentOf(buf, h, n, c, r, w) == [i \in 1..(w + (n - r)) |-> buf[Pos(i, h, c, r, w)]]

Content == ContentOf(m_buffer, m_head, m_count, cap, read_idx, write_idx)

F == INSTANCE FifoQueue WITH queue <- Content, victims <- pred, kept <- write_idx,
                             erasing <- in_loop

\* The ring buffer implements the abstract FIFO queue.
ImplementsFifo == F!FSpec
=============================================================================
