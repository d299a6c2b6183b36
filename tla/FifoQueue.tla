----------------------------- MODULE FifoQueue -----------------------------
(***************************************************************************)
(* What a pending-operation queue promises to lfi_endpoint: operations are  *)
(* posted in the order they were pushed, and erase_if removes the           *)
(* operations its predicate selects, no other, without reordering the rest. *)
(* erase_if is a scan, so the abstract queue has a scan position too: an    *)
(* element is examined once, and either kept or dropped.                    *)
(***************************************************************************)
EXTENDS Naturals, Sequences

CONSTANT Items   \* the values stored (lfi_pending_op)

VARIABLES
  queue,    \* front first
  victims,  \* the items the running erase_if drops
  kept,     \* elements the running erase_if has examined and kept
  erasing   \* an erase_if is running

fvars == <<queue, victims, kept, erasing>>

FInit ==
  /\ queue = <<>>
  /\ victims = {}
  /\ kept = 0
  /\ erasing = FALSE

FPush(v) ==
  /\ ~erasing
  /\ queue' = Append(queue, v)
  /\ UNCHANGED <<victims, kept, erasing>>

FPop ==
  /\ ~erasing
  /\ queue # <<>>
  /\ queue' = Tail(queue)
  /\ UNCHANGED <<victims, kept, erasing>>

FEraseBegin(P) ==
  /\ ~erasing
  /\ erasing' = TRUE
  /\ victims' = P
  /\ kept' = 0
  /\ UNCHANGED queue

FKeep ==
  /\ erasing
  /\ kept < Len(queue)
  /\ queue[kept + 1] \notin victims
  /\ kept' = kept + 1
  /\ UNCHANGED <<queue, victims, erasing>>

FDrop ==
  /\ erasing
  /\ kept < Len(queue)
  /\ queue[kept + 1] \in victims
  /\ queue' = [i \in 1..(Len(queue) - 1) |-> IF i <= kept THEN queue[i] ELSE queue[i + 1]]
  /\ UNCHANGED <<victims, kept, erasing>>

FEraseEnd ==
  /\ erasing
  /\ kept = Len(queue)
  /\ erasing' = FALSE
  /\ victims' = {}
  /\ kept' = 0
  /\ UNCHANGED queue

FNext ==
  \/ \E v \in Items : FPush(v)
  \/ FPop
  \/ \E P \in SUBSET Items : FEraseBegin(P)
  \/ FKeep \/ FDrop \/ FEraseEnd

FSpec == FInit /\ [][FNext]_fvars
=============================================================================
