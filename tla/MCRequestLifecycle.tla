------------------------- MODULE MCRequestLifecycle -------------------------
(* Four workloads on two requests.                                         *)
EXTENDS RequestLifecycle, TLC

CONSTANTS t1, t2, r1, r2

\* One thread sends and injects, cancels and uses r1 again.
Cancelling ==
  [threads |-> {t1}, owner |-> [r \in Requests |-> t1], cancellers |-> {t1},
   types |-> {"SEND", "INJECT"}, errors |-> TRUE, entries |-> 1, posts |-> (r1 :> 2 @@ r2 :> 1)]

\* Two threads use both requests twice, for every kind of operation.
Sharing ==
  [threads |-> {t1, t2}, owner |-> (r1 :> t1 @@ r2 :> t2), cancellers |-> {},
   types |-> Types, errors |-> TRUE, entries |-> 2, posts |-> [r \in Requests |-> 2]]

\* One thread posts and cancels while the other one may be the leader that
\* completes what it cancels: r1 used again, or r1 beside r2.
Racing(types, posts) ==
  [threads |-> {t1, t2}, owner |-> [r \in Requests |-> t1], cancellers |-> {t1},
   types |-> types, errors |-> TRUE, entries |-> 1, posts |-> posts]

RacingReuse == Racing({"RECV", "INJECT"}, r1 :> 2 @@ r2 :> 0)

AllWorkloads ==
  {Cancelling, Sharing, RacingReuse, Racing({"RECV"}, r1 :> 1 @@ r2 :> 1)}
OneRequestReused == {RacingReuse}

ContextSymmetry == Permutations(Contexts)
=============================================================================
