--------------------------- MODULE MCCollectives ---------------------------
(* Instances of Collectives for TLC.                                       *)
EXTENDS Collectives

Col(kind, root, op) == [kind |-> kind, root |-> root, op |-> op]

\* Every kind twice, neighbours of the same kind included; and a program that
\* only uses rank 0 as root.
Mixed == <<Col("barrier", 0, "NONE"), Col("allreduce", 0, "SUM"), Col("allreduce", 0, "MIN"),
           Col("broadcast", 1, "NONE"), Col("broadcast", 1, "NONE"), Col("broadcast", 2, "NONE"),
           Col("barrier", 0, "NONE"), Col("allreduce", 0, "PROD"), Col("allreduce", 0, "MAX")>>

Root0 == <<Col("barrier", 0, "NONE"), Col("broadcast", 0, "NONE"), Col("allreduce", 0, "SUM"),
           Col("broadcast", 0, "NONE"), Col("allreduce", 0, "MIN"), Col("barrier", 0, "NONE")>>

TwoPrograms == {Mixed, Root0}

\* Every rank passes a different value, and a rank another one to each call;
\* sums and products exceed the modulus 8.
Different == [k \in 1..9 |-> [r \in 0..2 |-> (7 - 2 * r + 3 * k) % 8]]

\* Three slots of one host, so that the processes compete for the coordination
\* port and for ranks; they all run there, or one of them runs on a host that is
\* not in the group or is not started.
OneHost == [r \in 0..2 |-> "a"]
Placements == {[p \in 1..3 |-> "a"], [p \in 1..3 |-> IF p = 2 THEN "c" ELSE "a"],
               [p \in 1..3 |-> IF p = 2 THEN None ELSE "a"]}

\* operate reduces the operands of these programs, in every order of acceptance.
ASSUME ReductionAssumption == OperateIsReduction
=============================================================================
