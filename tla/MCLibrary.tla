----------------------------- MODULE MCLibrary -----------------------------
(* Collectives, Resources and VectorQueue for TLC.  The three share no      *)
(* state, so a behaviour here is one of one of them, chosen at the start;   *)
(* the other two stay in one initial state, the group in one in which a     *)
(* process is missing.                                                      *)
EXTENDS MCCollectives, Resources, VectorQueue

VARIABLE part

LibraryInit ==
  /\ Init /\ RInit /\ QInit
  /\ part \in {"collectives", "resources", "queue"}
  /\ part # "collectives" => Program = Root0 /\ host[2] = None /\ rendezvous = {}
  /\ part # "resources" => conf = [shm |-> FALSE, ft |-> FALSE, verbs |-> FALSE]

LibraryNext ==
  \/ part = "collectives" /\ Next /\ UNCHANGED <<part, rvars, qvars>>
  \/ part = "resources" /\ RNext /\ UNCHANGED <<part, vars, qvars>>
  \/ part = "queue" /\ QNext /\ UNCHANGED <<part, vars, rvars>>

LibrarySpec ==
  /\ LibraryInit /\ [][LibraryNext]_<<part, vars, rvars, qvars>>
  /\ WF_vars(part = "collectives" /\ Next)
=============================================================================
