----------------------------- MODULE FtManager -----------------------------
(***************************************************************************)
(* Fault tolerance of one endpoint (ft_manager.cpp): the thread that leads  *)
(* progress also runs one_loop, which reads a heartbeat word of every peer  *)
(* with outstanding requests and cancels the communicators whose peer does  *)
(* not answer, while the application posts requests and closes              *)
(* communicators.                                                           *)
(*                                                                         *)
(* The endpoint's list of monitored communicators (DoubleLinkedList) is     *)
(* modelled by its pointers: erase does not check that the node is in the   *)
(* list.  The list of a communicator's outstanding requests is a set: that  *)
(* it is exact is what RequestLifecycle shows.  The ANY communicator is     *)
(* represented by its outstanding requests alone.                           *)
(*                                                                         *)
(* Time is a choice of Process: the last request is LFI_fault_tolerance_time *)
(* old or not yet, the heartbeat is older than its timeout or not yet.  As   *)
(* any time may pass between two loops, the dates that on_request_complete   *)
(* and process_comm store constrain nothing else.  The counter and the 10 ms *)
(* pace of one_loop only decide when LoopBegin happens.                      *)
(***************************************************************************)
EXTENDS Naturals, Sequences, SequencesExt, FiniteSets

CONSTANTS
  Comms,       \* communicators of the endpoint, ANY excluded
  Requests,    \* the application's requests on them
  CommOf,      \* [Requests -> Comms]
  AnyRequests, \* its requests on the ANY communicator
  Heartbeat,   \* the heartbeat request of a communicator
  Modes,       \* "directed": no ANY receive; "any": the application keeps one posted
  Mortal,      \* communicators whose peer may die
  MaxPosts,    \* bound: requests posted
  MaxCloses,   \* bound: communicators closed
  Null         \* nullptr

ASSUME FtAssumption ==
  /\ CommOf \in [Requests -> Comms]
  /\ Heartbeat \notin Requests /\ Null \notin Comms
  /\ Modes \subseteq {"directed", "any"}
  /\ Mortal \subseteq Comms /\ MaxPosts \in Nat /\ MaxCloses \in Nat

VARIABLES
  m_comms,                                  \* communicators not erased
  list,                                     \* ft_comms: head and tail
  next, prev, inserted,                     \* the list's fields of lfi_comm
  ft_requests,                              \* outstanding requests of lfi_comm
  ft_current_status, is_canceled,           \* fields of lfi_comm
  ft_heartbeat_req,                         \* "null", "free", "posted", "answered", "failed"
  ft_any_comm_requests, ft_pending_failed_comms,   \* fields of lfi_endpoint
  canceled_coms,                            \* lfi_endpoint::ft_canceled_coms
  is_any_comm, comm, todo, to_cancel,       \* locals of one_loop
  pc, cancelled,                            \* control of the leader and of the application
  mode, peer, posts,                        \* environment
  detected, reported,                       \* history: failures found in an ANY loop, reports
  unlisted                                  \* history: a node outside a nonempty list was erased

listVars == <<list, next, prev, inserted, unlisted>>
commVars == <<ft_current_status, is_canceled, ft_heartbeat_req>>
anyVars == <<ft_any_comm_requests, ft_pending_failed_comms, reported>>
loopVars == <<canceled_coms, is_any_comm, comm, todo, to_cancel, detected>>
envVars == <<mode, peer, posts>>
vars == <<m_comms, listVars, ft_requests, commVars, anyVars, loopVars, pc,
          cancelled, envVars>>

Threads == {"leader", "app"}

Init ==
  /\ m_comms = Comms
  /\ list = [head |-> Null, tail |-> Null]
  /\ next = [c \in Comms |-> Null] /\ prev = [c \in Comms |-> Null]
  /\ inserted = [c \in Comms |-> FALSE]
  /\ ft_requests = [c \in Comms |-> {}]
  /\ ft_current_status = [c \in Comms |-> "IDLE"]
  /\ is_canceled = [c \in Comms |-> FALSE]
  /\ ft_heartbeat_req = [c \in Comms |-> "null"]
  /\ ft_any_comm_requests = {} /\ ft_pending_failed_comms = {} /\ reported = <<>>
  /\ canceled_coms = <<>> /\ is_any_comm = FALSE /\ comm = Null /\ todo = {}
  /\ to_cancel = <<>> /\ detected = {}
  /\ pc = [t \in Threads |-> "idle"]
  /\ cancelled = [t \in Threads |-> Null]
  /\ mode \in Modes
  /\ peer = [c \in Comms |-> "up"]
  /\ posts = 0 /\ unlisted = FALSE

Goto(t, l) == pc' = [pc EXCEPT ![t] = l]

-----------------------------------------------------------------------------
(* DoubleLinkedList.                                                        *)

\* push_back: next of the new last node is left as it is.
PushBack(c) ==
  /\ list' = [head |-> IF list.tail = Null THEN c ELSE list.head, tail |-> c]
  /\ next' = IF list.tail = Null THEN next ELSE [next EXCEPT ![list.tail] = c]
  /\ prev' = IF list.tail = Null THEN prev ELSE [prev EXCEPT ![c] = list.tail]
  /\ inserted' = [inserted EXCEPT ![c] = TRUE]
  /\ UNCHANGED unlisted

\* Mutant: erasing the first node does not make the next one the head.
EraseNodeHeadLost(c) ==
  /\ list' = [head |-> IF prev[c] = Null THEN Null ELSE list.head,
              tail |-> IF next[c] = Null THEN prev[c] ELSE list.tail]
  /\ next' = [d \in Comms |-> IF d = c THEN Null
                              ELSE IF d = prev[c] THEN next[c] ELSE next[d]]
  /\ prev' = [d \in Comms |-> IF d = c THEN Null
                              ELSE IF d = next[c] THEN prev[c] ELSE prev[d]]
  /\ inserted' = [inserted EXCEPT ![c] = FALSE]
  /\ unlisted' = (unlisted \/ (~inserted[c] /\ list.head # Null))

\* erase, of a node in the list or not: erasing one that is not empties the list,
\* and leaves its nodes marked inserted.
EraseNode(c) ==
  /\ list' = [head |-> IF prev[c] = Null THEN next[c] ELSE list.head,
              tail |-> IF next[c] = Null THEN prev[c] ELSE list.tail]
  /\ next' = [d \in Comms |-> IF d = c THEN Null
                              ELSE IF d = prev[c] THEN next[c] ELSE next[d]]
  /\ prev' = [d \in Comms |-> IF d = c THEN Null
                              ELSE IF d = next[c] THEN prev[c] ELSE prev[d]]
  /\ inserted' = [inserted EXCEPT ![c] = FALSE]
  /\ unlisted' = (unlisted \/ (~inserted[c] /\ list.head # Null))

-----------------------------------------------------------------------------
(* The application and the peers.                                          *)

\* register_request, under comm->ft_mutex.
RegisterRequest(c, r) ==
  /\ IF inserted[c] THEN UNCHANGED listVars ELSE PushBack(c)
  /\ ft_requests' = [ft_requests EXCEPT ![c] = @ \cup {r}]

\* Mutant: the communicator is not checked.
PostUnchecked(r) ==
  LET c == CommOf[r]
  IN  /\ pc["app"] = "idle" /\ posts < MaxPosts
      /\ c \in m_comms /\ r \notin ft_requests[c]
      /\ RegisterRequest(c, r)
      /\ posts' = posts + 1
      /\ UNCHANGED <<m_comms, commVars, anyVars, loopVars, pc, cancelled, mode, peer>>

\* async_send and its relatives: a canceled communicator is refused.
Post(r) ==
  LET c == CommOf[r]
  IN  /\ pc["app"] = "idle" /\ posts < MaxPosts
      /\ c \in m_comms /\ r \notin ft_requests[c]
      /\ ~is_canceled[c]
      /\ RegisterRequest(c, r)
      /\ posts' = posts + 1
      /\ UNCHANGED <<m_comms, commVars, anyVars, loopVars, pc, cancelled, mode, peer>>

PostAny(a) ==
  /\ pc["app"] = "idle" /\ mode = "any"
  /\ a \notin ft_any_comm_requests
  /\ ft_any_comm_requests' = ft_any_comm_requests \cup {a}
  /\ UNCHANGED <<m_comms, listVars, ft_requests, commVars, loopVars, pc, cancelled,
                 envVars, ft_pending_failed_comms, reported>>

Crash(c) ==
  /\ c \in Mortal /\ peer[c] = "up"
  /\ peer' = [peer EXCEPT ![c] = "dead"]
  /\ UNCHANGED <<m_comms, listVars, ft_requests, commVars, anyVars, loopVars, pc,
                 cancelled, mode, posts>>

-----------------------------------------------------------------------------
(* The leader: progress, then one_loop.                                    *)

\* on_request_complete for a request of communicator c: it leaves the list.
OnRequestComplete(c, r, ok) ==
  /\ ft_requests' = [ft_requests EXCEPT ![c] = @ \ {r}]
  /\ ft_heartbeat_req' = IF r # Heartbeat THEN ft_heartbeat_req
                         ELSE [ft_heartbeat_req EXCEPT ![c] = IF ok THEN "answered" ELSE "failed"]

\* progress reads a completion: a success, or the error of an operation whose
\* peer has died, should the provider notice.
Complete(c, r, ok) ==
  /\ pc["leader"] = "idle"
  /\ r \in ft_requests[c]
  /\ ok <=> peer[c] = "up"
  /\ OnRequestComplete(c, r, ok)
  /\ UNCHANGED <<m_comms, listVars, ft_current_status, is_canceled, anyVars,
                 loopVars, pc, cancelled, envVars>>

\* An ANY receive takes a message of c.
CompleteAny(a, c) ==
  /\ pc["leader"] = "idle"
  /\ a \in ft_any_comm_requests /\ peer[c] = "up" /\ c \in m_comms
  /\ ft_any_comm_requests' = ft_any_comm_requests \ {a}
  /\ UNCHANGED <<m_comms, listVars, ft_requests, commVars, loopVars, pc,
                 cancelled, envVars, ft_pending_failed_comms, reported>>

\* one_loop, holding m_comms_mutex shared from here to LoopEnd: with an ANY
\* request outstanding it goes through all communicators, otherwise through the
\* list.
LoopBegin ==
  /\ pc["leader"] = "idle"
  /\ is_any_comm' = (ft_any_comm_requests # {})
  /\ todo' = IF is_any_comm' THEN m_comms ELSE {}
  /\ comm' = IF is_any_comm' THEN Null ELSE list.head
  /\ Goto("leader", "next")
  /\ UNCHANGED <<m_comms, listVars, ft_requests, commVars, anyVars, canceled_coms,
                 to_cancel, detected, cancelled, envVars>>

\* process_comm: a communicator without requests is no longer monitored.
ProcessCheck(c) ==
  /\ IF ft_requests[c] = {} THEN EraseNode(c) /\ Goto("leader", "advance")
     ELSE UNCHANGED listVars /\ Goto("leader", "process")
  /\ UNCHANGED <<m_comms, ft_requests, commVars, anyVars, canceled_coms, is_any_comm,
                 to_cancel, detected, cancelled, envVars>>

NextAny(c) ==
  /\ pc["leader"] = "next" /\ c \in todo
  /\ todo' = todo \ {c} /\ comm' = c
  /\ ProcessCheck(c)

NextListed ==
  /\ pc["leader"] = "next" /\ comm # Null
  /\ ProcessCheck(comm)
  /\ UNCHANGED <<comm, todo>>

Fail(c) ==
  /\ canceled_coms' = Append(canceled_coms, c)
  /\ ft_current_status' = [ft_current_status EXCEPT ![c] = "ERROR"]
  /\ detected' = IF is_any_comm THEN detected \cup {c} ELSE detected

\* IDLE: after a quiet time read the peer's heartbeat word, with a request of
\* its own that must have completed; async_get refuses a canceled communicator.
ProcessIdle(elapsed) ==
  /\ ft_current_status[comm] = "IDLE"
  /\ IF elapsed /\ ft_heartbeat_req[comm] # "posted"
     THEN IF is_canceled[comm]
          THEN /\ Fail(comm)
               /\ ft_heartbeat_req' = [ft_heartbeat_req EXCEPT ![comm] = "free"]
               /\ UNCHANGED <<listVars, ft_requests>>
          ELSE /\ RegisterRequest(comm, Heartbeat)
               /\ ft_heartbeat_req' = [ft_heartbeat_req EXCEPT ![comm] = "posted"]
               /\ ft_current_status' = [ft_current_status EXCEPT ![comm] = "HEARTBEAT"]
               /\ UNCHANGED <<canceled_coms, detected>>
     ELSE UNCHANGED <<listVars, ft_requests, ft_heartbeat_req, ft_current_status,
                      canceled_coms, detected>>

\* HEARTBEAT: the word has arrived, or the answer is overdue, or neither yet.
ProcessHeartbeat(elapsed) ==
  /\ ft_current_status[comm] = "HEARTBEAT"
  /\ IF ft_heartbeat_req[comm] = "answered"
     THEN /\ ft_current_status' = [ft_current_status EXCEPT ![comm] = "IDLE"]
          /\ UNCHANGED <<canceled_coms, detected>>
     ELSE IF elapsed THEN Fail(comm)
     ELSE UNCHANGED <<ft_current_status, canceled_coms, detected>>
  /\ UNCHANGED <<listVars, ft_requests, ft_heartbeat_req>>

ProcessError ==
  /\ ft_current_status[comm] = "ERROR"
  /\ UNCHANGED <<listVars, ft_requests, ft_heartbeat_req, ft_current_status,
                 canceled_coms, detected>>

\* process_comm goes on: the time that counts has elapsed or not.
Process(elapsed) ==
  /\ pc["leader"] = "process"
  /\ ProcessIdle(elapsed) \/ ProcessHeartbeat(elapsed) \/ ProcessError
  /\ Goto("leader", "advance")
  /\ UNCHANGED <<m_comms, is_canceled, anyVars, is_any_comm, comm, todo, to_cancel,
                 cancelled, envVars>>

\* comm = comm->next: null when process_comm has erased comm, which ends the
\* pass.
Advance ==
  /\ pc["leader"] = "advance"
  /\ comm' = IF is_any_comm THEN Null ELSE next[comm]
  /\ Goto("leader", "next")
  /\ UNCHANGED <<m_comms, listVars, ft_requests, commVars, anyVars, canceled_coms,
                 is_any_comm, todo, to_cancel, detected, cancelled, envVars>>

\* The pass is over: cancel the communicators that failed.
ScanEnd ==
  /\ pc["leader"] = "next" /\ comm = Null /\ todo = {}
  /\ to_cancel' = canceled_coms
  /\ Goto("leader", "cancel_next")
  /\ UNCHANGED <<m_comms, listVars, ft_requests, commVars, anyVars, canceled_coms,
                 is_any_comm, comm, todo, detected, cancelled, envVars>>

CancelNext ==
  /\ pc["leader"] = "cancel_next" /\ to_cancel # <<>>
  /\ to_cancel' = Tail(to_cancel)
  /\ cancelled' = [cancelled EXCEPT !["leader"] = Head(to_cancel)]
  /\ Goto("leader", "cancel")
  /\ UNCHANGED <<m_comms, listVars, ft_requests, commVars, anyVars, canceled_coms,
                 is_any_comm, comm, todo, detected, envVars>>

\* The lock is released; canceled_coms is cleared here or after the reports.
LoopEnd ==
  /\ pc["leader"] = "cancel_next" /\ to_cancel = <<>>
  /\ Goto("leader", IF is_any_comm THEN "reports" ELSE "idle")
  /\ canceled_coms' = IF is_any_comm THEN canceled_coms ELSE <<>>
  /\ is_any_comm' = FALSE
  /\ UNCHANGED <<m_comms, listVars, ft_requests, commVars, anyVars, to_cancel,
                 comm, todo, detected, cancelled, envVars>>

Smaller(m, n) == IF m < n THEN m ELSE n

\* Mutant: a pending failure is reported and kept.
HandleAnyCommReportsKeep ==
  LET k == Smaller(Cardinality(ft_any_comm_requests), Cardinality(ft_pending_failed_comms))
      n == Smaller(Cardinality(ft_any_comm_requests) - k, Len(canceled_coms))
  IN  /\ pc["leader"] = "reports"
      /\ \E old \in SUBSET ft_pending_failed_comms, served \in SUBSET ft_any_comm_requests :
           /\ Cardinality(old) = k /\ Cardinality(served) = k + n
           /\ ft_any_comm_requests' = ft_any_comm_requests \ served
           /\ reported' = reported \o SetToSeq(old) \o SubSeq(canceled_coms, 1, n)
           /\ ft_pending_failed_comms' =
                ft_pending_failed_comms \cup ToSet(SubSeq(canceled_coms, n + 1, Len(canceled_coms)))
      /\ canceled_coms' = <<>>
      /\ Goto("leader", "idle")
      /\ UNCHANGED <<m_comms, listVars, ft_requests, commVars, to_cancel,
                     is_any_comm, comm, todo, detected, cancelled, envVars>>

\* handle_any_comm_reports: every failed communicator is reported to one ANY
\* request, which is completed with LFI_BROKEN_COMM and the communicator as its
\* source: first the failures left over from earlier loops, then the new ones;
\* what finds no request is kept.
HandleAnyCommReports ==
  LET k == Smaller(Cardinality(ft_any_comm_requests), Cardinality(ft_pending_failed_comms))
      n == Smaller(Cardinality(ft_any_comm_requests) - k, Len(canceled_coms))
  IN  /\ pc["leader"] = "reports"
      /\ \E old \in SUBSET ft_pending_failed_comms, served \in SUBSET ft_any_comm_requests :
           /\ Cardinality(old) = k /\ Cardinality(served) = k + n
           /\ ft_any_comm_requests' = ft_any_comm_requests \ served
           /\ reported' = reported \o SetToSeq(old) \o SubSeq(canceled_coms, 1, n)
           /\ ft_pending_failed_comms' =
                (ft_pending_failed_comms \ old)
                  \cup ToSet(SubSeq(canceled_coms, n + 1, Len(canceled_coms)))
      /\ canceled_coms' = <<>>
      /\ Goto("leader", "idle")
      /\ UNCHANGED <<m_comms, listVars, ft_requests, commVars, to_cancel,
                     is_any_comm, comm, todo, detected, cancelled, envVars>>

-----------------------------------------------------------------------------
(* cancel_comm, run by the leader in one_loop and by the application in     *)
(* close_comm.                                                              *)

\* Under comm.ft_mutex: from now on async_* refuses the communicator.
CancelFlag(t) ==
  /\ pc[t] = "cancel"
  /\ is_canceled' = [is_canceled EXCEPT ![cancelled[t]] = TRUE]
  /\ Goto(t, "cancel_requests")
  /\ UNCHANGED <<m_comms, listVars, ft_requests, ft_current_status, ft_heartbeat_req,
                 anyVars, loopVars, cancelled, envVars>>

\* The first request of the list is canceled, until there is none.
CancelRequest(t, r) ==
  LET c == cancelled[t]
  IN  /\ pc[t] = "cancel_requests" /\ r \in ft_requests[c]
      /\ OnRequestComplete(c, r, FALSE)
      /\ UNCHANGED <<m_comms, listVars, ft_current_status, is_canceled, anyVars,
                     loopVars, pc, cancelled, envVars>>

\* The heartbeat request is destroyed, and the communicator is erased from the
\* endpoint's list, whether or not it is there.
CancelEnd(t) ==
  LET c == cancelled[t]
  IN  /\ pc[t] = "cancel_requests" /\ ft_requests[c] = {}
      /\ ft_heartbeat_req' = [ft_heartbeat_req EXCEPT ![c] = "null"]
      /\ EraseNode(c)
      /\ Goto(t, IF t = "leader" THEN "cancel_next" ELSE "erase")
      /\ cancelled' = IF t = "leader" THEN [cancelled EXCEPT ![t] = Null] ELSE cancelled
      /\ UNCHANGED <<m_comms, ft_requests, ft_current_status, is_canceled, anyVars,
                     loopVars, envVars>>

\* close_comm: cancel_comm under the shared lock, then the erasure, which waits
\* for one_loop to release its own.
CloseComm(c) ==
  /\ pc["app"] = "idle" /\ c \in m_comms
  /\ Cardinality(Comms \ m_comms) < MaxCloses
  /\ cancelled' = [cancelled EXCEPT !["app"] = c]
  /\ Goto("app", "cancel")
  /\ UNCHANGED <<m_comms, listVars, ft_requests, commVars, anyVars, loopVars, envVars>>

EraseComm ==
  /\ pc["app"] = "erase" /\ pc["leader"] \in {"idle", "reports"}
  /\ m_comms' = m_comms \ {cancelled["app"]}
  /\ cancelled' = [cancelled EXCEPT !["app"] = Null]
  /\ Goto("app", "idle")
  /\ UNCHANGED <<listVars, ft_requests, commVars, anyVars, loopVars, envVars>>

-----------------------------------------------------------------------------
AllRequests == Requests \cup {Heartbeat}

LeaderStep ==
  \/ LoopBegin \/ NextListed \/ Advance \/ \E elapsed \in BOOLEAN : Process(elapsed)
  \/ ScanEnd \/ CancelNext \/ LoopEnd \/ HandleAnyCommReports
  \/ \E c \in Comms : NextAny(c)

CancelStep(t) == CancelFlag(t) \/ CancelEnd(t) \/ \E r \in AllRequests : CancelRequest(t, r)

Next ==
  \/ LeaderStep
  \/ \E t \in Threads : CancelStep(t)
  \/ EraseComm
  \/ \E r \in Requests : Post(r)
  \/ \E a \in AnyRequests : PostAny(a)
  \/ \E c \in Comms : Crash(c) \/ CloseComm(c)
  \/ \E c \in Comms, r \in AllRequests, ok \in BOOLEAN : Complete(c, r, ok)
  \/ \E c \in Comms, a \in AnyRequests : CompleteAny(a, c)

Spec == Init /\ [][Next]_vars

\* Some thread keeps progressing the endpoint, so one_loop runs again and again
\* and every pass ends; a communicator that is looked at again and again is once
\* looked at when its time has elapsed; a close in progress goes on, and gets the
\* exclusive lock between two loops, which are 10 ms apart.  An application that
\* serves ANY requests posts them again before long, so that one_loop finds one
\* again and again.
Fairness ==
  /\ WF_vars(LeaderStep) /\ SF_vars(EraseComm)
  /\ \A t \in Threads : WF_vars(CancelStep(t))
  /\ \A c \in Comms : SF_vars(Process(TRUE) /\ comm = c)
  /\ SF_vars(LoopBegin /\ (mode = "any" => ft_any_comm_requests # {}))
  /\ \A a \in AnyRequests : WF_vars(PostAny(a))

FairSpec == Spec /\ Fairness

-----------------------------------------------------------------------------
(* Properties.                                                             *)

\* A request to a peer that has died does not stay outstanding for ever: the
\* communicator is monitored, its heartbeat times out and its requests are
\* canceled (one_loop, process_comm, cancel_comm).  The exception is in the
\* code: cancel_comm, or a pass that holds a communicator canceled meanwhile,
\* may erase a communicator that is not in ft_comms; that empties the list of
\* the others, which are not put back.  ANY loops do not use the list.
DeadPeerDetected ==
  \A r \in Requests :
    (peer[CommOf[r]] = "dead" /\ r \in ft_requests[CommOf[r]])
      ~> (r \notin ft_requests[CommOf[r]] \/ (unlisted /\ mode = "directed"))

\* Once cancel_comm has gone through the requests of a communicator none is
\* registered any more: a post that races with the cancellation is canceled or
\* refused, and no heartbeat is started on it (async_*, process_comm).
NothingLeftOnCanceled ==
  \A c \in Comms :
    /\ is_canceled[c]
    /\ \A t \in Threads : cancelled[t] = c => pc[t] \notin {"cancel", "cancel_requests"}
    => ft_requests[c] = {}

\* Between two loops every failure found while an ANY request was outstanding
\* has been reported to exactly one ANY request or is kept for the next one
\* (handle_any_comm_reports).
FailureReportedOnce ==
  pc["leader"] = "idle" =>
    /\ IsInjective(reported)
    /\ ToSet(reported) \cap ft_pending_failed_comms = {}
    /\ detected = ToSet(reported) \cup ft_pending_failed_comms
=============================================================================
