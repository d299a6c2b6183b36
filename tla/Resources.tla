----------------------------- MODULE Resources -----------------------------
(***************************************************************************)
(* Start and stop of the library and its memory regions: the constructor    *)
(* and destructor of LFI, set_hints, init and destroy (init.cpp), mr_reg    *)
(* and mr_unreg (mr.cpp), start and stop of the fault-tolerance manager.    *)
(*                                                                         *)
(* The subject is the ownership of libfabric objects.  An object is named   *)
(* by the endpoint, the call that opened it ("sep" for fi_scalable_ep, else *)
(* the field of lfi_endpoint it is stored in) and the attempt it belongs    *)
(* to; a memory region by its domain and its user.                          *)
(* libfabric (external) refuses to close an object on which another one is  *)
(* still open.  Binding and enabling open nothing: a failure there is a     *)
(* failure of the step.  mr_reg is one step per call of libfabric, because  *)
(* what it undoes depends on the call that fails and it takes no lock.       *)
(***************************************************************************)
EXTENDS Naturals, Sequences, SequencesExt, FiniteSets

CONSTANTS
  UseShm,     \* values of LFI_use_shm
  FT,         \* values of LFI_fault_tolerance
  Regions,    \* the application's memory regions
  Null        \* nullptr

Endpoints == {"peer", "shm"}
Fields == {"hints", "info", "fabric", "domain", "cq", "av", "ep", "tx_ep", "rx_ep"}
Heartbeat == "heartbeat"

ASSUME ResourcesAssumption ==
  /\ UseShm \subseteq BOOLEAN /\ FT \subseteq BOOLEAN
  /\ Heartbeat \notin Regions
  /\ Null \notin [ep : Endpoints, field : Fields \cup {"sep"}, try : Nat]

VARIABLES
  conf,        \* the environment variables and the provider of the peer endpoint
  pc,          \* where the constructor or the destructor is
  handle,      \* handle[e][f]: the object a field of endpoint e points to
  attempt,     \* attempt[e]: calls of init
  enable_ep, use_scalable_ep,  \* the flags of lfi_endpoint
  open,        \* objects libfabric has open
  todo,        \* fields init has still to fill
  m_mrs,       \* registered regions: [region -> its objects]
  reg,         \* reg[r]: the call mr_reg(r) makes next, <<domain, call>>, or Idle
  keyless,     \* history: registrations for which fi_mr_key has failed
  any_comm     \* the endpoint of each ANY communicator

mrVars == <<m_mrs, reg, keyless>>
rvars == <<conf, pc, handle, attempt, enable_ep, use_scalable_ep, open, todo, mrVars, any_comm>>

AllRegions == Regions \cup {Heartbeat}
Idle == <<"none", "idle">>

Object(e, f) == [ep |-> e, field |-> f, try |-> attempt[e]]

\* The objects that must be closed before object o can be.
OpenOn(o) ==
  LET children == [hints |-> {}, info |-> {}, cq |-> {"ep", "tx_ep", "rx_ep"},
                   av |-> {"ep"} \cup (IF use_scalable_ep[o.ep] THEN {"sep"} ELSE {}),
                   ep |-> {}, sep |-> {"tx_ep", "rx_ep"}, tx_ep |-> {}, rx_ep |-> {},
                   domain |-> {"cq", "av", "ep", "sep", "mr"}, fabric |-> {"domain"}]
  IN  {p \in open : p.ep = o.ep /\ p.try = o.try /\ p.field \in children[o.field]}

RInit ==
  /\ conf \in [shm : UseShm, ft : FT, verbs : BOOLEAN]
  /\ pc = "start"
  /\ handle = [e \in Endpoints |-> [f \in Fields |-> Null]]
  /\ attempt = [e \in Endpoints |-> 0]
  /\ enable_ep = [e \in Endpoints |-> FALSE]
  /\ use_scalable_ep = [e \in Endpoints |-> TRUE]
  /\ open = {} /\ todo = <<>>
  /\ m_mrs = << >> /\ keyless = {}
  /\ reg = [r \in AllRegions |-> Idle]
  /\ any_comm = << >>

-----------------------------------------------------------------------------
(* The constructor.                                                        *)

\* set_hints: the previous hints are freed.
SetHints(e) ==
  LET new == [ep |-> e, field |-> "hints", try |-> attempt[e] + 1]
  IN  /\ handle' = [handle EXCEPT ![e].hints = new]
      /\ open' = (open \ {handle[e].hints}) \cup {new}
      /\ attempt' = [attempt EXCEPT ![e] = @ + 1]

\* The calls of init that open something, in order.
OpenDomain == <<"info", "fabric", "domain", "cq", "av", "sep">>
OpenScalable == <<"tx_ep", "rx_ep">>
OpenEndpoint == <<"ep">>

\* The constructor hints and initialises an endpoint.
Begin(e, label) ==
  /\ SetHints(e)
  /\ todo' = OpenDomain
  /\ pc' = label
  /\ UNCHANGED <<conf, enable_ep, use_scalable_ep, mrVars, any_comm>>

StartPeer == pc = "start" /\ Begin("peer", "init_peer")

\* The endpoint for the same node: another endpoint of the same provider for
\* verbs, or the provider "shm".
StartShm == pc = "shm" /\ conf.shm /\ Begin("shm", "init_shm")

\* Without LFI_use_shm the ANY communicator of the node is on the peer endpoint.
NoShm ==
  /\ pc = "shm" /\ ~conf.shm
  /\ any_comm' = [c \in {"ANY_PEER", "ANY_SHM"} |-> "peer"]
  /\ pc' = "ft_start"
  /\ UNCHANGED <<conf, handle, attempt, enable_ep, use_scalable_ep, open, todo, mrVars>>

Initialising == IF pc = "init_peer" THEN "peer" ELSE "shm"

\* A call of init opens the next object.
InitOpen ==
  LET e == Initialising
      o == Object(e, Head(todo))
  IN  /\ pc \in {"init_peer", "init_shm"} /\ todo # <<>> /\ Head(todo) # "sep"
      /\ handle' = [handle EXCEPT ![e][Head(todo)] = o]
      /\ open' = open \cup {o}
      /\ todo' = Tail(todo)
      /\ UNCHANGED <<conf, pc, attempt, enable_ep, use_scalable_ep, mrVars, any_comm>>

\* fi_scalable_ep, which stores the endpoint in ep, or is not supported.  The flag
\* is not set again by a second attempt: fi_endpoint then overwrites ep.
InitScalable ==
  LET e == Initialising
      o == Object(e, "sep")
  IN  /\ pc \in {"init_peer", "init_shm"} /\ todo # <<>> /\ Head(todo) = "sep"
      /\ \/ /\ handle' = [handle EXCEPT ![e].ep = o]
            /\ open' = open \cup {o}
            /\ UNCHANGED use_scalable_ep
         \/ /\ use_scalable_ep' = [use_scalable_ep EXCEPT ![e] = FALSE]
            /\ UNCHANGED <<handle, open>>
      /\ todo' = IF use_scalable_ep'[e] THEN OpenScalable ELSE OpenEndpoint
      /\ UNCHANGED <<conf, pc, attempt, enable_ep, mrVars, any_comm>>

\* A call fails: init returns with what it has opened in place.  For "shm" the
\* constructor tries again with "sm2"; otherwise it throws.
InitFail ==
  /\ pc \in {"init_peer", "init_shm"} /\ todo # <<>>
  /\ IF pc = "init_shm" /\ ~conf.verbs /\ attempt["shm"] = 1
     THEN Begin("shm", "init_shm")
     ELSE pc' = "thrown" /\ UNCHANGED <<conf, handle, attempt, enable_ep, use_scalable_ep, open, todo, mrVars, any_comm>>

InitDone ==
  LET e == Initialising
  IN  /\ pc \in {"init_peer", "init_shm"} /\ todo = <<>>
      /\ enable_ep' = [enable_ep EXCEPT ![e] = TRUE]
      /\ any_comm' = IF e = "peer" THEN [c \in {"ANY_PEER"} |-> e]
                     ELSE [c \in {"ANY_PEER", "ANY_SHM"} |-> IF c = "ANY_SHM" THEN e ELSE "peer"]
      /\ pc' = IF e = "peer" THEN "shm" ELSE "ft_start"
      /\ UNCHANGED <<conf, handle, attempt, use_scalable_ep, open, todo, mrVars>>

-----------------------------------------------------------------------------
(* Memory regions.                                                         *)

Mr(e, r) == [ep |-> e, field |-> "mr", try |-> attempt[e], region |-> r]

\* The domains mr_reg registers in.
Domains == {e \in Endpoints : enable_ep[e]}

\* mr_reg begins; the peer endpoint is initialised whenever it is called.
MrRegCall(r) ==
  /\ reg[r] = Idle
  /\ reg' = [reg EXCEPT ![r] = <<"peer", "reg">>]
  /\ UNCHANGED <<open, m_mrs, keyless>>

\* fi_mr_reg.
FiMrReg(r, e) ==
  /\ reg[r] = <<e, "reg">>
  /\ open' = open \cup {Mr(e, r)}
  /\ reg' = [reg EXCEPT ![r] = <<e, "key">>]
  /\ UNCHANGED <<m_mrs, keyless>>

\* fi_mr_key; after the last domain the region is entered in m_mrs.
FiMrKey(r, e) ==
  LET mr == {Mr("peer", r)} \cup (IF e = "shm" THEN {Mr("shm", r)} ELSE {})
  IN  /\ reg[r] = <<e, "key">>
      /\ IF e = "peer" /\ enable_ep["shm"]
         THEN reg' = [reg EXCEPT ![r] = <<"shm", "reg">>] /\ UNCHANGED m_mrs
         ELSE /\ reg' = [reg EXCEPT ![r] = Idle]
              /\ m_mrs' = [s \in DOMAIN m_mrs \cup {r} |-> IF s = r THEN mr ELSE m_mrs[s]]
      /\ UNCHANGED <<open, keyless>>

\* Mutant: a failure in the shm domain does not close the registration in the
\* peer domain.
MrRegFailKeep(r, e) ==
  /\ reg[r] \in {<<e, "reg">>, <<e, "key">>}
  /\ UNCHANGED open
  /\ keyless' = IF reg[r][2] = "key" THEN keyless \cup {Mr(e, r)} ELSE keyless
  /\ reg' = [reg EXCEPT ![r] = Idle]
  /\ UNCHANGED m_mrs

\* One of the two calls fails and mr_reg returns.  In the shm domain it closes the
\* registration in the peer domain first; it does not close the one it has no
\* key for.
MrRegFail(r, e) ==
  /\ reg[r] \in {<<e, "reg">>, <<e, "key">>}
  /\ open' = IF e = "shm" THEN open \ {Mr("peer", r)} ELSE open
  /\ keyless' = IF reg[r][2] = "key" THEN keyless \cup {Mr(e, r)} ELSE keyless
  /\ reg' = [reg EXCEPT ![r] = Idle]
  /\ UNCHANGED m_mrs

\* mr_unreg closes the registrations and erases the entry, under m_mr_mutex.
MrUnreg(r) ==
  /\ r \in DOMAIN m_mrs
  /\ open' = open \ m_mrs[r]
  /\ m_mrs' = [s \in DOMAIN m_mrs \ {r} |-> m_mrs[s]]
  /\ UNCHANGED <<reg, keyless>>

\* The application, while the library is running; it registers a region once.
AppReg(r) ==
  /\ pc = "running" /\ r \notin DOMAIN m_mrs
  /\ ~\E o \in open : o.field = "mr" /\ o.region = r
  /\ MrRegCall(r)
  /\ UNCHANGED <<conf, pc, handle, attempt, enable_ep, use_scalable_ep, todo, any_comm>>

\* mr_reg goes on.
MrReg(r) ==
  /\ \E e \in Endpoints : FiMrReg(r, e) \/ FiMrKey(r, e) \/ MrRegFail(r, e)
  /\ UNCHANGED <<conf, pc, handle, attempt, enable_ep, use_scalable_ep, todo, any_comm>>

AppUnreg(r) ==
  /\ pc = "running" /\ MrUnreg(r)
  /\ UNCHANGED <<conf, pc, handle, attempt, enable_ep, use_scalable_ep, todo, any_comm>>

\* lfi_ft_manager::start registers the heartbeat word ...
FtStart ==
  /\ pc = "ft_start"
  /\ IF conf.ft THEN MrRegCall(Heartbeat) /\ pc' = "ft_reg"
     ELSE UNCHANGED <<open, mrVars>> /\ pc' = "running"
  /\ UNCHANGED <<conf, handle, attempt, enable_ep, use_scalable_ep, todo, any_comm>>

\* ... and the constructor returns, whether that has worked or not.
FtStarted ==
  /\ pc = "ft_reg" /\ reg[Heartbeat] = Idle
  /\ pc' = "running"
  /\ UNCHANGED <<conf, handle, attempt, enable_ep, use_scalable_ep, open, todo, mrVars, any_comm>>

-----------------------------------------------------------------------------
(* The destructor.                                                         *)

DestroyOrder == <<"tx_ep", "rx_ep", "ep", "av", "cq", "domain", "fabric", "hints", "info">>

\* lfi_ft_manager::stop unregisters the heartbeat word, if it was registered.  No
\* call is running any more when the destructor does.
FtStop ==
  /\ pc = "running" /\ pc' = "destroy_shm"
  /\ \A r \in AllRegions : reg[r] = Idle
  /\ IF conf.ft /\ Heartbeat \in DOMAIN m_mrs THEN MrUnreg(Heartbeat)
     ELSE UNCHANGED <<open, mrVars>>
  /\ todo' = DestroyOrder
  /\ UNCHANGED <<conf, handle, attempt, enable_ep, use_scalable_ep, any_comm>>

Destroying == IF pc = "destroy_shm" THEN "shm" ELSE "peer"

\* Mutant: the domain is closed before the queue and the address vector.
DestroyDomainFirst ==
  LET e == Destroying
      f == IF Len(todo) = 6 THEN "domain" ELSE IF Len(todo) = 4 THEN "av" ELSE Head(todo)
      o == handle[e][f]
  IN  /\ pc \in {"destroy_shm", "destroy_peer"} /\ enable_ep[e] /\ todo # <<>>
      /\ handle' = [handle EXCEPT ![e][f] = Null]
      /\ open' = IF o # Null /\ OpenOn(o) = {} THEN open \ {o} ELSE open
      /\ todo' = Tail(todo)
      /\ UNCHANGED <<conf, pc, attempt, enable_ep, use_scalable_ep, mrVars, any_comm>>

\* destroy closes the next field that is set, and clears it even if libfabric
\* refuses because something is still open on the object.
Destroy ==
  LET e == Destroying
      o == handle[e][Head(todo)]
  IN  /\ pc \in {"destroy_shm", "destroy_peer"} /\ enable_ep[e] /\ todo # <<>>
      /\ handle' = [handle EXCEPT ![e][Head(todo)] = Null]
      /\ open' = IF o # Null /\ OpenOn(o) = {} THEN open \ {o} ELSE open
      /\ todo' = Tail(todo)
      /\ UNCHANGED <<conf, pc, attempt, enable_ep, use_scalable_ep, mrVars, any_comm>>

\* An endpoint that was not initialised, or has been destroyed, is done.
DestroyDone ==
  LET e == Destroying
  IN  /\ pc \in {"destroy_shm", "destroy_peer"} /\ (~enable_ep[e] \/ todo = <<>>)
      /\ enable_ep' = [enable_ep EXCEPT ![e] = FALSE]
      /\ pc' = IF e = "shm" THEN "destroy_peer" ELSE "stopped"
      /\ todo' = IF e = "shm" THEN DestroyOrder ELSE <<>>
      /\ UNCHANGED <<conf, handle, attempt, use_scalable_ep, open, mrVars, any_comm>>

-----------------------------------------------------------------------------
RNext ==
  \/ StartPeer \/ StartShm \/ NoShm \/ InitOpen \/ InitScalable \/ InitFail \/ InitDone
  \/ FtStart \/ FtStarted \/ FtStop \/ Destroy \/ DestroyDone
  \/ \E r \in AllRegions : MrReg(r)
  \/ \E r \in Regions : AppReg(r) \/ AppUnreg(r)

RSpec == RInit /\ [][RNext]_rvars

-----------------------------------------------------------------------------
(* Properties.                                                             *)

\* The registrations a running mr_reg has made.
InHand(r) ==
  CASE reg[r] \in {<<"peer", "key">>, <<"shm", "reg">>} -> {Mr("peer", r)}
    [] reg[r] = <<"shm", "key">> -> {Mr("peer", r), Mr("shm", r)}
    [] OTHER -> {}

\* Every open registration can still be closed by somebody: it is listed in
\* m_mrs or in the hands of a running mr_reg.  The one exception is the
\* registration for which fi_mr_key itself failed; whatever else fails, and
\* wherever, mr_reg has closed what it had registered when it returns.  Nothing
\* m_mrs lists is closed, and a listed region is registered in every domain in
\* use (mr_reg, mr_unreg).
RegionsAccounted ==
  LET registered == UNION {m_mrs[r] : r \in DOMAIN m_mrs}
      inHand == UNION {InHand(r) : r \in AllRegions}
  IN  /\ {o \in open : o.field = "mr"} = registered \cup keyless \cup inHand
      /\ pc = "running" => \A r \in DOMAIN m_mrs : {o.ep : o \in m_mrs[r]} = Domains

\* What the destructor leaves open, and nothing else: objects of a first
\* attempt to initialise the shm endpoint; a scalable endpoint that its second
\* attempt has overwritten, use_scalable_ep being FALSE since the first; regions
\* the application has not unregistered or that have no key; and the domain and
\* fabric under such an object.  Never the heartbeat word, if it has a key
\* (init, destroy, lfi_ft_manager::stop).
AllClosed ==
  LET overwritten == {o \in open : /\ o.field = "sep" /\ o.ep = "shm"
                                   /\ attempt["shm"] = 2 /\ ~use_scalable_ep["shm"]}
      left == keyless \cup overwritten \cup UNION {m_mrs[r] : r \in DOMAIN m_mrs \ {Heartbeat}}
  IN  pc = "stopped" =>
        \A o \in open :
          \/ o.ep = "shm" /\ o.try = 1 /\ attempt["shm"] = 2
          \/ o \in left
          \/ o.field \in {"domain", "fabric"} /\ \E m \in left : m.ep = o.ep
=============================================================================
