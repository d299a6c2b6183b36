-------------------------- MODULE Resources_proofs --------------------------
(***************************************************************************)
(* Proofs about the ownership of libfabric objects (module Resources) for   *)
(* any memory regions, any settings and any failures of init and mr_reg.    *)
(***************************************************************************)
EXTENDS Resources, TLAPS

-----------------------------------------------------------------------------
(* The inductive invariant.                                                *)

DestroyPcs == {"destroy_shm", "destroy_peer"}
StartPcs == {"start", "init_peer", "shm", "init_shm", "ft_start", "thrown"}
InitPcs == {"init_peer", "init_shm"}
RunPcs == {"ft_reg", "running"}

\* What a call of init opens, and the field that holds it.
Kinds == Fields \cup {"sep"}
Slot(k) == IF k = "sep" THEN "ep" ELSE k

\* The place of a kind of object in the order of destroy.
Order == [tx_ep |-> 1, rx_ep |-> 2, ep |-> 3, sep |-> 3, av |-> 4, cq |-> 5, domain |-> 6,
          fabric |-> 7, hints |-> 8, info |-> 9]

Calls == {Idle} \cup (Endpoints \X {"reg", "key"})

TypeOK ==
  /\ pc \in StartPcs \cup RunPcs \cup DestroyPcs \cup {"stopped"}
  /\ handle = [e \in Endpoints |-> handle[e]]
  /\ \A e \in Endpoints : handle[e] = [f \in Fields |-> handle[e][f]]
  /\ attempt \in [Endpoints -> Nat]
  /\ enable_ep = [e \in Endpoints |-> enable_ep[e]]
  /\ use_scalable_ep \in [Endpoints -> BOOLEAN]
  /\ todo \in Seq(Kinds)
  /\ reg \in [AllRegions -> Calls]

\* How often an endpoint was initialised, and which are in use.
AttemptsExact ==
  /\ attempt["peer"] = IF pc = "start" THEN 0 ELSE 1
  /\ attempt["shm"] \in 0..2
  /\ pc \in {"start", "init_peer", "shm"} => attempt["shm"] = 0
  /\ pc = "init_shm" => attempt["shm"] # 0
  /\ pc \in {"shm", "init_shm", "ft_start"} \cup RunPcs \cup DestroyPcs => enable_ep["peer"]
  /\ pc \in {"ft_start", "destroy_shm"} \cup RunPcs => enable_ep["shm"] \/ attempt["shm"] = 0
  /\ \A e \in Endpoints : attempt[e] = 0 => use_scalable_ep[e]

\* What destroy has still to close.
TodoExact ==
  pc \in DestroyPcs =>
    /\ todo \in Seq(Fields)
    /\ Len(todo) \in 0..9
    /\ \A k \in 1..Len(todo) : Order[todo[k]] = 9 - Len(todo) + k

\* What init has still to open: fi_scalable_ep comes before either endpoint.
ToOpen(k) == \E i \in 1..Len(todo) : todo[i] = k
InitTodo ==
  pc \in InitPcs =>
    /\ ToOpen("ep") => ~ToOpen("sep") /\ ~use_scalable_ep[Initialising]
    /\ ToOpen("sep") =>
         /\ attempt[Initialising] = 1 => use_scalable_ep[Initialising]
         /\ \A o \in open : o.ep = Initialising /\ o.try = attempt[Initialising] =>
              o.field \notin {"ep", "sep"}

\* A scalable endpoint is in use only with the flag, and the flag is missing
\* under one of the last attempt only if an attempt before has cleared it.
ScalableExact ==
  /\ \A e \in Endpoints : handle[e]["ep"] # Null /\ handle[e]["ep"].field = "sep" =>
       \/ use_scalable_ep[e]
       \/ pc = "thrown"
       \/ pc \in InitPcs /\ e = Initialising /\ (ToOpen("ep") \/ ToOpen("sep"))
  /\ \A o \in open : o.field = "sep" /\ o.try = attempt[o.ep] =>
       use_scalable_ep[o.ep] \/ (o.ep = "shm" /\ attempt["shm"] = 2)

Destroyed(e) == IF e = "shm" THEN pc \in {"destroy_peer", "stopped"} ELSE pc = "stopped"
Pending(e) ==
  IF pc \in DestroyPcs /\ e = Destroying THEN {f \in Fields : Order[f] > 9 - Len(todo)}
  ELSE IF Destroyed(e) THEN {} ELSE Fields

\* The registrations that are open, by region.
MrsOpen ==
  /\ DOMAIN m_mrs \subseteq AllRegions
  /\ m_mrs = [r \in DOMAIN m_mrs |-> m_mrs[r]]
  /\ \A r \in DOMAIN m_mrs : \A o \in m_mrs[r] : o \in open /\ o.field = "mr" /\ o.region = r
  /\ \A o \in keyless : /\ o \in open /\ o.field = "mr" /\ o.region \notin DOMAIN m_mrs
                        /\ o.region \in AllRegions /\ reg[o.region] = Idle
  /\ \A r \in AllRegions : InHand(r) \subseteq open /\ (reg[r] # Idle => r \notin DOMAIN m_mrs)
  /\ \A o \in open : o.field = "mr" =>
       \/ o \in keyless
       \/ \E r \in DOMAIN m_mrs : o \in m_mrs[r]
       \/ \E r \in AllRegions : o \in InHand(r)

\* When regions are registered, and where.
MrsWhen ==
  /\ pc \in StartPcs => DOMAIN m_mrs = {} /\ keyless = {}
  /\ pc \in RunPcs => \A r \in DOMAIN m_mrs : {o.ep : o \in m_mrs[r]} = Domains
  /\ pc \notin RunPcs => \A r \in AllRegions : reg[r] = Idle
  /\ ~conf.ft \/ pc \in DestroyPcs \cup {"stopped"} => Heartbeat \notin DOMAIN m_mrs
  /\ ~conf.ft => reg[Heartbeat] = Idle
  /\ \A r \in AllRegions : reg[r][1] = "shm" => enable_ep["shm"]

MrsExact == MrsOpen /\ MrsWhen

\* Every other open object is one that a failed attempt has left, one that an
\* endpoint points to and destroy has still to close, a scalable endpoint that
\* has been overwritten, or a domain or fabric under such an endpoint or a
\* registration nobody closes.
Leaked(o) == o.ep = "shm" /\ o.try = 1 /\ attempt["shm"] = 2
Held(o) ==
  /\ o.try = attempt[o.ep] /\ handle[o.ep][Slot(o.field)] = o
  /\ Slot(o.field) \in Pending(o.ep)
Lost(o) ==
  o.field = "sep" /\ o.ep = "shm" /\ attempt["shm"] = 2 /\ ~use_scalable_ep["shm"]
Blocked(o) ==
  /\ pc \in DestroyPcs \cup {"stopped"}
  /\ o.field \in {"domain", "fabric"}
  /\ \E m \in open : m.ep = o.ep /\ (m.field = "mr" \/ Lost(m))
ObjectsExact ==
  \A o \in open : o.field # "mr" =>
    /\ o = [ep |-> o.ep, field |-> o.field, try |-> o.try]
    /\ o.ep \in Endpoints /\ o.field \in Kinds /\ o.try \in Nat \ {0}
    /\ Leaked(o) \/ Held(o) \/ Lost(o) \/ Blocked(o)

\* The fields of an endpoint point to objects of their kind.
HandlesExact ==
  \A e \in Endpoints, f \in Fields : handle[e][f] = Null \/ (Slot(handle[e][f].field) = f /\ handle[e][f].ep = e)

IInv ==
  /\ TypeOK /\ AttemptsExact /\ TodoExact /\ InitTodo /\ ScalableExact
  /\ MrsExact /\ ObjectsExact /\ HandlesExact

-----------------------------------------------------------------------------
(* Orders.                                                                 *)

LEMMA DestroyOrderTable ==
  /\ DestroyOrder \in Seq(Fields) /\ DestroyOrder \in Seq(Kinds) /\ Len(DestroyOrder) = 9
  /\ \A k \in 1..9 : Order[DestroyOrder[k]] = k
  BY DEF DestroyOrder, Order, Fields, Kinds

LEMMA InitOrderTable ==
  /\ OpenDomain \in Seq(Kinds) /\ OpenScalable \in Seq(Kinds) /\ OpenEndpoint \in Seq(Kinds)
  /\ \A i \in 1..Len(OpenDomain) : OpenDomain[i] # "ep"
  /\ \A i \in 1..Len(OpenScalable) : OpenScalable[i] \notin {"ep", "sep"}
  /\ \A i \in 1..Len(OpenEndpoint) : OpenEndpoint[i] = "ep"
  /\ Len(OpenEndpoint) = 1
  BY DEF OpenDomain, OpenScalable, OpenEndpoint, Fields, Kinds

LEMMA SlotTable ==
  /\ "ep" \in Fields /\ "hints" \in Fields /\ "mr" \notin Kinds /\ "sep" \notin Fields
  /\ Fields \subseteq Kinds
  /\ \A k \in Kinds : Slot(k) \in Fields /\ Order[Slot(k)] = Order[k] /\ Order[k] \in 1..9
  /\ \A f \in Fields : Slot(f) = f
  /\ \A f, g \in Fields : Order[f] = Order[g] => f = g
  BY DEF Slot, Fields, Kinds, Order

\* What is open on an object comes before it in the order of destroy, but for
\* registrations.
LEMMA OpenOnEarlier ==
  ASSUME NEW o, o.field \in Kinds, NEW p \in OpenOn(o)
  PROVE  /\ p \in open /\ p.ep = o.ep /\ p.try = o.try
         /\ p.field = "mr" => o.field = "domain"
         /\ p.field = "sep" => o.field = "domain" \/ use_scalable_ep[o.ep]
         /\ p.field = "domain" => o.field = "fabric"
         /\ p.field # "fabric"
         /\ p.field \in Kinds => Order[p.field] < Order[o.field]
  BY DEF OpenOn, Fields, Kinds, Order

LEMMA InitIInv == RInit => IInv
<1> SUFFICES ASSUME RInit PROVE IInv
  OBVIOUS
<1>1. TypeOK
  BY DEF RInit, TypeOK, StartPcs, Endpoints, Fields, Calls
<1>2. DOMAIN m_mrs = {} /\ \A r \in AllRegions : reg[r] = Idle /\ InHand(r) = {}
  BY DEF RInit, InHand, Idle
<1>3. AttemptsExact /\ TodoExact /\ InitTodo /\ ObjectsExact /\ HandlesExact
  BY DEF RInit, AttemptsExact, TodoExact, InitTodo, ObjectsExact, HandlesExact, DestroyPcs, Endpoints, InitPcs, RunPcs
<1>4. ScalableExact
  BY SlotTable DEF RInit, ScalableExact
<1>5. MrsExact
  BY <1>2 DEF RInit, MrsExact, MrsOpen, MrsWhen, RunPcs, AllRegions, Idle
<1> QED BY <1>1, <1>3, <1>4, <1>5 DEF IInv

\* An attempt to initialise an endpoint: what the last one has opened is leaked,
\* but for the hints.
LEMMA BeginKeeps ==
  ASSUME IInv, NEW e \in Endpoints, NEW label \in InitPcs, Begin(e, label),
         label = "init_peer" <=> e = "peer", pc \in StartPcs \ {"thrown"},
         pc \in InitPcs => pc = label,
         attempt[e] = 0 \/ (e = "shm" /\ attempt[e] = 1)
  PROVE  TypeOK' /\ InitTodo' /\ ScalableExact' /\ MrsExact' /\ ObjectsExact' /\ HandlesExact'
<1>0. /\ UNCHANGED <<conf, enable_ep, use_scalable_ep, mrVars, any_comm>> /\ pc' = label
      /\ todo' = OpenDomain
      /\ attempt' = [attempt EXCEPT ![e] = attempt[e] + 1]
  BY DEF Begin, SetHints
<1>m. UNCHANGED <<m_mrs, reg, keyless>>
  BY <1>0 DEF mrVars
<1>1. PICK new : /\ new = [ep |-> e, field |-> "hints", try |-> attempt[e] + 1]
                 /\ handle' = [handle EXCEPT ![e].hints = new]
                 /\ open' = (open \ {handle[e].hints}) \cup {new}
  BY DEF Begin, SetHints
<1>a. /\ new.ep = e /\ new.field = "hints" /\ new.try = attempt[e] + 1
      /\ new = [ep |-> new.ep, field |-> new.field, try |-> new.try]
  BY <1>1
<1>b. "hints" \in Fields /\ attempt[e] \in Nat /\ attempt'[e] = attempt[e] + 1
  BY <1>0 DEF Fields, IInv, TypeOK
<1>c. /\ handle' = [x \in Endpoints |-> handle'[x]]
      /\ \A x \in Endpoints : handle'[x] = [f \in Fields |-> handle'[x][f]]
      /\ handle'[e]["hints"] = new
      /\ \A x \in Endpoints, f \in Fields : x # e \/ f # "hints" => handle'[x][f] = handle[x][f]
  BY <1>1, <1>b DEF IInv, TypeOK
<1>d. /\ Initialising' = e /\ pc' \in InitPcs
      /\ pc \in InitPcs => Initialising = e
      /\ Endpoints = {"peer", "shm"}
  BY <1>0 DEF Initialising, InitPcs, Endpoints
<1>e. \A o \in open : o.field # "mr" =>
        /\ o = [ep |-> o.ep, field |-> o.field, try |-> o.try]
        /\ o.ep \in Endpoints /\ o.field \in Kinds /\ o.try \in Nat \ {0}
        /\ Leaked(o) \/ Held(o) \/ Lost(o)
  BY DEF IInv, ObjectsExact, Blocked, DestroyPcs, StartPcs
<1>f. \A o \in open : o.field # "mr" /\ o.ep = e => o.try = 1 /\ attempt[e] = 1 /\ e = "shm"
  BY <1>b, <1>e DEF Leaked, Held, Lost
<1>g. \A r \in AllRegions : reg[r] = Idle /\ InHand(r) = {}
  BY DEF IInv, MrsExact, MrsWhen, InHand, Idle, StartPcs, RunPcs
<1>h. \A o \in open' : o.field # "mr" /\ (o = new \/ (o # new /\ o \in open /\ o # handle[e].hints))
  BY <1>1, <1>a, <1>g DEF IInv, MrsExact, MrsOpen, MrsWhen
<1>2. TypeOK'
  <2>1. todo' \in Seq(Kinds)
    BY <1>0, InitOrderTable
  <2>2. attempt' \in [Endpoints -> Nat] /\ pc' \in StartPcs
    BY <1>0, <1>b DEF IInv, TypeOK, StartPcs, InitPcs
  <2> QED BY <1>0, <1>m, <1>c, <2>1, <2>2 DEF IInv, TypeOK
<1>3. MrsExact'
  <2>1. DOMAIN m_mrs = {} /\ keyless = {}
    BY DEF IInv, MrsExact, MrsWhen
  <2>2. \A r \in AllRegions : InHand(r)' = {}
    BY <1>m, <1>g DEF InHand, Idle
  <2> QED BY <1>0, <1>m, <1>g, <1>h, <2>1, <2>2 DEF IInv, MrsExact, MrsOpen, MrsWhen, StartPcs, RunPcs, InitPcs, DestroyPcs
<1>4. ObjectsExact'
  <2> SUFFICES ASSUME NEW o \in open', o.field # "mr"
               PROVE  /\ o = [ep |-> o.ep, field |-> o.field, try |-> o.try]
                      /\ o.ep \in Endpoints /\ o.field \in Kinds /\ o.try \in Nat \ {0}
                      /\ Leaked(o)' \/ Held(o)' \/ Lost(o)' \/ Blocked(o)'
    BY DEF ObjectsExact
  <2>0. \A x \in Endpoints : Pending(x)' = Fields /\ Pending(x) = Fields
    BY <1>0 DEF Pending, Destroyed, DestroyPcs, StartPcs, InitPcs
  <2>1. CASE o = new
    BY <1>a, <1>b, <1>c, <2>0, <2>1, SlotTable DEF Held
  <2>2. CASE o # new
    <3>1. o \in open /\ o # handle[e].hints
      BY <1>h, <2>2
    <3>2. /\ o = [ep |-> o.ep, field |-> o.field, try |-> o.try]
          /\ o.ep \in Endpoints /\ o.field \in Kinds /\ o.try \in Nat \ {0}
          /\ Leaked(o) \/ Held(o) \/ Lost(o)
      BY <1>e, <3>1
    <3>3. CASE o.ep = e
      <4>1. attempt[e] = 1 /\ e = "shm" /\ o.try = 1
        BY <1>f, <3>1, <3>3
      <4> QED BY <1>b, <3>2, <3>3, <4>1 DEF Leaked
    <3>4. CASE o.ep # e
      <4>1. /\ attempt'[o.ep] = attempt[o.ep]
            /\ \A f \in Fields : handle'[o.ep][f] = handle[o.ep][f]
        BY <1>0, <1>c, <3>2, <3>4 DEF IInv, TypeOK
      <4>2. Held(o) => Held(o)'
        BY <2>0, <3>2, <4>1, SlotTable DEF Held
      <4>3. (Leaked(o) => Leaked(o)') /\ (Lost(o) => Lost(o)')
        BY <1>0, <3>2, <3>4, <4>1 DEF Leaked, Lost
      <4> QED BY <3>2, <4>2, <4>3
    <3> QED BY <3>3, <3>4
  <2> QED BY <2>1, <2>2
<1>5. HandlesExact'
  BY <1>a, <1>c, SlotTable DEF IInv, HandlesExact
<1>6. InitTodo'
  <2>1. ~ToOpen("ep")'
    BY <1>0, InitOrderTable DEF ToOpen
  <2>2. attempt'[e] = 1 => use_scalable_ep'[e]
    BY <1>0, <1>b DEF IInv, AttemptsExact
  <2>3. \A o \in open' : o.ep = e /\ o.try = attempt'[e] => o.field \notin {"ep", "sep"}
    BY <1>a, <1>b, <1>f, <1>h
  <2> QED BY <1>d, <2>1, <2>2, <2>3 DEF InitTodo
<1>7. ScalableExact'
  <2>1. ToOpen("sep")'
    BY <1>0 DEF ToOpen, OpenDomain
  <2>2. ASSUME NEW x \in Endpoints, handle'[x]["ep"] # Null, handle'[x]["ep"].field = "sep"
        PROVE  use_scalable_ep'[x] \/ x = e
    BY <1>0, <1>c, <1>d, <2>2, SlotTable DEF IInv, ScalableExact
  <2>3. ASSUME NEW o \in open', o.field = "sep", o.try = attempt'[o.ep]
        PROVE  use_scalable_ep'[o.ep] \/ (o.ep = "shm" /\ attempt'["shm"] = 2)
    <3>1. o \in open /\ o.field # "mr" /\ o.ep \in Endpoints
      BY <1>a, <1>e, <1>h, <2>3
    <3>2. o.ep # e
      BY <1>b, <1>f, <2>3, <3>1
    <3>3. attempt'[o.ep] = attempt[o.ep]
      BY <1>0, <3>1, <3>2 DEF IInv, TypeOK
    <3>4. use_scalable_ep[o.ep] \/ (o.ep = "shm" /\ attempt["shm"] = 2)
      BY <2>3, <3>1, <3>3 DEF IInv, ScalableExact
    <3> QED BY <1>0, <3>3, <3>4
  <2> QED BY <1>d, <2>1, <2>2, <2>3 DEF ScalableExact
<1> QED BY <1>2, <1>3, <1>4, <1>5, <1>6, <1>7

\* The objects that are not registrations do not notice a registration.
LEMMA ObjectsKept ==
  ASSUME IInv, pc \in RunPcs \cup {"ft_start"}, pc' \in RunPcs,
         UNCHANGED <<conf, handle, attempt, enable_ep, use_scalable_ep, todo, any_comm>>,
         \A o \in open' : o.field # "mr" => o \in open
  PROVE  ObjectsExact' /\ ScalableExact'
<1>1. \A x \in Endpoints : Pending(x)' = Fields /\ Pending(x) = Fields
  BY DEF Pending, Destroyed, DestroyPcs, RunPcs
<1>2. ObjectsExact'
  BY <1>1 DEF IInv, ObjectsExact, Leaked, Held, Lost, Blocked, DestroyPcs, RunPcs
<1>3. ScalableExact'
  BY DEF IInv, ScalableExact, RunPcs, InitPcs
<1> QED BY <1>2, <1>3

\* A registration belongs to one region.
LEMMA MrOwn ==
  \A e, x, r, q : /\ Mr(e, r).field = "mr" /\ Mr(e, r).region = r /\ Mr(e, r).ep = e
                  /\ (\A o \in InHand(r) : o.field = "mr" /\ o.region = r)
  BY DEF Mr, InHand

\* mr_reg begins with a region that is not registered.
LEMMA MrRegCallKeeps ==
  ASSUME IInv, NEW r \in AllRegions, MrRegCall(r),
         pc \in RunPcs \cup {"ft_start"}, pc' \in RunPcs, r \notin DOMAIN m_mrs,
         r = Heartbeat => conf.ft,
         \A o \in open : o.field = "mr" => o.region # r,
         UNCHANGED <<conf, handle, attempt, enable_ep, use_scalable_ep, todo, any_comm>>
  PROVE  MrsExact' /\ reg' \in [AllRegions -> Calls] /\ open' = open
<1>1. /\ reg[r] = Idle /\ reg' = [reg EXCEPT ![r] = <<"peer", "reg">>]
      /\ UNCHANGED <<open, m_mrs, keyless>>
  BY DEF MrRegCall
<1>2. reg' \in [AllRegions -> Calls] /\ reg'[r] = <<"peer", "reg">>
      /\ \A q \in AllRegions : q # r => reg'[q] = reg[q]
  BY <1>1 DEF IInv, TypeOK, Calls, Endpoints
<1>3. \A q \in AllRegions : InHand(q)' = InHand(q)
  BY <1>1, <1>2 DEF InHand, Idle, Mr
<1>4. MrsOpen'
  <2>1. \A o \in keyless : o.region # r
    BY DEF IInv, MrsExact, MrsOpen
  <2> QED BY <1>1, <1>2, <1>3, <2>1 DEF IInv, MrsExact, MrsOpen
<1>5. MrsWhen'
  <2>1. Domains' = Domains
    BY DEF Domains
  <2>2. \A q \in DOMAIN m_mrs : {o.ep : o \in m_mrs[q]} = Domains
    BY DEF IInv, MrsExact, MrsWhen, StartPcs, RunPcs
  <2>3. \A q \in AllRegions : reg'[q][1] = "shm" => enable_ep'["shm"]
    BY <1>2 DEF IInv, MrsExact, MrsWhen
  <2>4. ~conf.ft => reg'[Heartbeat] = Idle
    BY <1>2 DEF IInv, MrsExact, MrsWhen, AllRegions
  <2> QED BY <1>1, <2>1, <2>2, <2>3, <2>4 DEF IInv, MrsExact, MrsWhen, RunPcs, StartPcs, DestroyPcs
<1> QED BY <1>1, <1>2, <1>4, <1>5 DEF MrsExact

\* A step of mr_reg.
LEMMA MrRegKeeps ==
  ASSUME IInv, NEW r \in AllRegions, NEW e \in Endpoints, pc \in RunPcs,
         FiMrReg(r, e) \/ FiMrKey(r, e) \/ MrRegFail(r, e),
         UNCHANGED <<conf, pc, handle, attempt, enable_ep, use_scalable_ep, todo, any_comm>>
  PROVE  /\ MrsExact' /\ reg' \in [AllRegions -> Calls]
         /\ \A o \in open' : o.field # "mr" => o \in open
<1>0. /\ \A q \in AllRegions : q # r => reg'[q] = reg[q]
      /\ reg'[r] \in Calls /\ reg' \in [AllRegions -> Calls]
      /\ reg[r] \in {<<e, "reg">>, <<e, "key">>} /\ reg[r] # Idle
  <2>1. \E c \in Calls : reg' = [reg EXCEPT ![r] = c]
    BY DEF FiMrReg, FiMrKey, MrRegFail, Calls, Endpoints
  <2> QED BY <2>1 DEF IInv, TypeOK, FiMrReg, FiMrKey, MrRegFail, Idle
<1>1. \A q \in AllRegions : q # r => InHand(q)' = InHand(q)
  BY <1>0 DEF InHand, Mr
<1>2. r \notin DOMAIN m_mrs /\ InHand(r) \subseteq open /\ \A o \in keyless : o.region # r
  BY <1>0 DEF IInv, MrsExact, MrsOpen
<1>3. Domains' = Domains /\ Mr("peer", r)' = Mr("peer", r) /\ Mr("shm", r)' = Mr("shm", r)
  BY DEF Domains, Mr
<1>4. \A q \in DOMAIN m_mrs : {o.ep : o \in m_mrs[q]} = Domains
  BY DEF IInv, MrsExact, MrsWhen
<1>5. CASE FiMrReg(r, e)
  <2>1. /\ reg[r] = <<e, "reg">> /\ reg'[r] = <<e, "key">>
        /\ open' = open \cup {Mr(e, r)} /\ m_mrs' = m_mrs /\ keyless' = keyless
    BY <1>0, <1>5 DEF FiMrReg, IInv, TypeOK
  <2>2. InHand(r)' = InHand(r) \cup {Mr(e, r)}
    <3>1. CASE e = "peer"
      BY <1>3, <2>1, <3>1 DEF InHand
    <3>2. CASE e = "shm"
      BY <1>3, <2>1, <3>2 DEF InHand
    <3> QED BY <3>1, <3>2 DEF Endpoints
  <2>3. MrsOpen'
    BY <1>0, <1>1, <1>2, <2>1, <2>2 DEF IInv, MrsExact, MrsOpen, AllRegions
  <2>4. MrsWhen'
    BY <1>0, <1>3, <1>4, <2>1 DEF IInv, MrsExact, MrsWhen, AllRegions, RunPcs, StartPcs, DestroyPcs
  <2> QED BY <1>0, <2>1, <2>3, <2>4, MrOwn DEF MrsExact
<1>6. CASE FiMrKey(r, e) /\ e = "peer" /\ enable_ep["shm"]
  <2>1. /\ reg[r] = <<e, "key">> /\ reg'[r] = <<"shm", "reg">>
        /\ open' = open /\ m_mrs' = m_mrs /\ keyless' = keyless
    BY <1>0, <1>6 DEF FiMrKey, IInv, TypeOK
  <2>2. InHand(r)' = InHand(r)
    BY <1>3, <1>6, <2>1 DEF InHand
  <2>3. MrsOpen'
    BY <1>0, <1>1, <1>2, <2>1, <2>2 DEF IInv, MrsExact, MrsOpen, AllRegions
  <2>4. MrsWhen'
    BY <1>0, <1>3, <1>4, <1>6, <2>1 DEF IInv, MrsExact, MrsWhen, AllRegions, RunPcs, StartPcs, DestroyPcs
  <2> QED BY <1>0, <2>1, <2>3, <2>4 DEF MrsExact
<1>7. CASE FiMrKey(r, e) /\ ~(e = "peer" /\ enable_ep["shm"])
  <2>0. PICK mr : mr = {Mr("peer", r)} \cup (IF e = "shm" THEN {Mr("shm", r)} ELSE {})
    OBVIOUS
  <2>1. /\ reg[r] = <<e, "key">> /\ reg'[r] = Idle
        /\ open' = open /\ keyless' = keyless
        /\ m_mrs' = [s \in DOMAIN m_mrs \cup {r} |-> IF s = r THEN mr ELSE m_mrs[s]]
    BY <1>0, <1>7, <2>0 DEF FiMrKey, IInv, TypeOK
  <2>2. InHand(r)' = {} /\ InHand(r) = mr
    <3>1. CASE e = "peer"
      BY <1>3, <2>0, <2>1, <3>1 DEF InHand, Idle
    <3>2. CASE e = "shm"
      BY <1>3, <2>0, <2>1, <3>2 DEF InHand, Idle
    <3> QED BY <3>1, <3>2 DEF Endpoints
  <2>3. /\ DOMAIN m_mrs' = DOMAIN m_mrs \cup {r}
        /\ m_mrs' = [s \in DOMAIN m_mrs' |-> m_mrs'[s]]
        /\ m_mrs'[r] = mr /\ \A s \in DOMAIN m_mrs : m_mrs'[s] = m_mrs[s]
    BY <1>2, <2>1
  <2>4. {o.ep : o \in mr} = Domains
    <3>1. enable_ep["peer"] /\ (e = "shm" => enable_ep["shm"]) /\ (e = "peer" => ~enable_ep["shm"])
      BY <1>7, <2>1 DEF IInv, AttemptsExact, MrsExact, MrsWhen
    <3>2. CASE e = "peer"
      BY <2>0, <3>1, <3>2, MrOwn DEF Domains, Endpoints
    <3>3. CASE e = "shm"
      BY <2>0, <3>1, <3>3, MrOwn DEF Domains, Endpoints
    <3> QED BY <3>2, <3>3 DEF Endpoints
  <2>5. MrsOpen'
    <3>1. \A o \in mr : o \in open /\ o.field = "mr" /\ o.region = r
      BY <1>2, <2>2, MrOwn
    <3>2. \A o \in open' : o.field = "mr" =>
            \/ o \in keyless'
            \/ \E q \in DOMAIN m_mrs' : o \in m_mrs'[q]
            \/ \E q \in AllRegions : o \in InHand(q)'
      <4> SUFFICES ASSUME NEW o \in open', o.field = "mr", o \notin keyless',
                          \A q \in AllRegions : o \notin InHand(q)'
                   PROVE  \E q \in DOMAIN m_mrs' : o \in m_mrs'[q]
        OBVIOUS
      <4>1. CASE o \in mr
        BY <2>3, <4>1
      <4>2. CASE o \notin mr
        <5>1. \A q \in AllRegions : o \notin InHand(q)
          BY <1>1, <2>2, <4>2
        <5>2. \E q \in DOMAIN m_mrs : o \in m_mrs[q]
          BY <2>1, <5>1 DEF IInv, MrsExact, MrsOpen
        <5> QED BY <2>3, <5>2
      <4> QED BY <4>1, <4>2
    <3>3. \A q \in DOMAIN m_mrs' : \A o \in m_mrs'[q] : o \in open' /\ o.field = "mr" /\ o.region = q
      BY <2>1, <2>3, <3>1 DEF IInv, MrsExact, MrsOpen
    <3>4. \A o \in keyless' : /\ o \in open' /\ o.field = "mr" /\ o.region \notin DOMAIN m_mrs'
                              /\ o.region \in AllRegions /\ reg'[o.region] = Idle
      BY <1>0, <1>2, <2>1, <2>3 DEF IInv, MrsExact, MrsOpen
    <3>5. \A q \in AllRegions : InHand(q)' \subseteq open' /\ (reg'[q] # Idle => q \notin DOMAIN m_mrs')
      BY <1>0, <1>1, <2>1, <2>2, <2>3 DEF IInv, MrsExact, MrsOpen
    <3>6. DOMAIN m_mrs' \subseteq AllRegions
      BY <2>3 DEF IInv, MrsExact, MrsOpen
    <3> QED BY <2>3, <3>2, <3>3, <3>4, <3>5, <3>6 DEF MrsOpen
  <2>6. MrsWhen'
    <3>1. \A q \in DOMAIN m_mrs' : {o.ep : o \in m_mrs'[q]} = Domains'
      BY <1>3, <1>4, <2>3, <2>4
    <3>2. \A q \in AllRegions : reg'[q][1] = "shm" => enable_ep'["shm"]
      BY <1>0, <2>1 DEF IInv, MrsExact, MrsWhen, Idle
    <3>3. ~conf.ft => Heartbeat # r /\ reg'[Heartbeat] = Idle
      BY <1>0 DEF IInv, MrsExact, MrsWhen, AllRegions
    <3> QED BY <2>3, <3>1, <3>2, <3>3 DEF IInv, MrsExact, MrsWhen, RunPcs, StartPcs, DestroyPcs
  <2> QED BY <1>0, <2>1, <2>5, <2>6 DEF MrsExact
<1>8. CASE MrRegFail(r, e)
  <2>1. /\ reg'[r] = Idle /\ m_mrs' = m_mrs
        /\ open' = IF e = "shm" THEN open \ {Mr("peer", r)} ELSE open
        /\ keyless' = IF reg[r][2] = "key" THEN keyless \cup {Mr(e, r)} ELSE keyless
    BY <1>0, <1>8 DEF MrRegFail, IInv, TypeOK
  <2>2. InHand(r)' = {}
    BY <2>1 DEF InHand, Idle
  <2>3. /\ reg[r][2] = "key" => Mr(e, r) \in open'
        /\ \A o \in InHand(r) : o \in open' => o \in keyless'
    <3>1. CASE e = "peer"
      BY <1>0, <1>2, <2>1, <3>1, MrOwn DEF InHand
    <3>2. CASE e = "shm"
      <4>1. Mr("peer", r) # Mr("shm", r)
        BY MrOwn
      <4> QED BY <1>0, <1>2, <2>1, <3>2, <4>1, MrOwn DEF InHand
    <3> QED BY <3>1, <3>2 DEF Endpoints
  <2>4. \A o \in open : o \notin InHand(r) /\ (o.field # "mr" \/ o.region # r) => o \in open'
    BY <2>1, MrOwn
  <2>5. MrsOpen'
    <3>1. \A q \in DOMAIN m_mrs' : \A o \in m_mrs'[q] : o \in open' /\ o.field = "mr" /\ o.region = q
      BY <1>2, <2>1, <2>4, MrOwn DEF IInv, MrsExact, MrsOpen
    <3>2. \A o \in keyless' : /\ o \in open' /\ o.field = "mr" /\ o.region \notin DOMAIN m_mrs'
                              /\ o.region \in AllRegions /\ reg'[o.region] = Idle
      <4>1. \A o \in keyless : o \in open' /\ o.field = "mr" /\ o.region # r
        BY <1>2, <2>4, MrOwn DEF IInv, MrsExact, MrsOpen
      <4> QED BY <1>0, <1>2, <2>1, <2>3, <4>1, MrOwn DEF IInv, MrsExact, MrsOpen
    <3>3. \A q \in AllRegions : InHand(q)' \subseteq open' /\ (reg'[q] # Idle => q \notin DOMAIN m_mrs')
      <4>1. \A q \in AllRegions : q # r => \A o \in InHand(q) : o \in open'
        BY <2>4, MrOwn DEF IInv, MrsExact, MrsOpen
      <4> QED BY <1>0, <1>1, <2>1, <2>2, <4>1 DEF IInv, MrsExact, MrsOpen
    <3>4. \A o \in open' : o.field = "mr" =>
            \/ o \in keyless'
            \/ \E q \in DOMAIN m_mrs' : o \in m_mrs'[q]
            \/ \E q \in AllRegions : o \in InHand(q)'
      <4>1. \A o \in open' : o \in open
        BY <2>1
      <4> QED BY <1>1, <2>1, <2>3, <4>1 DEF IInv, MrsExact, MrsOpen
    <3> QED BY <2>1, <3>1, <3>2, <3>3, <3>4 DEF IInv, MrsExact, MrsOpen
  <2>6. MrsWhen'
    <3>1. \A q \in AllRegions : reg'[q][1] = "shm" => enable_ep'["shm"]
      BY <1>0, <2>1 DEF IInv, MrsExact, MrsWhen, Idle
    <3>2. ~conf.ft => reg'[Heartbeat] = Idle
      BY <1>0, <2>1 DEF IInv, MrsExact, MrsWhen, AllRegions
    <3> QED BY <1>3, <1>4, <2>1, <3>1, <3>2 DEF IInv, MrsExact, MrsWhen, RunPcs, StartPcs, DestroyPcs
  <2> QED BY <1>0, <2>1, <2>5, <2>6 DEF MrsExact
<1> QED BY <1>5, <1>6, <1>7, <1>8

\* mr_unreg, while the library runs or stops.
LEMMA MrUnregKeeps ==
  ASSUME IInv, NEW r, MrUnreg(r), pc = "running", pc' \in {"running", "destroy_shm"},
         pc' = "destroy_shm" => r = Heartbeat /\ \A q \in AllRegions : reg[q] = Idle,
         UNCHANGED <<conf, handle, attempt, enable_ep, any_comm>>
  PROVE  MrsExact' /\ reg' = reg /\ \A o \in open' : o.field # "mr" => o \in open
<1>1. /\ r \in DOMAIN m_mrs /\ open' = open \ m_mrs[r] /\ keyless' = keyless /\ reg' = reg
      /\ m_mrs' = [s \in DOMAIN m_mrs \ {r} |-> m_mrs[s]]
  BY DEF MrUnreg
<1>2. /\ DOMAIN m_mrs' = DOMAIN m_mrs \ {r}
      /\ m_mrs' = [s \in DOMAIN m_mrs' |-> m_mrs'[s]]
      /\ \A s \in DOMAIN m_mrs' : m_mrs'[s] = m_mrs[s]
  BY <1>1
<1>3. Domains' = Domains /\ \A q \in AllRegions : InHand(q)' = InHand(q)
  BY <1>1 DEF Domains, InHand, Mr
<1>4. MrsOpen'
  <2>1. r \in AllRegions /\ reg[r] = Idle /\ InHand(r) = {}
    BY <1>1 DEF IInv, MrsExact, MrsOpen, InHand, Idle
  <2>2. \A q \in AllRegions : InHand(q)' \subseteq open'
    BY <1>1, <1>3, <2>1, MrOwn DEF IInv, MrsExact, MrsOpen
  <2>3. \A s \in DOMAIN m_mrs' : \A o \in m_mrs'[s] : o \in open' /\ o.field = "mr" /\ o.region = s
    BY <1>1, <1>2 DEF IInv, MrsExact, MrsOpen
  <2>4. \A o \in keyless : o \in open'
    BY <1>1 DEF IInv, MrsExact, MrsOpen
  <2>5. \A o \in open' : o.field = "mr" =>
          \/ o \in keyless'
          \/ \E q \in DOMAIN m_mrs' : o \in m_mrs'[q]
          \/ \E q \in AllRegions : o \in InHand(q)'
    BY <1>1, <1>2, <1>3 DEF IInv, MrsExact, MrsOpen
  <2> QED BY <1>1, <1>2, <2>2, <2>3, <2>4, <2>5 DEF IInv, MrsExact, MrsOpen
<1>5. MrsWhen'
  <2>1. \A q \in DOMAIN m_mrs' : {o.ep : o \in m_mrs'[q]} = Domains'
    BY <1>2, <1>3 DEF IInv, MrsExact, MrsWhen, RunPcs
  <2> QED BY <1>1, <1>2, <2>1 DEF IInv, MrsExact, MrsWhen, StartPcs, DestroyPcs, RunPcs
<1> QED BY <1>1, <1>4, <1>5 DEF MrsExact

\* Every action keeps the invariant.
LEMMA StepIInv == IInv /\ [RNext]_rvars => IInv'
<1> SUFFICES ASSUME IInv, [RNext]_rvars PROVE IInv'
  OBVIOUS
<1>0. "peer" \in Endpoints /\ "shm" \in Endpoints /\ \A e \in Endpoints : attempt[e] \in Nat
  BY DEF Endpoints, IInv, TypeOK
<1>1. ASSUME StartPeer PROVE IInv'
  <2>1. pc = "start" /\ Begin("peer", "init_peer") /\ attempt["peer"] = 0 /\ pc \in StartPcs
    BY <1>1 DEF StartPeer, IInv, AttemptsExact, StartPcs
  <2>2. TypeOK' /\ InitTodo' /\ ScalableExact' /\ MrsExact' /\ ObjectsExact' /\ HandlesExact'
    BY <1>0, <2>1, BeginKeeps DEF InitPcs
  <2>3. AttemptsExact' /\ TodoExact'
    BY <1>0, <2>1 DEF Begin, SetHints, IInv, TypeOK, AttemptsExact, TodoExact, DestroyPcs, RunPcs, Endpoints
  <2> QED BY <2>2, <2>3 DEF IInv
<1>2. ASSUME StartShm PROVE IInv'
  <2>1. pc = "shm" /\ Begin("shm", "init_shm") /\ attempt["shm"] = 0 /\ pc \in StartPcs
    BY <1>2 DEF StartShm, IInv, AttemptsExact, StartPcs
  <2>2. TypeOK' /\ InitTodo' /\ ScalableExact' /\ MrsExact' /\ ObjectsExact' /\ HandlesExact'
    BY <1>0, <2>1, BeginKeeps DEF InitPcs
  <2>3. AttemptsExact' /\ TodoExact'
    BY <1>0, <2>1 DEF Begin, SetHints, IInv, TypeOK, AttemptsExact, TodoExact, DestroyPcs, RunPcs, Endpoints
  <2> QED BY <2>2, <2>3 DEF IInv
<1>3. ASSUME NoShm PROVE IInv'
  <2>1. /\ pc = "shm" /\ pc' = "ft_start"
        /\ UNCHANGED <<conf, handle, attempt, enable_ep, use_scalable_ep, open, todo, m_mrs, reg, keyless>>
    BY <1>3 DEF NoShm, mrVars
  <2>2. TypeOK' /\ AttemptsExact' /\ TodoExact' /\ InitTodo' /\ HandlesExact'
    BY <2>1 DEF IInv, TypeOK, AttemptsExact, TodoExact, InitTodo, HandlesExact, StartPcs, DestroyPcs, InitPcs, RunPcs
  <2>3. MrsExact' /\ ScalableExact'
    <3>1. \A r \in AllRegions : InHand(r)' = InHand(r)
      BY <2>1 DEF InHand, Mr
    <3>2. MrsOpen'
      BY <2>1, <3>1 DEF IInv, MrsExact, MrsOpen
    <3>3. MrsWhen'
      BY <2>1 DEF IInv, MrsExact, MrsWhen, StartPcs, RunPcs, DestroyPcs
    <3>4. ScalableExact'
      BY <2>1 DEF IInv, ScalableExact, InitPcs
    <3> QED BY <3>2, <3>3, <3>4 DEF MrsExact
  <2>4. ObjectsExact'
    BY <2>1 DEF IInv, ObjectsExact, Leaked, Held, Lost, Blocked, Pending, Destroyed, DestroyPcs
  <2> QED BY <2>2, <2>3, <2>4 DEF IInv
<1>4. ASSUME InitOpen PROVE IInv'
  <2>a. PICK e : e = Initialising
    OBVIOUS
  <2>b. PICK f : f = Head(todo)
    OBVIOUS
  <2>c. PICK new : new = Object(e, f)
    OBVIOUS
  <2>1. /\ pc \in InitPcs /\ todo # <<>> /\ e \in Endpoints /\ f # "sep"
        /\ handle' = [handle EXCEPT ![e][f] = new]
        /\ open' = open \cup {new} /\ todo' = Tail(todo)
        /\ UNCHANGED <<conf, pc, attempt, enable_ep, use_scalable_ep, m_mrs, reg, keyless, any_comm>>
    BY <1>0, <1>4, <2>a, <2>b, <2>c DEF InitOpen, Initialising, InitPcs, mrVars
  <2>2. /\ f \in Fields /\ todo' \in Seq(Kinds) /\ f = todo[1] /\ Len(todo) >= 1
        /\ Len(todo') = Len(todo) - 1 /\ \A k \in 1..Len(todo') : todo'[k] = todo[k + 1]
    <3>1. todo \in Seq(Kinds) /\ todo # <<>> /\ todo' = Tail(todo)
      BY <2>1 DEF IInv, TypeOK
    <3>2. f \in Kinds /\ f = todo[1] /\ Len(todo) >= 1
      BY <2>b, <3>1
    <3>3. todo' \in Seq(Kinds) /\ Len(todo') = Len(todo) - 1 /\ \A k \in 1..Len(todo') : todo'[k] = todo[k + 1]
      BY <3>1
    <3> QED BY <2>1, <3>2, <3>3 DEF Kinds
  <2>3. /\ new.ep = e /\ new.field = f /\ new.try = attempt[e]
        /\ new = [ep |-> e, field |-> f, try |-> attempt[e]]
        /\ f # "mr" /\ f \in Kinds /\ Slot(f) = f /\ attempt[e] \in Nat \ {0}
    <3>1. new = [ep |-> e, field |-> f, try |-> attempt[e]]
      BY <2>c DEF Object
    <3>2. f # "mr" /\ attempt[e] \in Nat \ {0}
      BY <1>0, <2>1, <2>2, <2>a DEF Fields, IInv, AttemptsExact, Initialising, InitPcs
    <3> QED BY <2>2, <3>1, <3>2, SlotTable
  <2>4. /\ handle' = [x \in Endpoints |-> handle'[x]]
        /\ \A x \in Endpoints : handle'[x] = [g \in Fields |-> handle'[x][g]]
        /\ handle'[e][f] = new
        /\ \A x \in Endpoints, g \in Fields : x # e \/ g # f => handle'[x][g] = handle[x][g]
    BY <2>1, <2>2 DEF IInv, TypeOK
  <2>5. TypeOK' /\ AttemptsExact' /\ TodoExact'
    BY <2>1, <2>2, <2>4 DEF IInv, TypeOK, AttemptsExact, TodoExact, StartPcs, DestroyPcs, InitPcs, RunPcs
  <2>6. MrsExact' /\ HandlesExact'
    <3>1. \A r \in AllRegions : InHand(r)' = InHand(r)
      BY <2>1 DEF InHand, Mr
    <3>2. MrsOpen'
      BY <2>1, <2>3, <3>1 DEF IInv, MrsExact, MrsOpen
    <3>3. MrsWhen'
      BY <2>1 DEF IInv, MrsExact, MrsWhen, StartPcs, RunPcs, DestroyPcs, InitPcs
    <3>4. HandlesExact'
      BY <2>3, <2>4 DEF IInv, HandlesExact
    <3> QED BY <3>2, <3>3, <3>4 DEF MrsExact
  <2>7. /\ ToOpen(f) /\ \A k : ToOpen(k)' => ToOpen(k)
        /\ \A k : k # f /\ ToOpen(k) => ToOpen(k)'
        /\ Initialising' = e
    <3>1. ToOpen(f)
      BY <2>2 DEF ToOpen
    <3>2. ASSUME NEW k, ToOpen(k)' PROVE ToOpen(k)
      <4>1. PICK i \in 1..Len(todo') : todo'[i] = k
        BY <3>2 DEF ToOpen
      <4>2. i + 1 \in 1..Len(todo) /\ todo[i + 1] = k
        BY <2>2, <4>1
      <4> QED BY <4>2 DEF ToOpen
    <3>3. ASSUME NEW k, k # f, ToOpen(k) PROVE ToOpen(k)'
      <4>1. PICK i \in 1..Len(todo) : todo[i] = k
        BY <3>3 DEF ToOpen
      <4>2. i - 1 \in 1..Len(todo') /\ todo'[i - 1] = k
        BY <2>2, <3>3, <4>1
      <4> QED BY <4>2 DEF ToOpen
    <3> QED BY <2>1, <2>a, <3>1, <3>2, <3>3 DEF Initialising
  <2>8. InitTodo'
    <3>1. ToOpen("sep")' => f # "ep"
      BY <2>1, <2>7 DEF IInv, InitTodo
    <3> QED BY <2>1, <2>3, <2>7, <2>a, <3>1 DEF IInv, InitTodo
  <2>9. ScalableExact'
    <3>1. ASSUME NEW x \in Endpoints, handle'[x]["ep"] # Null, handle'[x]["ep"].field = "sep"
          PROVE  use_scalable_ep'[x] \/ (x = e /\ (ToOpen("ep")' \/ ToOpen("sep")'))
      <4>1. CASE x = e /\ f = "ep"
        BY <2>3, <2>4, <3>1, <4>1
      <4>2. CASE ~(x = e /\ f = "ep")
        <5>1. handle'[x]["ep"] = handle[x]["ep"]
          BY <2>4, <4>2, SlotTable
        <5>2. use_scalable_ep[x] \/ (x = e /\ (ToOpen("ep") \/ ToOpen("sep")))
          BY <2>1, <2>a, <3>1, <5>1 DEF IInv, ScalableExact, InitPcs
        <5> QED BY <2>1, <2>7, <4>2, <5>2
      <4> QED BY <4>1, <4>2
    <3>2. \A o \in open' : o.field = "sep" /\ o.try = attempt'[o.ep] =>
            use_scalable_ep'[o.ep] \/ (o.ep = "shm" /\ attempt'["shm"] = 2)
      BY <2>1, <2>3 DEF IInv, ScalableExact
    <3> QED BY <2>1, <2>7, <3>1, <3>2 DEF ScalableExact
  <2>10. ObjectsExact'
    <3>0. \A x \in Endpoints : Pending(x)' = Fields /\ Pending(x) = Fields
      BY <2>1 DEF Pending, Destroyed, DestroyPcs, InitPcs
    <3>1. Held(new)'
      BY <2>1, <2>2, <2>3, <2>4, <3>0 DEF Held
    <3>2. ASSUME NEW o \in open, o.field # "mr", o # new
          PROVE  Leaked(o)' \/ Held(o)' \/ Lost(o)'
      <4>1. /\ o = [ep |-> o.ep, field |-> o.field, try |-> o.try]
            /\ o.ep \in Endpoints /\ o.field \in Kinds /\ Slot(o.field) \in Fields
            /\ Leaked(o) \/ Held(o) \/ Lost(o)
        BY <2>1, <3>2, SlotTable DEF IInv, ObjectsExact, Blocked, DestroyPcs, InitPcs
      <4>2. (Leaked(o) => Leaked(o)') /\ (Lost(o) => Lost(o)')
        BY <2>1 DEF Leaked, Lost
      <4>3. ASSUME Held(o), o.ep # e \/ Slot(o.field) # f PROVE Held(o)'
        BY <2>1, <2>4, <3>0, <4>1, <4>3 DEF Held
      <4>4. ASSUME Held(o), o.ep = e, Slot(o.field) = f PROVE Lost(o)
        <5>1. o.field = "sep" /\ f = "ep" /\ o.try = attempt[o.ep]
          <6>1. o.field # f
            BY <2>3, <3>2, <4>1, <4>4 DEF Held
          <6> QED BY <4>4, <6>1 DEF Slot, Held
        <5>2. ~use_scalable_ep[o.ep]
          BY <2>1, <2>7, <2>a, <4>4, <5>1 DEF IInv, InitTodo
        <5>3. o.ep = "shm" /\ attempt["shm"] = 2
          BY <3>2, <5>1, <5>2 DEF IInv, ScalableExact
        <5> QED BY <5>1, <5>2, <5>3 DEF Lost
      <4> QED BY <4>1, <4>2, <4>3, <4>4
    <3> QED BY <2>1, <2>3, <3>1, <3>2 DEF IInv, ObjectsExact
  <2> QED BY <2>5, <2>6, <2>8, <2>9, <2>10 DEF IInv
<1>5. ASSUME InitScalable PROVE IInv'
  <2>a. PICK e : e = Initialising
    OBVIOUS
  <2>b. PICK new : new = Object(e, "sep")
    OBVIOUS
  <2>1. /\ pc \in InitPcs /\ todo # <<>> /\ e \in Endpoints /\ Head(todo) = "sep"
        /\ todo' = IF use_scalable_ep'[e] THEN OpenScalable ELSE OpenEndpoint
        /\ UNCHANGED <<conf, pc, attempt, enable_ep, m_mrs, reg, keyless, any_comm>>
    BY <1>0, <1>5, <2>a DEF InitScalable, Initialising, InitPcs, mrVars
  <2>2. \/ /\ handle' = [handle EXCEPT ![e]["ep"] = new]
           /\ open' = open \cup {new} /\ use_scalable_ep' = use_scalable_ep
        \/ /\ use_scalable_ep' = [use_scalable_ep EXCEPT ![e] = FALSE]
           /\ handle' = handle /\ open' = open
    BY <1>5, <2>a, <2>b DEF InitScalable
  <2>3. /\ new.ep = e /\ new.field = "sep" /\ new.try = attempt[e]
        /\ new = [ep |-> e, field |-> "sep", try |-> attempt[e]]
        /\ "sep" \in Kinds /\ Slot("sep") = "ep" /\ "sep" # "mr" /\ attempt[e] \in Nat \ {0}
    <3>1. new = [ep |-> e, field |-> "sep", try |-> attempt[e]]
      BY <2>b DEF Object
    <3>2. attempt[e] \in Nat \ {0}
      BY <1>0, <2>1, <2>a DEF IInv, AttemptsExact, Initialising, InitPcs
    <3> QED BY <3>1, <3>2 DEF Kinds, Slot
  <2>4. ToOpen("sep")
    <3>1. todo \in Seq(Kinds) /\ Len(todo) >= 1 /\ todo[1] = "sep"
      BY <2>1 DEF IInv, TypeOK
    <3> QED BY <3>1 DEF ToOpen
  <2>5. /\ attempt[e] = 1 => use_scalable_ep[e]
        /\ \A o \in open : o.ep = e /\ o.try = attempt[e] => o.field \notin {"ep", "sep"}
    BY <2>1, <2>4, <2>a DEF IInv, InitTodo
  <2>6. /\ use_scalable_ep' \in [Endpoints -> BOOLEAN]
        /\ \A x \in Endpoints : x # e => use_scalable_ep'[x] = use_scalable_ep[x]
        /\ \A x \in Endpoints : use_scalable_ep'[x] => use_scalable_ep[x]
    BY <2>2 DEF IInv, TypeOK
  <2>7. /\ handle' = [x \in Endpoints |-> handle'[x]]
        /\ \A x \in Endpoints : handle'[x] = [g \in Fields |-> handle'[x][g]]
        /\ handle'[e]["ep"] = new \/ handle'[e]["ep"] = handle[e]["ep"]
        /\ \A x \in Endpoints, g \in Fields : x # e \/ g # "ep" => handle'[x][g] = handle[x][g]
    <3>1. CASE handle' = handle
      BY <2>1, <3>1 DEF IInv, TypeOK
    <3>2. CASE handle' = [handle EXCEPT ![e]["ep"] = new]
      BY <2>1, <3>2, SlotTable DEF IInv, TypeOK
    <3> QED BY <2>2, <3>1, <3>2
  <2>8. TypeOK' /\ TodoExact'
    <3>1. todo' \in Seq(Kinds)
      BY <2>1, InitOrderTable
    <3> QED BY <2>1, <2>6, <2>7, <3>1 DEF IInv, TypeOK, TodoExact, StartPcs, DestroyPcs, InitPcs
  <2>9. AttemptsExact'
    <3>1. \A x \in Endpoints : attempt[x] = 0 => use_scalable_ep'[x]
      BY <2>3, <2>6 DEF IInv, AttemptsExact
    <3> QED BY <2>1, <3>1 DEF IInv, AttemptsExact, InitPcs, RunPcs, DestroyPcs
  <2>10. MrsExact' /\ HandlesExact'
    <3>1. \A r \in AllRegions : InHand(r)' = InHand(r)
      BY <2>1 DEF InHand, Mr
    <3>2. MrsOpen'
      BY <2>1, <2>2, <2>3, <3>1 DEF IInv, MrsExact, MrsOpen
    <3>3. MrsWhen'
      BY <2>1 DEF IInv, MrsExact, MrsWhen, StartPcs, RunPcs, DestroyPcs, InitPcs
    <3>4. HandlesExact'
      BY <2>3, <2>7, SlotTable DEF IInv, HandlesExact
    <3> QED BY <3>2, <3>3, <3>4 DEF MrsExact
  <2>11. ~ToOpen("sep")' /\ (ToOpen("ep")' <=> ~use_scalable_ep'[e]) /\ Initialising' = e
    <3>1. CASE use_scalable_ep'[e]
      BY <2>1, <2>a, <3>1, InitOrderTable DEF ToOpen, Initialising
    <3>2. CASE ~use_scalable_ep'[e]
      <4>1. todo' = OpenEndpoint /\ Initialising' = e
        BY <2>1, <2>a, <3>2 DEF Initialising
      <4>2. 1 \in 1..Len(todo') /\ todo'[1] = "ep" /\ \A i \in 1..Len(todo') : todo'[i] = "ep"
        BY <4>1, InitOrderTable
      <4> QED BY <3>2, <4>1, <4>2 DEF ToOpen
    <3> QED BY <3>1, <3>2
  <2>12. InitTodo'
    BY <2>11 DEF InitTodo
  <2>13. ScalableExact'
    <3>1. ASSUME NEW x \in Endpoints, handle'[x]["ep"] # Null, handle'[x]["ep"].field = "sep"
          PROVE  use_scalable_ep'[x] \/ (x = e /\ ToOpen("ep")')
      <4>1. CASE x = e
        BY <2>11, <4>1
      <4>2. CASE x # e
        <5>1. use_scalable_ep[x]
          BY <2>1, <2>7, <2>a, <3>1, <4>2, SlotTable DEF IInv, ScalableExact, InitPcs
        <5> QED BY <2>6, <4>2, <5>1
      <4> QED BY <4>1, <4>2
    <3>2. ASSUME NEW o \in open', o.field = "sep", o.try = attempt'[o.ep]
          PROVE  use_scalable_ep'[o.ep] \/ (o.ep = "shm" /\ attempt'["shm"] = 2)
      <4>1. CASE o = new /\ use_scalable_ep' = use_scalable_ep
        <5>1. attempt["peer"] = 1 /\ attempt["shm"] \in 0..2
          BY <2>1 DEF IInv, AttemptsExact, InitPcs
        <5> QED BY <2>1, <2>3, <2>5, <4>1, <5>1 DEF Endpoints
      <4>2. CASE o \in open
        <5>1. o.ep # e /\ o.ep \in Endpoints
          BY <2>1, <2>5, <3>2, <4>2 DEF IInv, ObjectsExact
        <5> QED BY <2>1, <2>6, <3>2, <4>2, <5>1 DEF IInv, ScalableExact
      <4> QED BY <2>2, <4>1, <4>2
    <3> QED BY <2>1, <2>11, <3>1, <3>2 DEF ScalableExact
  <2>14. ObjectsExact'
    <3>0. \A x \in Endpoints : Pending(x)' = Fields /\ Pending(x) = Fields
      BY <2>1 DEF Pending, Destroyed, DestroyPcs, InitPcs
    <3>1. new \in open' => Held(new)' \/ new \in open
      <4>1. CASE handle' = [handle EXCEPT ![e]["ep"] = new]
        <5>1. handle'[e]["ep"] = new
          BY <2>1, <4>1, SlotTable DEF IInv, TypeOK
        <5> QED BY <2>1, <2>3, <3>0, <5>1, SlotTable DEF Held
      <4>2. CASE open' = open
        BY <4>2
      <4> QED BY <2>2, <4>1, <4>2
    <3>2. ASSUME NEW o \in open, o.field # "mr"
          PROVE  Leaked(o)' \/ Held(o)' \/ Lost(o)'
      <4>1. /\ o.ep \in Endpoints /\ o.field \in Kinds /\ Slot(o.field) \in Fields
            /\ Leaked(o) \/ Held(o) \/ Lost(o)
        BY <2>1, <3>2, SlotTable DEF IInv, ObjectsExact, Blocked, DestroyPcs, InitPcs
      <4>2. (Leaked(o) => Leaked(o)') /\ (Lost(o) => Lost(o)')
        BY <1>0, <2>1, <2>6 DEF Leaked, Lost
      <4>3. ASSUME Held(o) PROVE Held(o)'
        <5>1. o.ep # e \/ Slot(o.field) # "ep"
          BY <2>5, <3>2, <4>3 DEF Held, Slot
        <5> QED BY <2>1, <2>7, <3>0, <4>1, <4>3, <5>1 DEF Held
      <4> QED BY <4>1, <4>2, <4>3
    <3>3. \A o \in open' : o \in open \/ o = new
      BY <2>2
    <3> QED BY <2>1, <2>3, <3>1, <3>2, <3>3 DEF IInv, ObjectsExact
  <2> QED BY <2>8, <2>9, <2>10, <2>12, <2>13, <2>14 DEF IInv
<1>6. ASSUME InitFail PROVE IInv'
  <2>1. CASE pc = "init_shm" /\ ~conf.verbs /\ attempt["shm"] = 1
    <3>1. Begin("shm", "init_shm") /\ pc \in StartPcs
      BY <1>6, <2>1 DEF InitFail, StartPcs
    <3>2. TypeOK' /\ InitTodo' /\ ScalableExact' /\ MrsExact' /\ ObjectsExact' /\ HandlesExact'
      BY <1>0, <2>1, <3>1, BeginKeeps DEF InitPcs
    <3>3. AttemptsExact' /\ TodoExact'
      BY <1>0, <2>1, <3>1 DEF Begin, SetHints, IInv, TypeOK, AttemptsExact, TodoExact, DestroyPcs, RunPcs, Endpoints
    <3> QED BY <3>2, <3>3 DEF IInv
  <2>2. CASE ~(pc = "init_shm" /\ ~conf.verbs /\ attempt["shm"] = 1)
    <3>1. /\ pc \in {"init_peer", "init_shm"} /\ pc' = "thrown"
          /\ UNCHANGED <<conf, handle, attempt, enable_ep, use_scalable_ep, open, todo, m_mrs, reg, keyless>>
      BY <1>6, <2>2 DEF InitFail, mrVars
    <3>2. TypeOK' /\ AttemptsExact' /\ TodoExact' /\ InitTodo' /\ HandlesExact'
      BY <3>1 DEF IInv, TypeOK, AttemptsExact, TodoExact, InitTodo, HandlesExact, StartPcs, DestroyPcs, InitPcs, RunPcs
    <3>3. MrsExact' /\ ScalableExact'
      <4>1. \A r \in AllRegions : InHand(r)' = InHand(r)
        BY <3>1 DEF InHand, Mr
      <4>2. MrsOpen'
        BY <3>1, <4>1 DEF IInv, MrsExact, MrsOpen
      <4>3. MrsWhen'
        BY <3>1 DEF IInv, MrsExact, MrsWhen, StartPcs, RunPcs, DestroyPcs
      <4>4. ScalableExact'
        BY <3>1 DEF IInv, ScalableExact, InitPcs
      <4> QED BY <4>2, <4>3, <4>4 DEF MrsExact
    <3>4. ObjectsExact'
      BY <3>1 DEF IInv, ObjectsExact, Leaked, Held, Lost, Blocked, Pending, Destroyed, DestroyPcs
    <3> QED BY <3>2, <3>3, <3>4 DEF IInv
  <2> QED BY <2>1, <2>2
<1>7. ASSUME InitDone PROVE IInv'
  <2>1. /\ \/ pc = "init_peer" /\ pc' = "shm" /\ enable_ep' = [enable_ep EXCEPT !["peer"] = TRUE]
           \/ pc = "init_shm" /\ pc' = "ft_start" /\ enable_ep' = [enable_ep EXCEPT !["shm"] = TRUE]
        /\ UNCHANGED <<conf, handle, attempt, use_scalable_ep, open, todo, m_mrs, reg, keyless>>
        /\ todo = <<>>
    BY <1>7 DEF InitDone, Initialising, mrVars
  <2>2. AttemptsExact'
    BY <1>0, <2>1 DEF IInv, TypeOK, AttemptsExact, DestroyPcs, RunPcs
  <2>3. TypeOK' /\ TodoExact' /\ InitTodo' /\ HandlesExact'
    BY <2>1 DEF IInv, TypeOK, TodoExact, InitTodo, HandlesExact, StartPcs, DestroyPcs, InitPcs, RunPcs
  <2>4. MrsExact' /\ ScalableExact'
    <3>1. \A r \in AllRegions : InHand(r)' = InHand(r)
      BY <2>1 DEF InHand, Mr
    <3>2. MrsOpen'
      BY <2>1, <3>1 DEF IInv, MrsExact, MrsOpen
    <3>3. MrsWhen'
      <4>1. \A r \in AllRegions : reg[r] = Idle
        BY <2>1 DEF IInv, MrsExact, MrsWhen, RunPcs
      <4> QED BY <2>1, <4>1 DEF IInv, MrsExact, MrsWhen, StartPcs, RunPcs, DestroyPcs, Idle
    <3>4. ScalableExact'
      <4>1. ~ToOpen("ep") /\ ~ToOpen("sep")
        BY <2>1 DEF ToOpen
      <4> QED BY <2>1, <4>1 DEF IInv, ScalableExact, InitPcs
    <3> QED BY <3>2, <3>3, <3>4 DEF MrsExact
  <2>5. ObjectsExact'
    BY <2>1 DEF IInv, ObjectsExact, Leaked, Held, Lost, Blocked, Pending, Destroyed, DestroyPcs
  <2> QED BY <2>2, <2>3, <2>4, <2>5 DEF IInv
<1>8. ASSUME FtStart PROVE IInv'
  <2>1. /\ pc = "ft_start" /\ pc' \in RunPcs
        /\ UNCHANGED <<conf, handle, attempt, enable_ep, use_scalable_ep, todo, any_comm>>
    BY <1>8 DEF FtStart, RunPcs
  <2>2. AttemptsExact' /\ TodoExact' /\ InitTodo' /\ HandlesExact'
    BY <2>1 DEF IInv, AttemptsExact, TodoExact, InitTodo, HandlesExact, RunPcs, DestroyPcs, InitPcs
  <2>3. /\ DOMAIN m_mrs = {} /\ keyless = {} /\ \A r \in AllRegions : reg[r] = Idle /\ InHand(r) = {}
        /\ \A o \in open : o.field # "mr"
    <3>1. DOMAIN m_mrs = {} /\ keyless = {} /\ \A r \in AllRegions : reg[r] = Idle
      BY <2>1 DEF IInv, MrsExact, MrsWhen, StartPcs, RunPcs
    <3>2. \A r \in AllRegions : InHand(r) = {}
      BY <3>1 DEF InHand, Idle
    <3> QED BY <3>1, <3>2 DEF IInv, MrsExact, MrsOpen
  <2>4. MrsExact' /\ open' = open /\ reg' \in [AllRegions -> Calls]
    <3>1. CASE conf.ft
      <4>1. MrRegCall(Heartbeat) /\ Heartbeat \in AllRegions
        BY <1>8, <3>1 DEF FtStart, AllRegions
      <4> QED BY <2>1, <2>3, <3>1, <4>1, MrRegCallKeeps
    <3>2. CASE ~conf.ft
      <4>1. UNCHANGED <<open, m_mrs, reg, keyless>>
        BY <1>8, <3>2 DEF FtStart, mrVars
      <4>2. \A r \in AllRegions : InHand(r)' = InHand(r)
        BY <2>1, <4>1 DEF InHand, Mr
      <4>3. MrsOpen'
        BY <4>1, <4>2 DEF IInv, MrsExact, MrsOpen
      <4>4. MrsWhen'
        BY <2>1, <2>3, <4>1 DEF IInv, MrsExact, MrsWhen, StartPcs, RunPcs, DestroyPcs
      <4> QED BY <4>1, <4>3, <4>4 DEF IInv, TypeOK, MrsExact
    <3> QED BY <3>1, <3>2
  <2>5. TypeOK'
    BY <2>1, <2>4 DEF IInv, TypeOK
  <2>6. ObjectsExact' /\ ScalableExact'
    BY <2>1, <2>4, ObjectsKept
  <2> QED BY <2>2, <2>4, <2>5, <2>6 DEF IInv
<1>9. ASSUME FtStarted PROVE IInv'
  <2>1. /\ pc = "ft_reg" /\ pc' = "running" /\ pc \in RunPcs /\ pc' \in RunPcs
        /\ UNCHANGED <<conf, handle, attempt, enable_ep, use_scalable_ep, open, todo, m_mrs, reg, keyless, any_comm>>
    BY <1>9 DEF FtStarted, RunPcs, mrVars
  <2>2. TypeOK' /\ AttemptsExact' /\ TodoExact' /\ InitTodo' /\ HandlesExact'
    BY <2>1 DEF IInv, TypeOK, AttemptsExact, TodoExact, InitTodo, HandlesExact, RunPcs, DestroyPcs, InitPcs
  <2>3. MrsExact'
    <3>1. Domains' = Domains /\ \A r \in AllRegions : InHand(r)' = InHand(r)
      BY <2>1 DEF InHand, Mr, Domains
    <3>2. MrsOpen'
      BY <2>1, <3>1 DEF IInv, MrsExact, MrsOpen
    <3>3. MrsWhen'
      BY <2>1, <3>1 DEF IInv, MrsExact, MrsWhen, StartPcs, RunPcs, DestroyPcs
    <3> QED BY <3>2, <3>3 DEF MrsExact
  <2>4. ObjectsExact' /\ ScalableExact'
    BY <2>1, ObjectsKept
  <2> QED BY <2>2, <2>3, <2>4 DEF IInv
<1>10. ASSUME FtStop PROVE IInv'
  <2>1. /\ pc = "running" /\ pc' = "destroy_shm" /\ todo' = DestroyOrder
        /\ \A r \in AllRegions : reg[r] = Idle
        /\ UNCHANGED <<conf, handle, attempt, enable_ep, use_scalable_ep, any_comm>>
    BY <1>10 DEF FtStop
  <2>2. AttemptsExact' /\ HandlesExact' /\ InitTodo'
    BY <2>1 DEF IInv, AttemptsExact, HandlesExact, InitTodo, DestroyPcs, InitPcs, RunPcs
  <2>3. TodoExact'
    BY <2>1, DestroyOrderTable DEF TodoExact
  <2>4. MrsExact' /\ reg' = reg /\ \A o \in open' : o.field # "mr" => o \in open
    <3>1. CASE conf.ft /\ Heartbeat \in DOMAIN m_mrs
      <4>1. MrUnreg(Heartbeat)
        BY <1>10, <3>1 DEF FtStop
      <4> QED BY <2>1, <4>1, MrUnregKeeps
    <3>2. CASE ~(conf.ft /\ Heartbeat \in DOMAIN m_mrs)
      <4>1. UNCHANGED <<open, m_mrs, reg, keyless>>
        BY <1>10, <3>2 DEF FtStop, mrVars
      <4>2. \A r \in AllRegions : InHand(r)' = InHand(r)
        BY <2>1, <4>1 DEF InHand, Mr
      <4>3. MrsOpen'
        BY <4>1, <4>2 DEF IInv, MrsExact, MrsOpen
      <4>4. MrsWhen'
        BY <2>1, <3>2, <4>1 DEF IInv, MrsExact, MrsWhen, StartPcs, RunPcs, DestroyPcs
      <4> QED BY <4>1, <4>3, <4>4 DEF MrsExact
    <3> QED BY <3>1, <3>2
  <2>5. TypeOK'
    <3>1. todo' \in Seq(Kinds)
      BY <2>1, DestroyOrderTable
    <3> QED BY <2>1, <2>4, <3>1 DEF IInv, TypeOK, DestroyPcs
  <2>6. \A x \in Endpoints : Pending(x) = Fields /\ Pending(x)' = Fields
    <3>1. Len(todo') = 9 /\ \A g \in Fields : Order[g] > 0
      BY <2>1, DestroyOrderTable DEF Order, Fields
    <3> QED BY <2>1, <3>1 DEF Pending, Destroyed, DestroyPcs
  <2>7. ObjectsExact'
    <3>1. ASSUME NEW o \in open', o.field # "mr"
          PROVE  /\ o = [ep |-> o.ep, field |-> o.field, try |-> o.try]
                 /\ o.ep \in Endpoints /\ o.field \in Kinds /\ o.try \in Nat \ {0}
                 /\ Leaked(o)' \/ Held(o)' \/ Lost(o)'
      BY <2>1, <2>4, <2>6, <3>1 DEF IInv, ObjectsExact, Leaked, Held, Lost, Blocked, DestroyPcs
    <3> QED BY <3>1 DEF ObjectsExact
  <2>8. ScalableExact'
    BY <2>1, <2>4 DEF IInv, ScalableExact, InitPcs
  <2> QED BY <2>2, <2>3, <2>4, <2>5, <2>7, <2>8 DEF IInv
<1>11. ASSUME Destroy PROVE IInv'
  <2>a. PICK e : e = Destroying
    OBVIOUS
  <2>b. PICK f : f = Head(todo)
    OBVIOUS
  <2>c. PICK o : o = handle[e][f]
    OBVIOUS
  <2>1. /\ pc \in DestroyPcs /\ todo # <<>> /\ e \in Endpoints
        /\ handle' = [handle EXCEPT ![e][f] = Null]
        /\ open' = IF o # Null /\ OpenOn(o) = {} THEN open \ {o} ELSE open
        /\ todo' = Tail(todo)
        /\ UNCHANGED <<conf, pc, attempt, enable_ep, use_scalable_ep, m_mrs, reg, keyless, any_comm>>
    BY <1>0, <1>11, <2>a, <2>b, <2>c DEF Destroy, Destroying, DestroyPcs, mrVars
  <2>2. /\ f \in Fields /\ todo' \in Seq(Fields) /\ f = todo[1]
        /\ Len(todo) \in 1..9 /\ Len(todo') = Len(todo) - 1
        /\ \A k \in 1..Len(todo') : todo'[k] = todo[k + 1]
    <3>1. todo \in Seq(Fields) /\ todo # <<>> /\ todo' = Tail(todo) /\ Len(todo) \in 0..9
      BY <2>1 DEF IInv, TodoExact
    <3> QED BY <2>b, <3>1
  <2>3. /\ Order[f] = 10 - Len(todo)
        /\ \A g \in Fields : Order[g] \in 1..9
        /\ \A g \in Fields : Order[g] = Order[f] => g = f
    <3>1. Order[todo[1]] = 9 - Len(todo) + 1
      BY <2>1, <2>2 DEF IInv, TodoExact
    <3> QED BY <2>2, <3>1 DEF Order, Fields
  <2>4. o = Null \/ (Slot(o.field) = f /\ o.field # "mr")
    <3>1. o = Null \/ Slot(o.field) = f
      BY <2>1, <2>2, <2>c DEF IInv, HandlesExact
    <3>2. Slot("mr") # f
      BY <2>2 DEF Slot, Fields
    <3> QED BY <3>1, <3>2
  <2>5. f # "mr" /\ Destroying' = Destroying /\ Destroying \in Endpoints /\ e = Destroying
    BY <2>1, <2>2, <2>a DEF Fields, Destroying
  <2>6. /\ handle' = [x \in Endpoints |-> handle'[x]]
        /\ \A x \in Endpoints : handle'[x] = [g \in Fields |-> handle'[x][g]]
        /\ handle'[e][f] = Null
        /\ \A x \in Endpoints, g \in Fields : x # e \/ g # f => handle'[x][g] = handle[x][g]
    BY <2>1, <2>2 DEF IInv, TypeOK
  <2>7. TypeOK' /\ AttemptsExact' /\ HandlesExact' /\ InitTodo'
    <3>0. todo' \in Seq(Kinds)
      BY <2>2 DEF Kinds
    <3>1. TypeOK'
      BY <2>1, <2>6, <3>0 DEF IInv, TypeOK
    <3>2. AttemptsExact'
      BY <2>1 DEF IInv, AttemptsExact, DestroyPcs, RunPcs
    <3>3. HandlesExact'
      BY <2>1, <2>6 DEF IInv, HandlesExact
    <3>4. InitTodo'
      BY <2>1 DEF InitTodo, DestroyPcs, InitPcs
    <3> QED BY <3>1, <3>2, <3>3, <3>4
  <2>8. TodoExact'
    <3>1. ASSUME NEW k \in 1..Len(todo') PROVE Order[todo'[k]] = 9 - Len(todo') + k
      <4>1. k + 1 \in 1..Len(todo) /\ todo'[k] = todo[k + 1]
        BY <2>2
      <4>2. Order[todo[k + 1]] = 9 - Len(todo) + (k + 1)
        BY <2>1, <4>1 DEF IInv, TodoExact
      <4> QED BY <2>2, <4>1, <4>2
    <3>2. Len(todo') \in 0..9
      <4>1. Len(todo) \in 1..9 /\ Len(todo') = Len(todo) - 1
        BY <2>2
      <4>2. \A k \in 1..9 : k - 1 \in 0..9
        OBVIOUS
      <4> QED BY <4>1, <4>2
    <3> QED BY <2>2, <3>1, <3>2 DEF TodoExact
  \* a scalable endpoint that is lost is not the one that is closed
  <2>9. /\ \A p \in open : p.field = "mr" \/ Lost(p) => p \in open'
        /\ \A p \in open' : p \in open
    <3>1. o # Null => ~Lost(o)
      <4>1. ASSUME o # Null, Lost(o) PROVE FALSE
        <5>1. f = "ep" /\ o.field = "sep"
          BY <2>4, <4>1 DEF Lost, Slot
        <5>2. use_scalable_ep[e]
          BY <2>1, <2>c, <4>1, <5>1 DEF IInv, ScalableExact, DestroyPcs, InitPcs
        <5>3. attempt["peer"] = 1
          BY <2>1 DEF IInv, AttemptsExact, DestroyPcs
        <5>4. e = "shm" \/ e = "peer"
          BY <2>1 DEF Endpoints
        <5>5. CASE e = "shm"
          BY <4>1, <5>2, <5>5 DEF Lost
        <5>6. CASE e = "peer"
          BY <2>1, <2>2, <2>c, <4>1, <5>6 DEF IInv, HandlesExact, Lost
        <5> QED BY <5>4, <5>5, <5>6
      <4> QED BY <4>1
    <3> QED BY <2>1, <2>4, <3>1
  <2>10. MrsExact' /\ ScalableExact'
    <3>1. Domains' = Domains /\ \A r \in AllRegions : InHand(r)' = InHand(r)
      BY <2>1 DEF InHand, Mr, Domains
    <3>2. MrsOpen'
      <4>1. \A r \in AllRegions : \A p \in InHand(r) : p \in open'
        BY <2>9, MrOwn DEF IInv, MrsExact, MrsOpen
      <4> QED BY <2>1, <2>9, <3>1, <4>1 DEF IInv, MrsExact, MrsOpen
    <3>3. MrsWhen'
      BY <2>1, <3>1 DEF IInv, MrsExact, MrsWhen, StartPcs, RunPcs, DestroyPcs
    <3>4. ScalableExact'
      BY <2>1, <2>6, <2>9, SlotTable DEF IInv, ScalableExact, InitPcs, DestroyPcs
    <3> QED BY <3>2, <3>3, <3>4 DEF MrsExact
  <2>11. /\ Pending(e) = {g \in Fields : Order[g] > 9 - Len(todo)}
         /\ Pending(e)' = {g \in Fields : Order[g] > 9 - Len(todo')}
         /\ \A x \in Endpoints : x # e => Pending(x)' = Pending(x)
    BY <2>1, <2>5 DEF Pending, Destroyed
  <2>12. ObjectsExact'
    <3> SUFFICES ASSUME NEW p \in open', p.field # "mr"
                 PROVE  /\ p = [ep |-> p.ep, field |-> p.field, try |-> p.try]
                        /\ p.ep \in Endpoints /\ p.field \in Kinds /\ p.try \in Nat \ {0}
                        /\ Leaked(p)' \/ Held(p)' \/ Lost(p)' \/ Blocked(p)'
      BY DEF ObjectsExact
    <3>1. /\ p \in open
          /\ p = [ep |-> p.ep, field |-> p.field, try |-> p.try]
          /\ p.ep \in Endpoints /\ p.field \in Kinds /\ p.try \in Nat \ {0}
          /\ Leaked(p) \/ Held(p) \/ Lost(p) \/ Blocked(p)
          /\ Slot(p.field) \in Fields /\ Order[Slot(p.field)] = Order[p.field]
      BY <2>9, SlotTable DEF IInv, ObjectsExact
    <3>2. (Leaked(p) => Leaked(p)') /\ \A q : Lost(q)' = Lost(q)
      BY <2>1 DEF Leaked, Lost
    <3>3. Blocked(p) => Blocked(p)'
      BY <2>1, <2>9, <3>2 DEF Blocked
    \* an object of another field keeps its handle and its place
    <3>4. ASSUME Held(p), p.ep # e \/ Slot(p.field) # f
          PROVE  Held(p)'
      <4>1. handle'[p.ep][Slot(p.field)] = handle[p.ep][Slot(p.field)] /\ attempt' = attempt
        BY <2>1, <2>6, <3>1, <3>4
      <4>2. Slot(p.field) \in Pending(p.ep)'
        <5>1. CASE p.ep # e
          BY <2>11, <3>1, <3>4, <5>1 DEF Held
        <5>2. CASE p.ep = e
          <6>1. Order[Slot(p.field)] > 9 - Len(todo) /\ Order[Slot(p.field)] # 10 - Len(todo)
            BY <2>3, <2>11, <3>1, <3>4, <5>2 DEF Held
          <6>2. Order[Slot(p.field)] \in 1..9 /\ Len(todo) \in 1..9 /\ Len(todo') = Len(todo) - 1
            BY <2>2, <2>3, <3>1
          <6>3. Order[Slot(p.field)] > 9 - Len(todo')
            BY <6>1, <6>2
          <6> QED BY <2>11, <3>1, <5>2, <6>3
        <5> QED BY <5>1, <5>2
      <4> QED BY <3>4, <4>1, <4>2 DEF Held
    \* the object that is closed stays open only if libfabric refuses
    <3>5. ASSUME Held(p), p.ep = e, Slot(p.field) = f
          PROVE  Blocked(p)'
      <4>1. p = o /\ p # Null /\ p.try = attempt[e]
        BY <3>1, <3>5, <2>c, ResourcesAssumption DEF Held, Kinds
      <4>2. OpenOn(p) # {} /\ open' = open
        BY <2>1, <4>1
      <4>3. PICK q \in OpenOn(p) : TRUE
        BY <4>2
      <4>4. /\ q \in open /\ q.ep = p.ep /\ q.try = p.try
            /\ q.field = "mr" => p.field = "domain"
            /\ q.field = "sep" => p.field = "domain" \/ use_scalable_ep[p.ep]
            /\ q.field = "domain" => p.field = "fabric"
            /\ q.field # "fabric"
            /\ q.field \in Kinds => Order[q.field] < Order[p.field]
        BY <3>1, OpenOnEarlier
      <4>5. CASE q.field = "mr"
        BY <2>1, <4>2, <4>4, <4>5 DEF Blocked
      <4>6. CASE q.field # "mr"
        <5>1. /\ q.field \in Kinds /\ (Leaked(q) \/ Held(q) \/ Lost(q) \/ Blocked(q))
              /\ Order[q.field] < 10 - Len(todo) /\ Order[q.field] \in 1..9
              /\ Order[Slot(q.field)] = Order[q.field]
          <6>1. q.field \in Kinds /\ (Leaked(q) \/ Held(q) \/ Lost(q) \/ Blocked(q))
            BY <4>4, <4>6 DEF IInv, ObjectsExact
          <6>2. Order[p.field] = 10 - Len(todo)
            BY <2>3, <3>1, <3>5
          <6> QED BY <4>4, <6>1, <6>2, SlotTable
        <5>2. ~Leaked(q)
          BY <3>5, <4>1, <4>4 DEF Leaked
        <5>3. ~Held(q)
          <6>1. Slot(q.field) \notin Pending(e)
            BY <2>2, <2>11, <5>1
          <6> QED BY <3>5, <4>4, <6>1 DEF Held
        <5>4. CASE Lost(q)
          BY <2>1, <3>2, <4>2, <4>4, <5>4 DEF Blocked, Lost
        <5>5. CASE Blocked(q)
          <6>1. q.field = "domain" /\ \E m \in open : m.ep = p.ep /\ (m.field = "mr" \/ Lost(m))
            BY <4>4, <5>5 DEF Blocked
          <6> QED BY <2>1, <3>2, <4>2, <4>4, <6>1 DEF Blocked
        <5> QED BY <5>1, <5>2, <5>3, <5>4, <5>5
      <4> QED BY <4>5, <4>6
    <3> QED BY <3>1, <3>2, <3>3, <3>4, <3>5
  <2> QED BY <2>7, <2>8, <2>10, <2>12 DEF IInv
<1>12. ASSUME DestroyDone PROVE IInv'
  <2>a. PICK e : e = Destroying
    OBVIOUS
  <2>1. /\ pc \in DestroyPcs /\ e \in Endpoints /\ (~enable_ep[e] \/ todo = <<>>)
        /\ e = "shm" => pc = "destroy_shm" /\ pc' = "destroy_peer" /\ todo' = DestroyOrder
        /\ e = "peer" => pc = "destroy_peer" /\ pc' = "stopped" /\ todo' = <<>>
        /\ enable_ep' = [enable_ep EXCEPT ![e] = FALSE]
        /\ UNCHANGED <<conf, handle, attempt, use_scalable_ep, open, m_mrs, reg, keyless, any_comm>>
    BY <1>0, <1>12, <2>a DEF DestroyDone, Destroying, DestroyPcs, mrVars
  <2>2. e \in {"peer", "shm"} /\ e = Destroying
    BY <2>1, <2>a DEF Endpoints
  <2>3. TypeOK' /\ HandlesExact' /\ MrsExact' /\ InitTodo' /\ ScalableExact'
    <3>1. todo' \in Seq(Kinds)
      <4>1. CASE e = "shm"
        BY <2>1, <4>1, DestroyOrderTable
      <4>2. CASE e = "peer"
        <5>1. todo' = <<>>
          BY <2>1, <4>2
        <5> QED BY <5>1
      <4> QED BY <2>2, <4>1, <4>2
    <3>0. pc' \in {"destroy_peer", "stopped"}
      BY <2>1, <2>2
    <3>2. TypeOK'
      <4>2. enable_ep' = [x \in Endpoints |-> enable_ep'[x]]
        BY <2>1, <2>2 DEF IInv, TypeOK
      <4> QED BY <2>1, <3>0, <3>1, <4>2 DEF IInv, TypeOK, DestroyPcs
    <3>3. HandlesExact'
      BY <2>1 DEF IInv, HandlesExact
    <3>4. MrsExact'
      <4>1. \A r \in AllRegions : reg[r] = Idle
        BY <2>1 DEF IInv, MrsExact, MrsWhen, DestroyPcs, RunPcs
      <4>2. \A r \in AllRegions : InHand(r)' = InHand(r)
        BY <2>1 DEF InHand, Mr
      <4>3. MrsOpen'
        BY <2>1, <4>2 DEF IInv, MrsExact, MrsOpen
      <4>4. MrsWhen'
        BY <2>1, <3>0, <4>1 DEF IInv, MrsExact, MrsWhen, StartPcs, RunPcs, DestroyPcs, Idle
      <4> QED BY <4>3, <4>4 DEF MrsExact
    <3>5. InitTodo' /\ ScalableExact'
      BY <2>1, <3>0 DEF IInv, InitTodo, ScalableExact, InitPcs, DestroyPcs
    <3> QED BY <3>2, <3>3, <3>4, <3>5
  <2>4. AttemptsExact'
    BY <1>0, <2>1, <2>2 DEF IInv, TypeOK, AttemptsExact, DestroyPcs, RunPcs
  <2>5. TodoExact'
    <3>1. CASE e = "shm"
      <4>1. todo' = DestroyOrder
        BY <2>1, <3>1
      <4> QED BY <4>1, DestroyOrderTable DEF TodoExact
    <3>2. CASE e = "peer"
      <4>1. pc' = "stopped"
        BY <2>1, <3>2
      <4> QED BY <4>1 DEF TodoExact, DestroyPcs
    <3> QED BY <2>2, <3>1, <3>2
  \* nothing of the endpoint is left to close
  <2>6. ASSUME NEW p \in open, p.field # "mr", p.ep = e PROVE ~Held(p)
    <3>1. Slot(p.field) \in Fields /\ p.try # 0
      BY <2>6, SlotTable DEF IInv, ObjectsExact
    <3>2. CASE todo = <<>>
      <4>1. Pending(e) = {}
        BY <2>1, <2>2, <3>2 DEF Pending, Order, Fields
      <4> QED BY <2>6, <4>1 DEF Held
    <3>3. CASE ~enable_ep[e]
      <4>1. attempt[e] = 0
        BY <2>1, <2>2, <3>3 DEF IInv, AttemptsExact, DestroyPcs
      <4> QED BY <2>6, <3>1, <4>1 DEF Held
    <3> QED BY <2>1, <3>2, <3>3
  <2>7. \A x \in Endpoints : x # e => Pending(x)' = Pending(x)
    <3>1. CASE e = "shm"
      <4>1. Len(todo') = 9 /\ pc = "destroy_shm" /\ pc' = "destroy_peer"
        BY <2>1, <3>1, DestroyOrderTable
      <4>2. {g \in Fields : Order[g] > 9 - 9} = Fields
        BY DEF Order, Fields
      <4>3. Pending("peer") = Fields /\ Pending("peer")' = Fields
        BY <4>1, <4>2 DEF Pending, Destroyed, DestroyPcs, Destroying
      <4> QED BY <3>1, <4>3 DEF Endpoints
    <3>2. CASE e = "peer"
      <4>1. Pending("shm") = {} /\ Pending("shm")' = {}
        BY <2>1, <3>2 DEF Pending, Destroyed, DestroyPcs, Destroying
      <4> QED BY <3>2, <4>1 DEF Endpoints
    <3> QED BY <2>2, <3>1, <3>2
  <2>8. ObjectsExact'
    <3>1. ASSUME NEW p \in open, p.field # "mr"
          PROVE  /\ p = [ep |-> p.ep, field |-> p.field, try |-> p.try]
                 /\ p.ep \in Endpoints /\ p.field \in Kinds /\ p.try \in Nat \ {0}
                 /\ Leaked(p)' \/ Held(p)' \/ Lost(p)' \/ Blocked(p)'
      <4>1. /\ p = [ep |-> p.ep, field |-> p.field, try |-> p.try]
            /\ p.ep \in Endpoints /\ p.field \in Kinds /\ p.try \in Nat \ {0}
            /\ Leaked(p) \/ Held(p) \/ Lost(p) \/ Blocked(p)
        BY <3>1 DEF IInv, ObjectsExact
      <4>2. (Leaked(p) => Leaked(p)') /\ \A q : Lost(q)' = Lost(q)
        BY <2>1 DEF Leaked, Lost
      <4>3. Held(p) => Held(p)'
        BY <2>1, <2>6, <2>7, <3>1, <4>1 DEF Held
      <4>4. Blocked(p) => Blocked(p)'
        BY <2>1, <2>2, <4>2 DEF Blocked, DestroyPcs
      <4> QED BY <4>1, <4>2, <4>3, <4>4
    <3> QED BY <2>1, <3>1 DEF ObjectsExact
  <2> QED BY <2>3, <2>4, <2>5, <2>8 DEF IInv
<1>13. ASSUME NEW r \in Regions, AppReg(r) PROVE IInv'
  <2>1. /\ pc = "running" /\ pc' = "running" /\ MrRegCall(r) /\ r \notin DOMAIN m_mrs
        /\ \A o \in open : o.field = "mr" => o.region # r
        /\ UNCHANGED <<conf, handle, attempt, enable_ep, use_scalable_ep, todo, any_comm>>
        /\ r # Heartbeat /\ r \in AllRegions /\ pc \in RunPcs /\ pc' \in RunPcs
    BY <1>13, ResourcesAssumption DEF AppReg, AllRegions, RunPcs
  <2>2. MrsExact' /\ reg' \in [AllRegions -> Calls] /\ open' = open
    BY <2>1, MrRegCallKeeps
  <2>3. TypeOK' /\ AttemptsExact' /\ TodoExact' /\ InitTodo' /\ HandlesExact'
    BY <2>1, <2>2 DEF IInv, TypeOK, AttemptsExact, TodoExact, InitTodo, HandlesExact, DestroyPcs, InitPcs
  <2>4. ObjectsExact' /\ ScalableExact'
    BY <2>1, <2>2, ObjectsKept
  <2> QED BY <2>2, <2>3, <2>4 DEF IInv
<1>14. ASSUME NEW r \in AllRegions, MrReg(r) PROVE IInv'
  <2>1. PICK e \in Endpoints : FiMrReg(r, e) \/ FiMrKey(r, e) \/ MrRegFail(r, e)
    BY <1>14 DEF MrReg
  <2>2. /\ UNCHANGED <<conf, pc, handle, attempt, enable_ep, use_scalable_ep, todo, any_comm>>
        /\ reg[r] # Idle
    BY <1>14, <2>1 DEF MrReg, FiMrReg, FiMrKey, MrRegFail, Idle
  <2>3. pc \in RunPcs
    BY <2>2 DEF IInv, MrsExact, MrsWhen
  <2>4. /\ MrsExact' /\ reg' \in [AllRegions -> Calls]
        /\ \A o \in open' : o.field # "mr" => o \in open
    BY <2>1, <2>2, <2>3, MrRegKeeps
  <2>5. TypeOK' /\ AttemptsExact' /\ TodoExact' /\ InitTodo' /\ HandlesExact'
    BY <2>2, <2>3, <2>4 DEF IInv, TypeOK, AttemptsExact, TodoExact, InitTodo, HandlesExact, DestroyPcs, InitPcs, RunPcs
  <2>6. ObjectsExact' /\ ScalableExact'
    BY <2>2, <2>3, <2>4, ObjectsKept
  <2> QED BY <2>4, <2>5, <2>6 DEF IInv
<1>15. ASSUME NEW r \in Regions, AppUnreg(r) PROVE IInv'
  <2>1. /\ pc = "running" /\ pc' = "running" /\ MrUnreg(r) /\ pc \in RunPcs /\ pc' \in RunPcs
        /\ UNCHANGED <<conf, handle, attempt, enable_ep, use_scalable_ep, todo, any_comm>>
    BY <1>15 DEF AppUnreg, RunPcs
  <2>2. MrsExact' /\ reg' = reg /\ \A o \in open' : o.field # "mr" => o \in open
    BY <2>1, MrUnregKeeps
  <2>3. TypeOK' /\ AttemptsExact' /\ TodoExact' /\ InitTodo' /\ HandlesExact'
    BY <2>1, <2>2 DEF IInv, TypeOK, AttemptsExact, TodoExact, InitTodo, HandlesExact, DestroyPcs, InitPcs
  <2>4. ObjectsExact' /\ ScalableExact'
    BY <2>1, <2>2, ObjectsKept
  <2> QED BY <2>2, <2>3, <2>4 DEF IInv
<1>16. ASSUME UNCHANGED rvars PROVE IInv'
  <2>1. TypeOK' /\ AttemptsExact' /\ TodoExact' /\ HandlesExact'
    BY <1>16 DEF rvars, mrVars, IInv, TypeOK, AttemptsExact, TodoExact, HandlesExact
  <2>2. MrsExact'
    <3>1. Domains' = Domains /\ \A r \in AllRegions : InHand(r)' = InHand(r)
      BY <1>16 DEF rvars, mrVars, Domains, InHand, Mr
    <3>2. MrsOpen' /\ MrsWhen'
      BY <1>16, <3>1 DEF rvars, mrVars, IInv, MrsExact, MrsOpen, MrsWhen
    <3> QED BY <3>2 DEF MrsExact
  <2>3. ObjectsExact'
    <3>1. \A x \in Endpoints : Pending(x)' = Pending(x)
      BY <1>16 DEF rvars, Pending, Destroyed, Destroying
    <3> QED BY <1>16, <3>1 DEF rvars, IInv, ObjectsExact, Leaked, Held, Lost, Blocked
  <2>4. InitTodo' /\ ScalableExact'
    <3>1. (\A k : ToOpen(k)' = ToOpen(k)) /\ Initialising' = Initialising
      BY <1>16 DEF rvars, ToOpen, Initialising
    <3> QED BY <1>16, <3>1 DEF rvars, IInv, InitTodo, ScalableExact
  <2> QED BY <2>1, <2>2, <2>3, <2>4 DEF IInv
<1> QED
  BY <1>1, <1>2, <1>3, <1>4, <1>5, <1>6, <1>7, <1>8, <1>9, <1>10, <1>11, <1>12, <1>13, <1>14,
     <1>15, <1>16 DEF RNext

-----------------------------------------------------------------------------
(* Theorems.                                                               *)

\* The invariant holds of every reachable state.
LEMMA Invariant == RSpec => []IInv
BY InitIInv, StepIInv, PTL DEF RSpec

\* Every registration libfabric has open is listed in m_mrs, in the hands of a
\* running mr_reg, or one for which fi_mr_key has failed, whichever calls of
\* whichever mr_reg fail; a listed region is registered in each domain in use.
THEOREM RegionsAccountedInvariant == RSpec => []RegionsAccounted
<1>1. IInv => RegionsAccounted
  <2> SUFFICES ASSUME IInv PROVE RegionsAccounted
    OBVIOUS
  <2>1. \A o : o \in {p \in open : p.field = "mr"}
               <=> o \in (UNION {m_mrs[r] : r \in DOMAIN m_mrs}) \cup keyless
                         \cup (UNION {InHand(r) : r \in AllRegions})
    <3>1. \A r \in AllRegions : \A o \in InHand(r) : o \in open /\ o.field = "mr"
      BY MrOwn DEF IInv, MrsExact, MrsOpen
    <3>2. \A r \in DOMAIN m_mrs : \A o \in m_mrs[r] : o \in open /\ o.field = "mr"
      BY DEF IInv, MrsExact, MrsOpen
    <3>3. \A o \in keyless : o \in open /\ o.field = "mr"
      BY DEF IInv, MrsExact, MrsOpen
    <3>4. \A o \in open : o.field = "mr" =>
            \/ o \in keyless
            \/ \E r \in DOMAIN m_mrs : o \in m_mrs[r]
            \/ \E r \in AllRegions : o \in InHand(r)
      BY DEF IInv, MrsExact, MrsOpen
    <3> QED BY <3>1, <3>2, <3>3, <3>4
  <2>2. pc = "running" => \A r \in DOMAIN m_mrs : {o.ep : o \in m_mrs[r]} = Domains
    BY DEF IInv, MrsExact, MrsWhen, RunPcs
  <2> QED BY <2>1, <2>2 DEF RegionsAccounted
<1> QED BY <1>1, Invariant, PTL

\* The destructor closes everything but what a failed attempt at the shm endpoint,
\* an overwritten scalable endpoint or a region nobody has unregistered keeps it
\* from closing.
THEOREM AllClosedInvariant == RSpec => []AllClosed
<1>1. IInv => AllClosed
  <2> DEFINE lost == {o \in open : /\ o.field = "sep" /\ o.ep = "shm"
                                   /\ attempt["shm"] = 2 /\ ~use_scalable_ep["shm"]}
             left == keyless \cup lost \cup UNION {m_mrs[r] : r \in DOMAIN m_mrs \ {Heartbeat}}
  <2> SUFFICES ASSUME IInv, pc = "stopped", NEW o \in open
               PROVE  \/ o.ep = "shm" /\ o.try = 1 /\ attempt["shm"] = 2
                      \/ o \in left
                      \/ o.field \in {"domain", "fabric"} /\ \E m \in left : m.ep = o.ep
    BY DEF AllClosed
  <2>0. Heartbeat \notin DOMAIN m_mrs /\ \A r \in AllRegions : InHand(r) = {}
    BY DEF IInv, MrsExact, MrsWhen, RunPcs, InHand, Idle
  <2>1. \A p \in open : p.field = "mr" \/ Lost(p) => p \in left
    <3>1. \A p \in open : p.field = "mr" => p \in keyless \/ \E r \in DOMAIN m_mrs : p \in m_mrs[r]
      BY <2>0 DEF IInv, MrsExact, MrsOpen
    <3>2. \A p \in open : Lost(p) => p \in lost
      BY DEF Lost
    <3> QED BY <2>0, <3>1, <3>2
  <2>2. CASE o.field = "mr"
    BY <2>1, <2>2
  <2>3. CASE o.field # "mr"
    <3>1. o.ep \in Endpoints /\ (Leaked(o) \/ Held(o) \/ Lost(o) \/ Blocked(o))
      BY <2>3 DEF IInv, ObjectsExact
    <3>2. ~Held(o)
      BY <3>1 DEF Held, Pending, Destroyed, DestroyPcs, Endpoints
    <3> QED BY <2>1, <3>1, <3>2 DEF Leaked, Blocked
  <2> QED BY <2>2, <2>3
<1> QED BY <1>1, Invariant, PTL

=============================================================================
