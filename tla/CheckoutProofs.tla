---------------------------- MODULE CheckoutProofs ----------------------------
(***************************************************************************)
(* What holds of a checkout for any daemons, agents and claims and any     *)
(* number of starts.  The OR-Set of the claims board forgets the order in  *)
(* which operations came and how often, and of the claims a daemon         *)
(* registers no two overlap there without a wait or a peer's claim.  Of    *)
(* the starts and stops at once no second daemon comes up, a start that is *)
(* alone succeeds, and a stop that says so has silenced the address.  A    *)
(* read of a branch's index that warns of nothing is right.                *)
(***************************************************************************)
EXTENDS Checkout, TLAPS

------------------------------------------------------------------------------
(* The claims board. *)

AddsOf(ops) == {op \in ops : op.kind = "add"}
ObservedBy(ops) == UNION {op.observed : op \in {x \in ops : x.kind = "remove"}}

\* OrSetState in memory is the fold of the segments on disk.
BoardInv ==
  /\ DOMAIN log = Daemon /\ DOMAIN adds = Daemon /\ DOMAIN removed = Daemon
  /\ \A d \in Daemon : \A op \in log[d] : op.kind \in {"add", "remove"}
  /\ \A d \in Daemon : adds[d] = AddsOf(log[d]) /\ removed[d] = ObservedBy(log[d])

\* One more operation, new or known, is folded in by apply().
LEMMA FoldOne ==
  ASSUME NEW ops, NEW op, op.kind \in {"add", "remove"}
  PROVE  /\ AddsOf(ops \union {op}) =
              IF op.kind = "add" THEN AddsOf(ops) \union {op} ELSE AddsOf(ops)
         /\ ObservedBy(ops \union {op}) =
              IF op.kind = "remove" THEN ObservedBy(ops) \union op.observed ELSE ObservedBy(ops)
  BY DEF AddsOf, ObservedBy

\* What POST, DELETE and an exchange do with an operation.
Stores(d, op) ==
  /\ op.kind \in {"add", "remove"}
  /\ log' = [log EXCEPT ![d] = @ \union {op}]
  /\ Apply(d, op)

\* A daemon that stores an operation and applies it keeps the fold (and one
\* that is none of ours changes nothing).
LEMMA ApplyInv ==
  ASSUME BoardInv, NEW d, NEW op, Stores(d, op)
  PROVE  BoardInv'
  <1> USE DEF Stores
  <1>1. \A e \in Daemon : log'[e] = IF e = d THEN log[e] \union {op} ELSE log[e]
    BY DEF BoardInv
  <1>2. \A e \in Daemon : adds'[e] = IF e = d THEN AddsWith(e, op) ELSE adds[e]
    BY DEF BoardInv, Apply
  <1>3. \A e \in Daemon : removed'[e] = IF e = d THEN RemovedWith(e, op) ELSE removed[e]
    BY DEF BoardInv, Apply
  <1>4. ASSUME NEW e \in Daemon
        PROVE  adds'[e] = AddsOf(log'[e]) /\ removed'[e] = ObservedBy(log'[e])
    <2>1. /\ AddsOf(log[e] \union {op}) =
               IF op.kind = "add" THEN AddsOf(log[e]) \union {op} ELSE AddsOf(log[e])
          /\ ObservedBy(log[e] \union {op}) =
               IF op.kind = "remove" THEN ObservedBy(log[e]) \union op.observed
                                     ELSE ObservedBy(log[e])
      BY FoldOne
    <2>2. adds[e] = AddsOf(log[e]) /\ removed[e] = ObservedBy(log[e])
      BY DEF BoardInv
    <2>3. CASE e = d
      <3>1. /\ log'[e] = log[e] \union {op} /\ adds'[e] = AddsWith(e, op)
            /\ removed'[e] = RemovedWith(e, op)
        BY <1>1, <1>2, <1>3, <2>3
      <3> QED
        BY <2>1, <2>2, <3>1 DEF AddsWith, RemovedWith
    <2>4. CASE e # d
      BY <1>1, <1>2, <1>3, <2>2, <2>4
    <2> QED
      BY <2>3, <2>4
  <1>5. DOMAIN log' = Daemon /\ DOMAIN adds' = Daemon /\ DOMAIN removed' = Daemon
    BY DEF BoardInv, Apply
  <1>6. \A e \in Daemon : \A x \in log'[e] : x.kind \in {"add", "remove"}
    BY <1>1 DEF BoardInv
  <1> QED
    BY <1>4, <1>5, <1>6 DEF BoardInv

\* POST registers through applyOr, at once or after the oracle.
LEMMA RegisterInv ==
  ASSUME BoardInv, NEW a, NEW overriding, Register(a, overriding)
  PROVE  BoardInv'
  <1> DEFINE w == req[a].want
             op == [kind |-> "add", tag |-> FreshTag(req[a].at), id |-> w.id, agent |-> a,
                    scope |-> w.scope, ttl |-> now + w.ttl,
                    waited |-> req[a].state = "assessing"]
  <1>1. Record(req[a].at, op)
    BY DEF Register
  <1>2. op.kind = "add"
    OBVIOUS
  <1> HIDE DEF op
  <1>3. Stores(req[a].at, op)
    BY <1>1, <1>2 DEF Stores, Record
  <1> QED
    BY <1>3, ApplyInv

\* Every step of the handlers, of an exchange and of a restart keeps the fold.
LEMMA StepInv ==
  ASSUME BoardInv, [Next]_vars
  PROVE  BoardInv'
  <1>1. ASSUME NEW a \in Agent, Ask(a)
        PROVE  BoardInv'
    BY <1>1 DEF Ask, BoardInv
  <1>2. ASSUME NEW a \in Agent, Post(a)
        PROVE  BoardInv'
    <2>1. Register(a, FALSE) \/ UNCHANGED <<log, adds, removed>>
      BY <1>2 DEF Post
    <2> QED
      BY <2>1, RegisterInv DEF BoardInv
  <1>3. ASSUME NEW a \in Agent, NEW conflict \in BOOLEAN, Assessed(a, conflict)
        PROVE  BoardInv'
    <2>1. Register(a, conflict) \/ UNCHANGED <<log, adds, removed>>
      BY <1>3 DEF Assessed
    <2> QED
      BY <2>1, RegisterInv DEF BoardInv
  <1>4. ASSUME NEW d \in Daemon, NEW id \in Id, Release(d, id)
        PROVE  BoardInv'
    <2> DEFINE op == [kind |-> "remove", tag |-> FreshTag(d), id |-> id,
                      observed |-> Observed(d, id)]
    <2>1. Record(d, op)
      BY <1>4 DEF Release
    <2>2. op.kind = "remove"
      OBVIOUS
    <2> HIDE DEF op
    <2>3. Stores(d, op)
      BY <2>1, <2>2 DEF Stores, Record
    <2> QED
      BY <2>3, ApplyInv
  <1>5. ASSUME NEW d \in Daemon, NEW e \in Daemon, Exchange(d, e)
        PROVE  BoardInv'
    <2>1. PICK op \in log[e] : log' = [log EXCEPT ![d] = @ \union {op}] /\ Apply(d, op)
      BY <1>5 DEF Exchange
    <2>2. op.kind \in {"add", "remove"}
      BY DEF BoardInv
    <2>3. Stores(d, op)
      BY <2>1, <2>2 DEF Stores
    <2> QED
      BY <2>3, ApplyInv
  <1>6. ASSUME NEW d \in Daemon, Restart(d)
        PROVE  BoardInv'
    BY <1>6 DEF Restart, BoardInv, AddsOf, ObservedBy
  <1>7. CASE Pass \/ UNCHANGED vars
    BY <1>7 DEF Pass, vars, BoardInv
  <1> QED
    BY <1>1, <1>2, <1>3, <1>4, <1>5, <1>6, <1>7 DEF Next

\* The invariant: a daemon's board in memory is the fold of its segments.
THEOREM BoardInvariant == Spec => []BoardInv
  <1>1. Init => BoardInv
    BY DEF Init, BoardInv, AddsOf, ObservedBy
  <1>2. BoardInv /\ [Next]_vars => BoardInv'
    BY StepInv
  <1> QED
    BY <1>1, <1>2, PTL DEF Spec

\* What a daemon shows is what the operations it received say, whatever their
\* order and repetition: OrSetState.apply is idempotent and commutative.
LEMMA InvBoard ==
  ASSUME BoardInv
  PROVE  BoardIsOps
  BY DEF BoardInv, BoardIsOps, AddsOf, ObservedBy, Live

\* The same for every reachable state of the board (applyAdd, applyRemove).
THEOREM BoardAlwaysIsOps == Spec => []BoardIsOps
  <1>1. BoardInv => BoardIsOps
    BY InvBoard
  <1> QED
    BY <1>1, BoardInvariant, PTL

\* No segment ever loses an operation.
LEMMA LogGrows ==
  ASSUME BoardInv, [Next]_vars, NEW d \in Daemon
  PROVE  log[d] \subseteq log'[d]
  <1>1. ASSUME NEW a, NEW overriding, Register(a, overriding)
        PROVE  log[d] \subseteq log'[d]
    BY <1>1 DEF Register, Record, BoardInv
  <1>2. ASSUME NEW e \in Daemon, NEW id \in Id, Release(e, id)
        PROVE  log[d] \subseteq log'[d]
    BY <1>2 DEF Release, Record, BoardInv
  <1>3. ASSUME NEW e \in Daemon, NEW f \in Daemon, Exchange(e, f)
        PROVE  log[d] \subseteq log'[d]
    BY <1>3 DEF Exchange, BoardInv
  <1>4. ASSUME NEW a \in Agent, Post(a)
        PROVE  log[d] \subseteq log'[d]
    BY <1>1, <1>4 DEF Post
  <1>5. ASSUME NEW a \in Agent, NEW conflict \in BOOLEAN, Assessed(a, conflict)
        PROVE  log[d] \subseteq log'[d]
    BY <1>1, <1>5 DEF Assessed
  <1> QED
    BY <1>2, <1>3, <1>4, <1>5 DEF Next, Ask, Restart, Pass, vars

\* A claim that a remove has taken off a daemon's board stays off it, through
\* late and repeated deliveries and restarts.
THEOREM ReleasedNeverReturns == Spec => ReleasedStays
  <1>1. ASSUME BoardInv, BoardInv', [Next]_vars, NEW d \in Daemon, NEW op \in log[d] \ Live(d)
        PROVE  op \notin Live(d)'
    <2>1. log[d] \subseteq log'[d]
      BY <1>1, LogGrows
    <2>2. op.kind = "add" => \E r \in log[d] : r.kind = "remove" /\ op.tag \in r.observed
      BY <1>1, InvBoard DEF BoardIsOps
    <2>3. op.kind = "add" => op.tag \in removed'[d]
      BY <1>1, <2>1, <2>2 DEF BoardInv, ObservedBy
    <2>4. op.kind # "add" => op \notin adds'[d]
      BY <1>1 DEF BoardInv, AddsOf
    <2> QED
      BY <2>3, <2>4 DEF Live
  <1>2. BoardInv /\ BoardInv' /\ [Next]_vars =>
          [\A d \in Daemon : \A op \in log[d] \ Live(d) : op \notin Live(d)']_vars
    BY <1>1
  <1> QED
    BY <1>2, BoardInvariant, PTL DEF Spec, ReleasedStays

------------------------------------------------------------------------------
(* Overlap: what a daemon registers it knows, so findOverlap sees it          *)

\* A daemon has its own operations wherever a copy of one lies, and its tags
\* name them.
OwnAtHome == \A d, e \in Daemon : \A op \in log[e] : op.tag.writer = d => op \in log[d]
OwnTags == \A d \in Daemon : \A op, other \in log[d] :
  op.tag = other.tag /\ op.tag.writer = d => op = other

\* A claim registered without waiting found no earlier one of this daemon in
\* its way, and it never will: removals and expiry are for good.
FoundClear ==
  \A d \in Daemon : \A op, other \in adds[d] :
    /\ op.tag.writer = d /\ other.tag.writer = d /\ op.tag.hlc < other.tag.hlc
    /\ Overlaps(op.scope, other)
    /\ op.tag \notin removed[d] /\ op.ttl > now
    => other.waited \/ Hides(d, op)

OverlapInv == BoardInv /\ TypeOK /\ OwnAtHome /\ OwnTags /\ FoundClear

\* What TypeOK says of the operations a daemon holds.
OpsOK ==
  /\ log \in [Daemon -> SUBSET (AddOps \union RemoveOps)]
  /\ adds \in [Daemon -> SUBSET AddOps] /\ removed \in [Daemon -> SUBSET Tags]
  /\ clock \in [Daemon -> Nat] /\ \A d \in Daemon : \A op \in log[d] : op.tag.hlc <= clock[d]

\* The same after an operation is stored and the clock has moved past its tag.
LEMMA StoreType ==
  ASSUME OpsOK, NEW d \in Daemon, NEW op \in AddOps \union RemoveOps, NEW c \in Nat,
         Stores(d, op), clock' = [clock EXCEPT ![d] = c], clock[d] <= c, op.tag.hlc <= c
  PROVE  OpsOK'
  <1>1. log' \in [Daemon -> SUBSET (AddOps \union RemoveOps)]
    BY DEF OpsOK, Stores
  <1>2. AddsWith(d, op) \in SUBSET AddOps
    BY DEF OpsOK, AddsWith, AddOps, RemoveOps
  <1>3. RemovedWith(d, op) \in SUBSET Tags
    BY DEF OpsOK, RemovedWith, AddOps, RemoveOps
  <1>4. adds' \in [Daemon -> SUBSET AddOps] /\ removed' \in [Daemon -> SUBSET Tags]
    BY <1>2, <1>3 DEF OpsOK, Stores, Apply
  <1>5. clock' \in [Daemon -> Nat]
    BY DEF OpsOK
  <1>6. ASSUME NEW e \in Daemon, NEW x \in log'[e]
        PROVE  x.tag.hlc <= clock'[e]
    <2>1. CASE e # d
      BY <2>1, <1>6 DEF OpsOK, Stores
    <2>2. CASE e = d
      <3>1. clock'[e] = c /\ (x \in log[d] \/ x = op)
        BY <2>2, <1>6 DEF OpsOK, Stores
      <3>2. CASE x = op
        BY <3>1, <3>2
      <3>3. CASE x \in log[d]
        <4>1. x.tag.hlc <= clock[d] /\ x.tag.hlc \in Nat /\ clock[d] \in Nat
          BY <3>3 DEF OpsOK, AddOps, RemoveOps, Tags
        <4> QED
          BY <3>1, <4>1
      <3> QED
        BY <3>1, <3>2, <3>3
    <2> QED
      BY <2>1, <2>2
  <1> QED
    BY <1>1, <1>4, <1>5, <1>6 DEF OpsOK

\* The claim POST registers: an add under a fresh tag.
NewAdd(a) ==
  [kind |-> "add", tag |-> FreshTag(req[a].at), id |-> req[a].want.id, agent |-> a,
   scope |-> req[a].want.scope, ttl |-> now + req[a].want.ttl,
   waited |-> req[a].state = "assessing"]

\* A request that was sent, whatever has become of it.
States == {"sent", "assessing", "held", "taken", "overlap", "potential conflict",
           "registered", "failed"}
Sent == [state : States, at : Daemon, want : Wants]

\* A request that waits for something was sent.
LEMMA SentIsSent ==
  ASSUME NEW r \in Requests, r.state \in {"sent", "assessing"}
  PROVE  r \in Sent
  <1>1. r \in {NoRequest} \union Sent
    BY Zenon DEF Requests, Sent, States
  <1>2. NoRequest.state = "none"
    BY DEF NoRequest
  <1>3. r # NoRequest
    BY <1>2
  <1> QED
    BY <1>1, <1>3

\* An answered request is one still.
LEMMA SentAnswered ==
  ASSUME NEW r \in Sent, NEW state \in States
  PROVE  [r EXCEPT !.state = state] \in Requests
  <1>1. [r EXCEPT !.state = state] \in Sent
    BY DEF Sent
  <1>2. Sent \subseteq Requests
    BY Zenon DEF Requests, Sent, States
  <1> QED
    BY <1>1, <1>2

\* A daemon that serves a request was asked for a claim, and can write it down.
LEMMA NewAddType ==
  ASSUME TypeOK, NEW a \in Agent, req[a].state \in {"sent", "assessing"}
  PROVE  /\ req[a].at \in Daemon /\ req[a].want \in Wants
         /\ NewAdd(a) \in AddOps
  <1>1. req[a] \in Sent
    BY SentIsSent DEF TypeOK
  <1>2. req[a].at \in Daemon /\ req[a].want \in Wants
    BY <1>1 DEF Sent
  <1>3. FreshTag(req[a].at) \in Tags
    BY <1>2 DEF TypeOK, FreshTag, Tags
  <1>4. /\ req[a].want.id \in Id /\ req[a].want.scope \in SUBSET Entity
        /\ req[a].want.ttl \in Nat
    BY <1>2, ClaimAssumption
  <1>5. now \in Nat
    BY ClaimAssumption DEF TypeOK
  <1>6. now + req[a].want.ttl \in Nat /\ (req[a].state = "assessing") \in BOOLEAN
    BY <1>4, <1>5
  <1>7. NewAdd(a) \in AddOps
    BY <1>3, <1>4, <1>6 DEF NewAdd, AddOps
  <1> QED
    BY <1>2, <1>7

\* An answer leaves a request.
LEMMA AnswerType ==
  ASSUME req \in [Agent -> Requests], NEW a \in Agent, req[a].state \in {"sent", "assessing"},
         NEW state \in States, Answer(a, state)
  PROVE  req' \in [Agent -> Requests]
  <1>1. req[a] \in Sent
    BY SentIsSent
  <1>2. [req[a] EXCEPT !.state = state] \in Requests
    BY <1>1, SentAnswered
  <1> QED
    BY <1>2 DEF Answer

\* Record stores an operation under a fresh tag.
LEMMA FreshStored ==
  ASSUME OpsOK, NEW d \in Daemon, NEW op \in AddOps \union RemoveOps, op.tag = FreshTag(d),
         Record(d, op)
  PROVE  Stores(d, op) /\ OpsOK'
  <1>1. Stores(d, op)
    BY DEF Record, Stores, AddOps, RemoveOps
  <1>2. /\ clock[d] + 1 \in Nat /\ clock[d] <= clock[d] + 1 /\ op.tag.hlc = clock[d] + 1
        /\ op.tag.hlc <= clock[d] + 1
    BY DEF OpsOK, FreshTag
  <1>3. clock' = [clock EXCEPT ![d] = clock[d] + 1]
    BY <1>2 DEF Record
  <1>4. OpsOK'
    BY <1>1, <1>2, <1>3, StoreType
  <1> QED
    BY <1>1, <1>4

\* A registration is such a record.
LEMMA RegisterType ==
  ASSUME TypeOK, NEW a \in Agent, req[a].state \in {"sent", "assessing"},
         NEW overriding, Register(a, overriding)
  PROVE  TypeOK' /\ Stores(req[a].at, NewAdd(a))
  <1>1. req[a].at \in Daemon /\ req[a].want \in Wants /\ NewAdd(a) \in AddOps
    BY NewAddType
  <1>2. Record(req[a].at, NewAdd(a)) /\ NewAdd(a).tag = FreshTag(req[a].at)
    BY DEF Register, NewAdd
  <1>3. Stores(req[a].at, NewAdd(a)) /\ OpsOK'
    BY <1>1, <1>2, FreshStored DEF TypeOK, OpsOK
  <1>4. "registered" \in States /\ Answer(a, "registered") /\ req \in [Agent -> Requests]
    BY DEF Register, TypeOK, States
  <1>7. req' \in [Agent -> Requests]
    BY <1>4, AnswerType
  <1>5. req[a].want.id \in Id
    BY <1>1, ClaimAssumption
  <1>6. overridden' \in [Daemon -> SUBSET Id] /\ now' = now
    BY <1>5 DEF Register, TypeOK
  <1> QED
    BY <1>3, <1>6, <1>7 DEF TypeOK, OpsOK

NewRemove(d, id) ==
  [kind |-> "remove", tag |-> FreshTag(d), id |-> id, observed |-> Observed(d, id)]

\* And so is a release.
LEMMA ReleaseType ==
  ASSUME TypeOK, NEW d \in Daemon, NEW id \in Id, Release(d, id)
  PROVE  TypeOK' /\ Stores(d, NewRemove(d, id))
  <1>1. FreshTag(d) \in Tags
    BY DEF TypeOK, FreshTag, Tags
  <1>2. Observed(d, id) \in SUBSET Tags
    BY DEF TypeOK, Observed, AddOps
  <1>3. NewRemove(d, id) \in RemoveOps
    BY <1>1, <1>2 DEF NewRemove, RemoveOps
  <1>4. Record(d, NewRemove(d, id)) /\ NewRemove(d, id).tag = FreshTag(d)
    BY DEF Release, NewRemove
  <1>5. Stores(d, NewRemove(d, id)) /\ OpsOK'
    BY <1>3, <1>4, FreshStored DEF TypeOK, OpsOK
  <1>6. overridden' \in [Daemon -> SUBSET Id] /\ req' = req /\ now' = now
    BY DEF Release, TypeOK
  <1> QED
    BY <1>5, <1>6 DEF TypeOK, OpsOK

\* An operation that comes from a peer raises the clock to its tag.
LEMMA ExchangeType ==
  ASSUME TypeOK, NEW d \in Daemon, NEW e \in Daemon, NEW op \in log[e],
         log' = [log EXCEPT ![d] = @ \union {op}],
         clock' = [clock EXCEPT ![d] = IF op.tag.hlc > @ THEN op.tag.hlc ELSE @],
         Apply(d, op), UNCHANGED <<overridden, req, now>>
  PROVE  TypeOK' /\ Stores(d, op)
  <1> DEFINE c == IF op.tag.hlc > clock[d] THEN op.tag.hlc ELSE clock[d]
  <1>1. op \in AddOps \union RemoveOps
    BY DEF TypeOK
  <1>2. op.tag.hlc \in Nat /\ clock[d] \in Nat /\ op.kind \in {"add", "remove"}
    BY <1>1 DEF TypeOK, AddOps, RemoveOps, Tags
  <1>3. c \in Nat /\ clock[d] <= c /\ op.tag.hlc <= c
    BY <1>2
  <1>4. clock' = [clock EXCEPT ![d] = c]
    BY DEF TypeOK
  <1>5. Stores(d, op)
    BY <1>2 DEF Stores
  <1> HIDE DEF c
  <1>6. OpsOK'
    BY <1>1, <1>3, <1>4, <1>5, StoreType DEF TypeOK, OpsOK
  <1> QED
    BY <1>5, <1>6 DEF TypeOK, OpsOK

\* hydrate reads back what was in memory.
LEMMA RestartSame ==
  ASSUME BoardInv, TypeOK, NEW d \in Daemon, Restart(d)
  PROVE  adds' = adds /\ removed' = removed
  <1>1. adds[d] = {op \in log[d] : op.kind = "add"}
    BY DEF BoardInv, AddsOf
  <1>2. removed[d] = UNION {op.observed : op \in {x \in log[d] : x.kind = "remove"}}
    BY DEF BoardInv, ObservedBy
  <1>3. /\ adds' = [adds EXCEPT ![d] = adds[d]]
        /\ removed' = [removed EXCEPT ![d] = removed[d]]
    BY <1>1, <1>2 DEF Restart
  <1>4. adds \in [Daemon -> SUBSET AddOps] /\ removed \in [Daemon -> SUBSET Tags]
    BY DEF TypeOK
  <1> QED
    BY <1>3, <1>4

\* Every step keeps the types.
LEMMA TypeStep ==
  ASSUME TypeOK, BoardInv, [Next]_vars
  PROVE  TypeOK'
  <1>1. ASSUME NEW a \in Agent, Ask(a)
        PROVE  TypeOK'
    <2>1. PICK w \in Wants, d \in Daemon :
            req' = [req EXCEPT ![a] = [state |-> "sent", at |-> d, want |-> w]]
      BY <1>1 DEF Ask
    <2>2. [state |-> "sent", at |-> d, want |-> w] \in Requests
      BY DEF Requests
    <2>3. req' \in [Agent -> Requests]
      BY <2>1, <2>2 DEF TypeOK
    <2> QED
      BY <1>1, <2>3 DEF Ask, TypeOK
  <1>2. ASSUME NEW a \in Agent, Post(a)
        PROVE  TypeOK'
    <2>1. req[a].state \in {"sent", "assessing"}
      BY <1>2 DEF Post
    <2>2. CASE Register(a, FALSE)
      BY <2>1, <2>2, RegisterType
    <2>3. CASE /\ \E state \in {"held", "taken", "overlap", "assessing"} : Answer(a, state)
               /\ UNCHANGED <<log, adds, removed, clock, overridden, now>>
      <3>1. {"held", "taken", "overlap", "assessing"} \subseteq States
        BY DEF States
      <3>2. req \in [Agent -> Requests]
        BY DEF TypeOK
      <3>3. req' \in [Agent -> Requests]
        BY <2>1, <2>3, <3>1, <3>2, AnswerType
      <3> QED
        BY <2>3, <3>3 DEF TypeOK
    <2> QED
      BY <1>2, <2>2, <2>3 DEF Post
  <1>3. ASSUME NEW a \in Agent, NEW conflict \in BOOLEAN, Assessed(a, conflict)
        PROVE  TypeOK'
    <2>1. req[a].state \in {"sent", "assessing"}
      BY <1>3 DEF Assessed
    <2>2. CASE Register(a, conflict)
      BY <2>1, <2>2, RegisterType
    <2>3. CASE /\ Answer(a, "potential conflict")
               /\ UNCHANGED <<log, adds, removed, clock, overridden, now>>
      <3>1. "potential conflict" \in States /\ req \in [Agent -> Requests]
        BY DEF States, TypeOK
      <3>2. req' \in [Agent -> Requests]
        BY <2>1, <2>3, <3>1, AnswerType
      <3> QED
        BY <2>3, <3>2 DEF TypeOK
    <2> QED
      BY <1>3, <2>2, <2>3 DEF Assessed
  <1>4. ASSUME NEW d \in Daemon, NEW id \in Id, Release(d, id)
        PROVE  TypeOK'
    BY <1>4, ReleaseType
  <1>5. ASSUME NEW d \in Daemon, NEW e \in Daemon, Exchange(d, e)
        PROVE  TypeOK'
    BY <1>5, ExchangeType DEF Exchange
  <1>6. ASSUME NEW d \in Daemon, Restart(d)
        PROVE  TypeOK'
    <2>1. adds' = adds /\ removed' = removed
      BY <1>6, RestartSame
    <2>2. ASSUME NEW a \in Agent, req[a].state \in {"sent", "assessing"}
          PROVE  [req[a] EXCEPT !.state = "failed"] \in Requests
      <3>1. req[a] \in Sent
        BY <2>2, SentIsSent DEF TypeOK
      <3>2. "failed" \in States
        BY DEF States
      <3> QED
        BY <3>1, <3>2, SentAnswered
    <2>3. req' \in [Agent -> Requests]
      BY <1>6, <2>2 DEF Restart, TypeOK
    <2>4. overridden' \in [Daemon -> SUBSET Id]
      BY <1>6 DEF Restart, TypeOK
    <2> QED
      BY <1>6, <2>1, <2>3, <2>4 DEF Restart, TypeOK
  <1>7. CASE Pass
    BY <1>7, ClaimAssumption DEF Pass, TypeOK
  <1>8. CASE UNCHANGED vars
    BY <1>8 DEF vars, TypeOK
  <1> QED
    BY <1>1, <1>2, <1>3, <1>4, <1>5, <1>6, <1>7, <1>8 DEF Next

\* The board is typed in every reachable state.
THEOREM TypeInvariant == Spec => []TypeOK
  <1>1. Init => TypeOK
    BY ClaimAssumption DEF Init, TypeOK, Requests, NoRequest
  <1>2. TypeOK /\ BoardInv /\ [Next]_vars => TypeOK'
    BY TypeStep
  <1> QED
    BY <1>1, <1>2, BoardInvariant, PTL DEF Spec

\* A claim that is about to be registered without a wait is in nobody's way.
Clear(d, op) ==
  op.kind = "add" =>
    \A x \in adds[d] :
      /\ x.tag.writer = d /\ Overlaps(x.scope, op) /\ x.tag \notin removed[d] /\ x.ttl > now
      => op.waited \/ Hides(d, x)

\* An operation minted here and now, or one that some daemon had.
Known(d, op) == \E e \in Daemon : op \in log[e]
Minted(d, op) == op.tag = FreshTag(d) /\ Clear(d, op)

\* What storing an operation changes, daemon by daemon.
LEMMA StoreShape ==
  ASSUME OpsOK, NEW d \in Daemon, NEW op, Stores(d, op), NEW e \in Daemon
  PROVE  /\ log'[e] = IF e = d THEN log[e] \union {op} ELSE log[e]
         /\ adds'[e] = IF e = d THEN AddsWith(e, op) ELSE adds[e]
         /\ removed'[e] = IF e = d THEN RemovedWith(e, op) ELSE removed[e]
         /\ adds[e] \subseteq adds'[e] /\ removed[e] \subseteq removed'[e]
         /\ adds'[e] \subseteq adds[e] \union {op}
  BY DEF OpsOK, Stores, Apply, AddsWith, RemovedWith

\* A hidden claim stays hidden by what hides it.
LEMMA HidesGrows ==
  ASSUME NEW d, NEW op, adds[d] \subseteq adds'[d], Hides(d, op)
  PROVE  Hides(d, op)'
  BY DEF Hides, Outranks

\* Wherever an operation comes from, its writer keeps it and its tag names it.
LEMMA StoreOwn ==
  ASSUME OpsOK, BoardInv, OwnAtHome, OwnTags, NEW d \in Daemon, NEW op \in AddOps \union RemoveOps,
         Stores(d, op), Known(d, op) \/ op.tag = FreshTag(d)
  PROVE  OwnAtHome' /\ OwnTags'
  <1>1. \A e \in Daemon : log'[e] = IF e = d THEN log[e] \union {op} ELSE log[e]
    BY StoreShape
  <1>2. OwnAtHome'
    <2> SUFFICES ASSUME NEW w \in Daemon, NEW e \in Daemon, NEW x \in log'[e], x.tag.writer = w
                 PROVE  x \in log'[w]
      BY DEF OwnAtHome
    <2>1. log[w] \subseteq log'[w]
      BY <1>1
    <2>2. CASE \E f \in Daemon : x \in log[f]
      BY <2>1, <2>2 DEF OwnAtHome
    <2>3. CASE x = op /\ op.tag = FreshTag(d)
      <3>1. w = d
        BY <2>3 DEF FreshTag
      <3> QED
        BY <1>1, <2>3, <3>1
    <2> QED
      BY <1>1, <2>2, <2>3 DEF Known
  <1>3. CASE Known(d, op)
    <2>1. op.tag.writer = d => op \in log[d]
      BY <1>3 DEF Known, OwnAtHome
    <2>2. ASSUME NEW e \in Daemon, NEW x \in log'[e], x.tag.writer = e PROVE x \in log[e]
      <3>1. x \in log[e] \/ (e = d /\ x = op)
        BY <1>1, <2>2
      <3> QED
        BY <2>1, <2>2, <3>1
    <2>3. ASSUME NEW e \in Daemon, NEW x \in log'[e], NEW y \in log'[e],
                 x.tag = y.tag, x.tag.writer = e
          PROVE  x = y
      <3>1. x \in log[e] /\ y \in log[e]
        BY <2>2, <2>3
      <3> QED
        BY Zenon, <2>3, <3>1 DEF OwnTags
    <2>4. OwnTags'
      BY Zenon, <2>3 DEF OwnTags
    <2> QED
      BY <1>2, <2>4
  <1>4. CASE op.tag = FreshTag(d)
    <2>1. op.tag.hlc = clock[d] + 1 /\ clock[d] \in Nat
      BY <1>4 DEF FreshTag, OpsOK
    <2>2. \A x \in log[d] : x.tag.hlc <= clock[d] /\ x.tag.hlc \in Nat
      BY DEF OpsOK, AddOps, RemoveOps, Tags
    <2>3. \A x \in log[d] : x.tag # op.tag
      BY <2>1, <2>2
    <2>4. ASSUME NEW e \in Daemon, NEW x \in log'[e], NEW y \in log'[e],
                 x.tag = y.tag, x.tag.writer = e
          PROVE  x = y
      <3>1. CASE x \in log[e] /\ y \in log[e]
        BY <2>4, <3>1 DEF OwnTags
      <3>2. CASE ~(x \in log[e] /\ y \in log[e])
        <4>1. e = d /\ (x \in log[d] \/ x = op) /\ (y \in log[d] \/ y = op) /\ (x = op \/ y = op)
          BY <1>1, <3>2
        <4> QED
          BY <2>3, <2>4, <4>1
      <3> QED
        BY <3>1, <3>2
    <2>5. OwnTags'
      BY Zenon, <2>4 DEF OwnTags
    <2> QED
      BY <1>2, <2>5
  <1> QED
    BY <1>3, <1>4

\* An operation stored in the open hides no overlap among the claims of one
\* daemon: a fresh one was clear, and a peer has none of ours that we have not.
LEMMA StoreClear ==
  ASSUME OpsOK, BoardInv, OwnAtHome, FoundClear, NEW d \in Daemon, NEW op \in AddOps \union RemoveOps,
         Stores(d, op), Known(d, op) \/ Minted(d, op), now' = now
  PROVE  FoundClear'
  <1> SUFFICES ASSUME NEW e \in Daemon, NEW x \in adds'[e], NEW y \in adds'[e],
                      x.tag.writer = e, y.tag.writer = e, x.tag.hlc < y.tag.hlc,
                      Overlaps(x.scope, y), x.tag \notin removed'[e], x.ttl > now
               PROVE  y.waited \/ Hides(e, x)'
    BY DEF FoundClear, Overlaps
  <1>1. /\ adds[e] \subseteq adds'[e] /\ removed[e] \subseteq removed'[e]
        /\ adds'[e] \subseteq adds[e] \union {op} /\ (e # d => adds'[e] = adds[e])
        /\ (op.kind = "remove" => adds'[e] = adds[e])
    BY StoreShape DEF AddsWith
  <1>2. x.tag \notin removed[e]
    BY <1>1
  <1>3. CASE x \in adds[e] /\ y \in adds[e]
    <2>1. y.waited \/ Hides(e, x)
      BY <1>2, <1>3 DEF FoundClear
    <2> QED
      BY <1>1, <2>1, HidesGrows
  <1>4. CASE ~(x \in adds[e] /\ y \in adds[e])
    <2>1. e = d /\ op.kind = "add" /\ (x = op \/ y = op)
      BY <1>1, <1>4 DEF Stores
    <2>2. op \notin adds[d]
      BY <1>1, <1>4, <2>1
    <2>3. op \notin log[d] /\ op.tag.writer = d
      BY <2>1, <2>2 DEF BoardInv, AddsOf
    <2>4. Minted(d, op)
      BY <2>3 DEF Known, OwnAtHome
    <2>5. op.tag.hlc = clock[d] + 1 /\ clock[d] \in Nat
      BY <2>4 DEF Minted, FreshTag, OpsOK
    <2>6. \A z \in adds[d] : z.tag.hlc <= clock[d] /\ z.tag.hlc \in Nat
      BY DEF OpsOK, BoardInv, AddsOf, AddOps, Tags
    <2>7. x \in adds[d] /\ y = op
      BY <1>1, <2>1, <2>5, <2>6
    <2>8. y.waited \/ Hides(d, x)
      BY <1>2, <2>1, <2>4, <2>7 DEF Minted, Clear
    <2> QED
      BY <1>1, <2>1, <2>8, HidesGrows
  <1> QED
    BY <1>3, <1>4

\* findOverlap found nothing: what is in the way is hidden.
LEMMA PostedClear ==
  ASSUME TypeOK, NEW a \in Agent, req[a].state \in {"sent", "assessing"},
         req[a].state # "assessing" => Blocking(req[a].at, req[a].want) = {}
  PROVE  Clear(req[a].at, NewAdd(a))
  <1> DEFINE d == req[a].at
             w == req[a].want
  <1>0. d \in Daemon
    BY NewAddType
  <1> SUFFICES ASSUME NEW x \in adds[d], Overlaps(x.scope, NewAdd(a)),
                      x.tag \notin removed[d], x.ttl > now, req[a].state # "assessing"
               PROVE  Hides(d, x)
    BY DEF Clear, NewAdd
  <1>1. Overlaps(w.scope, x)
    BY DEF Overlaps, NewAdd
  <1>2. x \notin Active(d)
    BY <1>1 DEF Blocking
  <1>3. x \in {op \in Live(d) : op.ttl > now}
    BY DEF Live
  <1>4. PICK z \in {op \in Live(d) : op.ttl > now} : x.id = z.id /\ Outranks(z.tag, x.tag)
    BY <1>2, <1>3 DEF Active, LatestOfId
  <1> QED
    BY <1>4 DEF Live, Hides

\* A registration, whether at once or after a wait, stores a clear claim.
LEMMA RegisterOverlap ==
  ASSUME OverlapInv, NEW a \in Agent, req[a].state \in {"sent", "assessing"},
         req[a].state # "assessing" => Blocking(req[a].at, req[a].want) = {},
         NEW overriding, Register(a, overriding)
  PROVE  OwnAtHome' /\ OwnTags' /\ FoundClear'
  <1>1. req[a].at \in Daemon /\ NewAdd(a) \in AddOps
    BY NewAddType DEF OverlapInv
  <1>2. Stores(req[a].at, NewAdd(a)) /\ now' = now
    BY RegisterType DEF OverlapInv, Register
  <1>3. Minted(req[a].at, NewAdd(a))
    BY PostedClear DEF OverlapInv, Minted, NewAdd
  <1> QED
    BY <1>1, <1>2, <1>3, StoreOwn, StoreClear DEF OverlapInv, TypeOK, OpsOK, Minted

\* Every step keeps what the overlap property rests on.
LEMMA OverlapStep ==
  ASSUME OverlapInv, [Next]_vars
  PROVE  OverlapInv'
  <1>1. TypeOK' /\ BoardInv'
    BY TypeStep, StepInv DEF OverlapInv
  <1>2. ASSUME UNCHANGED <<log, adds, removed, now>>
        PROVE  OwnAtHome' /\ OwnTags' /\ FoundClear'
    BY <1>2 DEF OverlapInv, OwnAtHome, OwnTags, FoundClear, Hides, Overlaps, Outranks
  <1>3. ASSUME NEW a \in Agent, Post(a)
        PROVE  OwnAtHome' /\ OwnTags' /\ FoundClear'
    <2>1. req[a].state = "sent"
      BY <1>3 DEF Post
    <2>2. CASE Blocking(req[a].at, req[a].want) = {} /\ Register(a, FALSE)
      BY <2>1, <2>2, RegisterOverlap
    <2>3. CASE UNCHANGED <<log, adds, removed, now>>
      BY <1>2, <2>3
    <2> QED
      BY <1>3, <2>2, <2>3 DEF Post
  <1>4. ASSUME NEW a \in Agent, NEW conflict \in BOOLEAN, Assessed(a, conflict)
        PROVE  OwnAtHome' /\ OwnTags' /\ FoundClear'
    <2>1. req[a].state = "assessing"
      BY <1>4 DEF Assessed
    <2>2. CASE Register(a, conflict)
      BY <2>1, <2>2, RegisterOverlap
    <2>3. CASE UNCHANGED <<log, adds, removed, now>>
      BY <1>2, <2>3
    <2> QED
      BY <1>4, <2>2, <2>3 DEF Assessed
  <1>5. ASSUME NEW d \in Daemon, NEW id \in Id, Release(d, id)
        PROVE  OwnAtHome' /\ OwnTags' /\ FoundClear'
    <2>1. Stores(d, NewRemove(d, id)) /\ now' = now
      BY <1>5, ReleaseType DEF OverlapInv, Release
    <2>2. FreshTag(d) \in Tags
      BY DEF OverlapInv, TypeOK, FreshTag, Tags
    <2>3. Observed(d, id) \in SUBSET Tags
      BY DEF OverlapInv, TypeOK, Observed, AddOps
    <2>4. NewRemove(d, id) \in RemoveOps
      BY <2>2, <2>3 DEF NewRemove, RemoveOps
    <2>5. Minted(d, NewRemove(d, id))
      BY DEF Minted, Clear, NewRemove
    <2> QED
      BY <2>1, <2>4, <2>5, StoreOwn, StoreClear DEF OverlapInv, TypeOK, OpsOK, Minted
  <1>6. ASSUME NEW d \in Daemon, NEW e \in Daemon, Exchange(d, e)
        PROVE  OwnAtHome' /\ OwnTags' /\ FoundClear'
    <2>1. PICK op \in log[e] : Stores(d, op)
      BY <1>6, ExchangeType DEF OverlapInv, Exchange
    <2>2. op \in AddOps \union RemoveOps /\ Known(d, op) /\ now' = now
      BY <1>6 DEF OverlapInv, TypeOK, Known, Exchange
    <2> QED
      BY <2>1, <2>2, StoreOwn, StoreClear DEF OverlapInv, TypeOK, OpsOK
  <1>7. ASSUME NEW d \in Daemon, Restart(d)
        PROVE  OwnAtHome' /\ OwnTags' /\ FoundClear'
    <2>1. UNCHANGED <<log, adds, removed, now>>
      BY <1>7, RestartSame DEF OverlapInv, Restart
    <2> QED
      BY <1>2, <2>1
  <1>8. ASSUME Pass
        PROVE  OwnAtHome' /\ OwnTags' /\ FoundClear'
    <2>1. UNCHANGED <<log, adds, removed>> /\ now' = now + 1 /\ now \in Nat
      BY <1>8, ClaimAssumption DEF Pass, OverlapInv, TypeOK
    <2>2. ASSUME NEW d \in Daemon, NEW x \in adds[d], x.ttl > now'
          PROVE  x.ttl > now
      BY <2>1, <2>2 DEF OverlapInv, TypeOK, AddOps
    <2>3. OwnAtHome' /\ OwnTags'
      BY <2>1 DEF OverlapInv, OwnAtHome, OwnTags
    <2>4. FoundClear'
      BY <2>1, <2>2 DEF OverlapInv, FoundClear, Hides, Overlaps, Outranks
    <2> QED
      BY <2>3, <2>4
  <1>9. ASSUME (\E a \in Agent : Ask(a)) \/ UNCHANGED vars
        PROVE  OwnAtHome' /\ OwnTags' /\ FoundClear'
    <2>1. UNCHANGED <<log, adds, removed, now>>
      BY <1>9 DEF Ask, vars
    <2> QED
      BY <1>2, <2>1
  <1> QED
    BY <1>1, <1>3, <1>4, <1>5, <1>6, <1>7, <1>8, <1>9 DEF Next, OverlapInv

\* Two claims one daemon registered overlap on its board only over a wait or a
\* claim of a peer under the same id (routes/claims.ts, findOverlap), for any
\* daemons, agents, claims and bounds.
THEOREM OverlapAlwaysNeedsWait == Spec => []OverlapNeedsWait
  <1>1. Init => OverlapInv
    <2>1. Init => TypeOK
      BY ClaimAssumption DEF Init, TypeOK, Requests, NoRequest
    <2>2. Init => BoardInv /\ OwnAtHome /\ OwnTags /\ FoundClear
      BY DEF Init, BoardInv, AddsOf, ObservedBy, OwnAtHome, OwnTags, FoundClear
    <2> QED
      BY <2>1, <2>2 DEF OverlapInv
  <1>2. OverlapInv /\ [Next]_vars => OverlapInv'
    BY OverlapStep
  <1>3. ASSUME OverlapInv
        PROVE  OverlapNeedsWait
    <2> SUFFICES ASSUME NEW d \in Daemon, NEW op \in Active(d), NEW other \in Active(d),
                        Overlaps(op.scope, other), op # other,
                        op.tag.writer = d, other.tag.writer = d
                 PROVE  op.waited \/ other.waited \/ Hides(d, op) \/ Hides(d, other)
      BY DEF OverlapNeedsWait
    <2>1. /\ op \in adds[d] /\ op.tag \notin removed[d] /\ op.ttl > now
          /\ other \in adds[d] /\ other.tag \notin removed[d] /\ other.ttl > now
      BY DEF Active, LatestOfId, Live
    <2>2. op \in log[d] /\ other \in log[d]
      BY <1>3, <2>1 DEF OverlapInv, BoardInv, AddsOf
    <2>3. op.tag # other.tag
      BY <1>3, <2>2 DEF OverlapInv, OwnTags
    <2>4. op.tag \in Tags /\ other.tag \in Tags
      BY <1>3, <2>1 DEF OverlapInv, TypeOK, AddOps
    <2>5. op.tag.hlc < other.tag.hlc \/ other.tag.hlc < op.tag.hlc
      BY <2>3, <2>4 DEF Tags
    <2>6. Overlaps(other.scope, op)
      BY DEF Overlaps
    <2> QED
      BY <1>3, <2>1, <2>5, <2>6 DEF OverlapInv, FoundClear
  <1> QED
    BY <1>1, <1>2, <1>3, PTL DEF Spec

------------------------------------------------------------------------------
(* `daemon start' and `stop' *)

Starters == Start!Starters
Daemons == Start!Daemons
Living == Start!Living

StartTypes ==
  /\ lock \in {None} \cup [by : Starters, blank : BOOLEAN]
  /\ pc \in [Starters -> Start!Inside \cup
               {"idle", "try", "loser", "break", "stamp", "release", "dead", "other"}]
  /\ child \in [Starters -> Daemons \cup {None}]
  /\ result \in [Starters -> {None, "up", "failed"}]
  /\ status \in [Daemons -> Living \cup {"none", "dead", "other"}] /\ term \subseteq Daemons
  /\ port \in Daemons \cup {None} /\ pidfile \in Daemons \cup {None} /\ side \in Daemons \cup {None}
  /\ owned \subseteq Daemons /\ pid \in Daemons \cup {None}
  /\ stop = "judge" => pid \in Daemons
  /\ alone \in [Starters -> BOOLEAN] /\ bare \in BOOLEAN /\ late \in BOOLEAN

\* Who holds the address is up, and only a child that has been is signalled.
PortIsUp ==
  /\ \A d \in Daemons : port = d <=> status[d] \in {"up", "drain"}
  /\ \A d \in term : status[d] # "none"

\* The lock is a start's that is in the section, or died there; and until one
\* has died, or went on without it, whoever is in the section has it, and nobody
\* breaks it.
Section == Start!Inside \cup {"stamp", "release"}
LockIsHeld ==
  /\ \A s \in Starters : pc[s] \in {"dead", "other"} => bare
  /\ lock # None => /\ pc[lock.by] \in Section \cup {"dead", "other"}
                    /\ lock.blank => pc[lock.by] \in {"stamp", "dead", "other"}
  /\ ~bare => \A s \in Starters :
                /\ pc[s] \in Section => lock # None /\ lock.by = s
                /\ pc[s] # "break"

\* Until then, and until a start gave up on its child, a child that lives is up,
\* or waited for; none is there when a start spawns one.
ChildIsAlone ==
  ~bare /\ ~late => \A d \in Daemons : status[d] \in Living =>
    /\ port = d \/ \E s \in Starters : pc[s] = "wait" /\ child[s] = d
    /\ \A s \in Starters : pc[s] \notin {"judge", "spawn"} /\ (pc[s] = "wait" => child[s] = d)

\* What a start finds that has had nobody beside it.
Undisturbed(s) ==
  /\ stop = "idle" /\ \A r \in Starters \ {s} : pc[r] \in {"idle", "dead", "other"}
  /\ pc[s] = "loser" => Start!Barred
  /\ result[s] = "failed" => late \/ Start!Barred
  /\ result[s] # None => pc[s] \in {"release", "idle", "dead", "other"}
  /\ pc[s] \in {"try", "loser", "break", "stamp", "probe", "judge", "spawn"} =>
       \A d \in Daemons : status[d] \notin Living
  /\ pc[s] = "spawn" => pidfile = None
  /\ pc[s] = "wait" =>
       /\ child[s] \in Daemons \ term /\ status[child[s]] \in Start!Starting \cup {"up"}
       /\ \A d \in Daemons \ {child[s]} : status[d] \notin Living
       /\ status[child[s]] \in {"check", "load", "claim"} => pidfile = None
AloneFinds == \A s \in Starters : alone[s] => Undisturbed(s)

StartInv == StartTypes /\ PortIsUp /\ LockIsHeld /\ ChildIsAlone /\ AloneFinds

\* Nobody is None, and no lock is: what is absent is told from what is there.
LEMMA NoneIsNothing ==
  /\ None \notin Daemons
  /\ \A s \in Starters, b \in BOOLEAN : None # [by |-> s, blank |-> b]
<1> USE CheckoutAssumption DEF Daemons, Starters, Start!Daemons, Start!Starters
<1>1. None \notin Daemons
  OBVIOUS
<1>2. ASSUME NEW s \in Starters, NEW b \in BOOLEAN PROVE None # [by |-> s, blank |-> b]
  <2>1. [by |-> s, blank |-> b] \in [by : 1 .. MaxStarts, blank : BOOLEAN]
    OBVIOUS
  <2> QED BY <2>1
<1> QED BY <1>1, <1>2

LEMMA CommandKeeps ==
  ASSUME StartInv, NEW s \in Starters, Start!Command(s)
  PROVE  StartInv'
<1> USE CheckoutAssumption, NoneIsNothing
    DEF StartInv, StartTypes, Starters, Daemons, Living, Start!Living, Start!Starting,
        Start!Inside, Start!To, Start!Beside, Start!Becomes, Start!OfChild, Start!Stops,
        Start!start, Start!files, Start!stopping, Start!history, Start!bounds
<1>1. CASE Start!Begin(s)
  <2> USE <1>1 DEF Start!Begin, Start!Fresh
  <2>1. StartTypes'
    OBVIOUS
  <2>2. PortIsUp'
    BY DEF PortIsUp
  <2>3. LockIsHeld'
    BY DEF LockIsHeld, Section
  <2>4. ChildIsAlone'
    BY DEF PortIsUp, LockIsHeld, Section, ChildIsAlone
  <2>5. AloneFinds'
    <3> SUFFICES ASSUME NEW r \in Starters, alone'[r] PROVE Undisturbed(r)'
      BY DEF AloneFinds
    <3>1. r = s /\ pc' = [pc EXCEPT ![s] = "try"] /\ result[s] = None
      OBVIOUS
    <3>2. stop = "idle" /\ \A q \in Starters : pc[q] \in {"idle", "dead", "other"}
      OBVIOUS
    <3>3. \A e \in Daemons : status[e] \notin Living
      OBVIOUS
    <3>4. UNCHANGED <<stop, status, result, pidfile, child, term, late>>
      OBVIOUS
    <3>5. pc'[s] = "try" /\ \A q \in Starters \ {s} : pc'[q] = pc[q]
      BY <3>1
    <3> QED BY <3>1, <3>2, <3>3, <3>4, <3>5 DEF Undisturbed
  <2> QED BY <2>1, <2>2, <2>3, <2>4, <2>5
<1>2. CASE Start!Try(s)
  <2> USE <1>2 DEF Start!Try, Start!Stale
  <2>1. StartTypes'
    <3>1. lock' \in {None} \cup [by : Starters, blank : BOOLEAN]
      <4>1. CASE lock' = [by |-> s, blank |-> TRUE]
        BY <4>1
      <4>2. CASE UNCHANGED lock
        BY <4>2
      <4> QED BY <4>1, <4>2
    <3>2. \E there \in {"stamp", "probe", "break", "loser"} : pc' = [pc EXCEPT ![s] = there]
      <4>1. CASE lock = None
        BY <4>1
      <4>2. CASE lock # None
        BY <4>2
      <4> QED BY <4>1, <4>2
    <3>3. pc' \in [Starters -> Start!Inside \cup
                      {"idle", "try", "loser", "break", "stamp", "release", "dead", "other"}]
      BY <3>2
    <3>4. alone' \in [Starters -> BOOLEAN] /\ bare' \in BOOLEAN
      OBVIOUS
    <3>5. UNCHANGED <<child, result, status, term, port, pidfile, side, owned, stop, pid, late>>
      OBVIOUS
    <3> QED BY <3>1, <3>3, <3>4, <3>5
  <2>2. PortIsUp'
    BY DEF PortIsUp
  <2>3. LockIsHeld'
    <3>1. CASE lock = None /\ ~UNCHANGED lock
      <4>1. /\ lock' = [by |-> s, blank |-> TRUE] /\ lock' # None
            /\ pc' = [pc EXCEPT ![s] = "stamp"]
        BY <3>1
      <4>2. lock'.by = s /\ pc'[s] = "stamp" /\ \A r \in Starters \ {s} : pc'[r] = pc[r]
        BY <4>1
      <4>3. ~bare => \A r \in Starters : pc[r] \notin Section /\ pc[r] # "break"
        BY <3>1 DEF LockIsHeld
      <4> QED BY <3>1, <4>1, <4>2, <4>3 DEF LockIsHeld, Section
    <3>2. CASE lock = None /\ UNCHANGED lock
      <4>1. bare' = TRUE /\ \A r \in Starters \ {s} : pc'[r] = pc[r]
        BY <3>2
      <4>2. pc'[s] = "probe"
        BY <3>2
      <4> QED BY <3>2, <4>1, <4>2 DEF LockIsHeld, Section
    <3>3. CASE lock # None
      <4>1. UNCHANGED <<lock, bare>>
        BY <3>3
      <4>2. pc[s] = "try" /\ \A r \in Starters \ {s} : pc'[r] = pc[r]
        OBVIOUS
      <4>3. pc'[s] \in {"break", "loser"}
        BY <3>3
      <4>4. pc[lock.by] \in Section \cup {"dead", "other"} /\ lock.by # s /\ lock.by \in Starters
        BY <3>3, <4>2 DEF LockIsHeld, Section
      <4>5. ~bare => pc'[s] # "break"
        BY <3>3, <4>4 DEF LockIsHeld, Section
      <4> QED BY <4>1, <4>2, <4>3, <4>4, <4>5 DEF LockIsHeld, Section
    <3> QED BY <3>1, <3>2, <3>3
  <2>4. ChildIsAlone'
    BY DEF PortIsUp, LockIsHeld, Section, ChildIsAlone
  <2>5. AloneFinds'
    BY DEF PortIsUp, LockIsHeld, Section, AloneFinds, Undisturbed, Start!Barred
  <2> QED BY <2>1, <2>2, <2>3, <2>4, <2>5
<1>3. CASE Start!Stamp(s)
  <2> USE <1>3 DEF Start!Stamp
  <2>1. StartTypes'
    OBVIOUS
  <2>2. PortIsUp'
    BY DEF PortIsUp
  <2>3. LockIsHeld'
    <3>1. pc[s] = "stamp" /\ pc'[s] = "probe" /\ \A r \in Starters \ {s} : pc'[r] = pc[r]
      OBVIOUS
    <3>2. CASE lock # None /\ lock.by = s
      <4>1. lock' = [by |-> s, blank |-> FALSE] /\ UNCHANGED bare
        BY <3>2
      <4>2. ~bare => \A r \in Starters \ {s} : pc[r] \notin Section /\ pc[r] # "break"
        BY <3>1, <3>2 DEF LockIsHeld, Section
      <4>3. lock'.by = s /\ ~lock'.blank /\ lock' # None
        <5>1. [by |-> s, blank |-> FALSE] # None
          OBVIOUS
        <5> QED BY <4>1, <5>1, SMT
      <4> QED BY <3>1, <4>1, <4>2, <4>3 DEF LockIsHeld, Section
    <3>3. CASE ~(lock # None /\ lock.by = s)
      <4>1. UNCHANGED <<lock, bare>> /\ bare
        BY <3>1, <3>3 DEF LockIsHeld, Section
      <4> QED BY <3>1, <3>3, <4>1 DEF LockIsHeld, Section
    <3> QED BY <3>2, <3>3
  <2>4. ChildIsAlone'
    BY DEF PortIsUp, LockIsHeld, Section, ChildIsAlone
  <2>5. AloneFinds'
    <3> SUFFICES ASSUME NEW r \in Starters, alone'[r] PROVE Undisturbed(r)'
      BY DEF AloneFinds
    <3>1. r = s /\ alone[s] /\ Undisturbed(s)
      BY DEF AloneFinds
    <3>2. pc[s] = "stamp" /\ pc'[s] = "probe" /\ \A q \in Starters \ {s} : pc'[q] = pc[q]
      OBVIOUS
    <3>3. UNCHANGED <<result, child, status, pidfile, stop, term, late>>
      OBVIOUS
    <3>4. result'[s] = None
      BY <3>1, <3>2, <3>3 DEF Undisturbed
    <3>5. \A d \in Daemons : status'[d] \notin Living
      BY <3>1, <3>2, <3>3 DEF Undisturbed
    <3>6. stop' = "idle" /\ \A q \in Starters \ {s} : pc'[q] \in {"idle", "dead", "other"}
      BY <3>1, <3>2, <3>3 DEF Undisturbed
    <3>7. pc'[s] = "probe"
      BY <3>2
    <3> HIDE <1>3 DEF Start!Stamp
    <3> QED BY <3>1, <3>4, <3>5, <3>6, <3>7 DEF Undisturbed
  <2> QED BY <2>1, <2>2, <2>3, <2>4, <2>5
<1>4. CASE Start!Break(s)
  <2> USE <1>4 DEF Start!Break
  <2>1. StartTypes'
    OBVIOUS
  <2>2. PortIsUp'
    BY DEF PortIsUp
  <2>3. LockIsHeld'
    BY DEF LockIsHeld, Section
  <2>4. ChildIsAlone'
    BY DEF PortIsUp, LockIsHeld, Section, ChildIsAlone
  <2>5. AloneFinds'
    BY DEF PortIsUp, LockIsHeld, Section, AloneFinds, Undisturbed, Start!Barred
  <2> QED BY <2>1, <2>2, <2>3, <2>4, <2>5
<1>5. CASE Start!Lose(s)
  <2> USE <1>5 DEF Start!Lose, Start!Ends, Start!Answers
  <2>1. StartTypes'
    OBVIOUS
  <2>2. PortIsUp'
    BY DEF PortIsUp
  <2>3. LockIsHeld'
    BY DEF LockIsHeld, Section
  <2>4. ChildIsAlone'
    BY DEF PortIsUp, LockIsHeld, Section, ChildIsAlone
  <2>5. AloneFinds'
    BY DEF PortIsUp, LockIsHeld, Section, AloneFinds, Undisturbed, Start!Barred
  <2> QED BY <2>1, <2>2, <2>3, <2>4, <2>5
<1>6. CASE Start!Probe(s)
  <2> USE <1>6 DEF Start!Probe, Start!Ends, Start!Answers
  <2>1. StartTypes'
    OBVIOUS
  <2>2. PortIsUp'
    BY DEF PortIsUp
  <2>3. LockIsHeld'
    BY DEF LockIsHeld, Section
  <2>4. ChildIsAlone'
    <3>1. UNCHANGED <<bare, late, status, port, child>> /\ pc[s] = "probe"
      OBVIOUS
    <3>2. \A r \in Starters \ {s} : pc'[r] = pc[r]
      OBVIOUS
    <3>3. CASE port = None
      <4>1. ASSUME ~bare, ~late, NEW e \in Daemons, status[e] \in Living PROVE FALSE
        <5>1. PICK r \in Starters : pc[r] = "wait"
          BY <3>3, <4>1 DEF ChildIsAlone
        <5>2. r # s
          BY <5>1
        <5> QED BY <4>1, <5>1, <5>2 DEF LockIsHeld, Section
      <4> QED BY <3>1, <4>1 DEF ChildIsAlone
    <3>4. CASE port # None
      <4>1. pc'[s] = "release"
        BY <3>4 DEF Start!Answers
      <4> QED BY <3>1, <3>2, <4>1 DEF ChildIsAlone
    <3> QED BY <3>3, <3>4
  <2>5. AloneFinds'
    BY DEF PortIsUp, LockIsHeld, Section, AloneFinds, Undisturbed, Start!Barred
  <2> QED BY <2>1, <2>2, <2>3, <2>4, <2>5
<1>7. CASE Start!Judge(s)
  <2> USE <1>7 DEF Start!Judge, Start!Ends, Start!Refuses, Start!DaemonStatus,
      Start!Verdict, Start!Alive, Start!RemovePidFile
  <2>1. StartTypes'
    OBVIOUS
  <2>2. PortIsUp'
    BY DEF PortIsUp
  <2>3. LockIsHeld'
    BY DEF LockIsHeld, Section
  <2>4. ChildIsAlone'
    BY DEF PortIsUp, LockIsHeld, Section, ChildIsAlone
  <2>5. AloneFinds'
    BY DEF PortIsUp, LockIsHeld, Section, AloneFinds, Undisturbed, Start!Barred
  <2> QED BY <2>1, <2>2, <2>3, <2>4, <2>5
<1>8. CASE Start!Spawn(s)
  <2> USE <1>8 DEF Start!Spawn
  <2>1. StartTypes'
    OBVIOUS
  <2>2. PortIsUp'
    BY DEF PortIsUp
  <2>3. LockIsHeld'
    BY DEF LockIsHeld, Section
  <2>4. ChildIsAlone'
    BY DEF PortIsUp, LockIsHeld, Section, ChildIsAlone
  <2>5. AloneFinds'
    BY DEF PortIsUp, LockIsHeld, Section, AloneFinds, Undisturbed, Start!Barred
  <2> QED BY <2>1, <2>2, <2>3, <2>4, <2>5
<1>9. CASE Start!Wait(s)
  <2> USE <1>9 DEF Start!Wait, Start!Ends, Start!Answers
  <2>1. StartTypes'
    OBVIOUS
  <2>2. PortIsUp'
    BY DEF PortIsUp
  <2>3. LockIsHeld'
    BY DEF LockIsHeld, Section
  <2>4. ChildIsAlone'
    BY DEF PortIsUp, LockIsHeld, Section, ChildIsAlone
  <2>5. AloneFinds'
    BY DEF PortIsUp, LockIsHeld, Section, AloneFinds, Undisturbed, Start!Barred
  <2> QED BY <2>1, <2>2, <2>3, <2>4, <2>5
<1>10. CASE Start!Leave(s)
  <2> USE <1>10 DEF Start!Leave, Start!Release
  <2>1. StartTypes'
    OBVIOUS
  <2>2. PortIsUp'
    BY DEF PortIsUp
  <2>3. LockIsHeld'
    BY DEF LockIsHeld, Section
  <2>4. ChildIsAlone'
    BY DEF PortIsUp, LockIsHeld, Section, ChildIsAlone
  <2>5. AloneFinds'
    BY DEF PortIsUp, LockIsHeld, Section, AloneFinds, Undisturbed, Start!Barred
  <2> QED BY <2>1, <2>2, <2>3, <2>4, <2>5
<1>11. CASE Start!KillStart(s)
  <2> USE <1>11 DEF Start!KillStart
  <2>1. StartTypes'
    OBVIOUS
  <2>2. PortIsUp'
    BY DEF PortIsUp
  <2>3. LockIsHeld'
    BY DEF LockIsHeld, Section
  <2>4. ChildIsAlone'
    BY DEF PortIsUp, LockIsHeld, Section, ChildIsAlone
  <2>5. AloneFinds'
    BY DEF PortIsUp, LockIsHeld, Section, AloneFinds, Undisturbed, Start!Barred
  <2> QED BY <2>1, <2>2, <2>3, <2>4, <2>5
<1>12. CASE Start!RecycleStart(s)
  <2> USE <1>12 DEF Start!RecycleStart
  <2>1. StartTypes'
    OBVIOUS
  <2>2. PortIsUp'
    BY DEF PortIsUp
  <2>3. LockIsHeld'
    BY DEF LockIsHeld, Section
  <2>4. ChildIsAlone'
    BY DEF PortIsUp, LockIsHeld, Section, ChildIsAlone
  <2>5. AloneFinds'
    BY DEF PortIsUp, LockIsHeld, Section, AloneFinds, Undisturbed, Start!Barred
  <2> QED BY <2>1, <2>2, <2>3, <2>4, <2>5
<1> QED BY <1>1, <1>2, <1>3, <1>4, <1>5, <1>6, <1>7, <1>8, <1>9, <1>10, <1>11, <1>12
        DEF Start!Command

LEMMA ChildKeeps ==
  ASSUME StartInv, NEW d \in Daemons, Start!Child(d)
  PROVE  StartInv'
<1> USE CheckoutAssumption, NoneIsNothing
    DEF StartInv, StartTypes, Starters, Daemons, Living, Start!Living, Start!Starting,
        Start!Inside, Start!To, Start!Beside, Start!Becomes, Start!OfChild, Start!Stops,
        Start!start, Start!files, Start!stopping, Start!history, Start!bounds
<1>1. CASE Start!Check(d)
  <2> USE <1>1 DEF Start!Check, Start!DaemonStatus, Start!Verdict, Start!Alive,
      Start!RemovePidFile
  <2>1. StartTypes'
    OBVIOUS
  <2>2. PortIsUp'
    BY DEF PortIsUp
  <2>3. LockIsHeld'
    BY DEF LockIsHeld, Section
  <2>4. ChildIsAlone'
    BY DEF PortIsUp, LockIsHeld, Section, ChildIsAlone
  <2>5. AloneFinds'
    BY DEF PortIsUp, LockIsHeld, Section, AloneFinds, Undisturbed, Start!Barred
  <2> QED BY <2>1, <2>2, <2>3, <2>4, <2>5
<1>2. CASE Start!Load(d)
  <2> USE <1>2 DEF Start!Load
  <2>1. StartTypes'
    OBVIOUS
  <2>2. PortIsUp'
    BY DEF PortIsUp
  <2>3. LockIsHeld'
    BY DEF LockIsHeld, Section
  <2>4. ChildIsAlone'
    BY DEF PortIsUp, LockIsHeld, Section, ChildIsAlone
  <2>5. AloneFinds'
    BY DEF PortIsUp, LockIsHeld, Section, AloneFinds, Undisturbed, Start!Barred
  <2> QED BY <2>1, <2>2, <2>3, <2>4, <2>5
<1>3. CASE Start!Claim(d)
  <2> USE <1>3 DEF Start!Claim, Start!DaemonStatus, Start!Verdict, Start!Alive
  <2>1. StartTypes'
    OBVIOUS
  <2>2. PortIsUp'
    BY DEF PortIsUp
  <2>3. LockIsHeld'
    BY DEF LockIsHeld, Section
  <2>4. ChildIsAlone'
    BY DEF PortIsUp, LockIsHeld, Section, ChildIsAlone
  <2>5. AloneFinds'
    BY DEF PortIsUp, LockIsHeld, Section, AloneFinds, Undisturbed, Start!Barred
  <2> QED BY <2>1, <2>2, <2>3, <2>4, <2>5
<1>4. CASE Start!WriteSide(d)
  <2> USE <1>4 DEF Start!WriteSide
  <2>1. StartTypes'
    OBVIOUS
  <2>2. PortIsUp'
    BY DEF PortIsUp
  <2>3. LockIsHeld'
    BY DEF LockIsHeld, Section
  <2>4. ChildIsAlone'
    BY DEF PortIsUp, LockIsHeld, Section, ChildIsAlone
  <2>5. AloneFinds'
    BY DEF PortIsUp, LockIsHeld, Section, AloneFinds, Undisturbed, Start!Barred
  <2> QED BY <2>1, <2>2, <2>3, <2>4, <2>5
<1>5. CASE Start!Bind(d)
  <2> USE <1>5 DEF Start!Bind, Start!RemovePidFile
  <2>1. StartTypes'
    OBVIOUS
  <2>2. PortIsUp'
    <3>1. CASE port = None
      <4>1. port' = d /\ status' = [status EXCEPT ![d] = "up"] /\ UNCHANGED term
        BY <3>1
      <4>2. \A e \in Daemons : status[e] \notin {"up", "drain"}
        BY <3>1 DEF PortIsUp
      <4> QED BY <4>1, <4>2 DEF PortIsUp
    <3>2. CASE port # None
      <4>1. UNCHANGED <<port, term>> /\ status' = [status EXCEPT ![d] = "dead"]
        BY <3>2
      <4>2. status[d] = "bind"
        OBVIOUS
      <4> QED BY <4>1, <4>2 DEF PortIsUp
    <3> QED BY <3>1, <3>2
  <2>3. LockIsHeld'
    BY DEF LockIsHeld, Section
  <2>4. ChildIsAlone'
    BY DEF PortIsUp, LockIsHeld, Section, ChildIsAlone
  <2>5. AloneFinds'
    BY DEF PortIsUp, LockIsHeld, Section, AloneFinds, Undisturbed, Start!Barred
  <2> QED BY <2>1, <2>2, <2>3, <2>4, <2>5
<1>6. CASE Start!Drain(d)
  <2> USE <1>6 DEF Start!Drain
  <2>1. StartTypes'
    OBVIOUS
  <2>2. PortIsUp'
    BY DEF PortIsUp
  <2>3. LockIsHeld'
    BY DEF LockIsHeld, Section
  <2>4. ChildIsAlone'
    BY DEF PortIsUp, LockIsHeld, Section, ChildIsAlone
  <2>5. AloneFinds'
    BY DEF PortIsUp, LockIsHeld, Section, AloneFinds, Undisturbed, Start!Barred
  <2> QED BY <2>1, <2>2, <2>3, <2>4, <2>5
<1>7. CASE Start!Exit(d)
  <2> USE <1>7 DEF Start!Exit, Start!RemovePidFile
  <2>1. StartTypes'
    OBVIOUS
  <2>2. PortIsUp'
    <3>1. port' = None /\ status' = [status EXCEPT ![d] = "dead"] /\ UNCHANGED term
      OBVIOUS
    <3>2. port = d
      BY DEF PortIsUp
    <3>3. \A e \in Daemons : port' # e
      BY <3>1
    <3> QED BY <3>1, <3>2, <3>3 DEF PortIsUp
  <2>3. LockIsHeld'
    BY DEF LockIsHeld, Section
  <2>4. ChildIsAlone'
    BY DEF PortIsUp, LockIsHeld, Section, ChildIsAlone
  <2>5. AloneFinds'
    BY DEF PortIsUp, LockIsHeld, Section, AloneFinds, Undisturbed, Start!Barred
  <2> QED BY <2>1, <2>2, <2>3, <2>4, <2>5
<1>8. CASE Start!KillDaemon(d)
  <2> USE <1>8 DEF Start!KillDaemon
  <2>1. StartTypes'
    OBVIOUS
  <2>2. PortIsUp'
    <3>1. status' = [status EXCEPT ![d] = "dead"] /\ UNCHANGED term
      OBVIOUS
    <3>2. \A e \in Daemons : port' = e <=> port = e /\ e # d
      OBVIOUS
    <3> QED BY <3>1, <3>2 DEF PortIsUp
  <2>3. LockIsHeld'
    BY DEF LockIsHeld, Section
  <2>4. ChildIsAlone'
    BY DEF PortIsUp, LockIsHeld, Section, ChildIsAlone
  <2>5. AloneFinds'
    BY DEF PortIsUp, LockIsHeld, Section, AloneFinds, Undisturbed, Start!Barred
  <2> QED BY <2>1, <2>2, <2>3, <2>4, <2>5
<1>9. CASE Start!Recycle(d)
  <2> USE <1>9 DEF Start!Recycle
  <2>1. StartTypes'
    OBVIOUS
  <2>2. PortIsUp'
    BY DEF PortIsUp
  <2>3. LockIsHeld'
    BY DEF LockIsHeld, Section
  <2>4. ChildIsAlone'
    BY DEF PortIsUp, LockIsHeld, Section, ChildIsAlone
  <2>5. AloneFinds'
    BY DEF PortIsUp, LockIsHeld, Section, AloneFinds, Undisturbed, Start!Barred
  <2> QED BY <2>1, <2>2, <2>3, <2>4, <2>5
<1> QED BY <1>1, <1>2, <1>3, <1>4, <1>5, <1>6, <1>7, <1>8, <1>9 DEF Start!Child

LEMMA StopperKeeps ==
  ASSUME StartInv, Start!Stopper
  PROVE  StartInv'
<1> USE CheckoutAssumption, NoneIsNothing
    DEF StartInv, StartTypes, Starters, Daemons, Living, Start!Living, Start!Starting,
        Start!Inside, Start!To, Start!Beside, Start!Becomes, Start!OfChild, Start!Stops,
        Start!start, Start!files, Start!stopping, Start!history, Start!bounds
<1>1. CASE Start!StopReads
  <2> USE <1>1 DEF Start!StopReads
  <2>1. StartTypes'
    OBVIOUS
  <2>2. PortIsUp'
    BY DEF PortIsUp
  <2>3. LockIsHeld'
    BY DEF LockIsHeld, Section
  <2>4. ChildIsAlone'
    BY DEF PortIsUp, LockIsHeld, Section, ChildIsAlone
  <2>5. AloneFinds'
    BY DEF PortIsUp, LockIsHeld, Section, AloneFinds, Undisturbed, Start!Barred
  <2> QED BY <2>1, <2>2, <2>3, <2>4, <2>5
<1>2. CASE Start!StopJudges
  <2> USE <1>2 DEF Start!StopJudges, Start!Signal, Start!Alive, Start!RemovePidFile,
      Start!Verdict
  <2>1. StartTypes'
    OBVIOUS
  <2>2. PortIsUp'
    BY DEF PortIsUp
  <2>3. LockIsHeld'
    BY DEF LockIsHeld, Section
  <2>4. ChildIsAlone'
    BY DEF PortIsUp, LockIsHeld, Section, ChildIsAlone
  <2>5. AloneFinds'
    BY DEF PortIsUp, LockIsHeld, Section, AloneFinds, Undisturbed, Start!Barred
  <2> QED BY <2>1, <2>2, <2>3, <2>4, <2>5
<1>3. CASE Start!StopWaits
  <2> USE <1>3 DEF Start!StopWaits, Start!OnceDead, Start!Alive
  <2>1. StartTypes'
    OBVIOUS
  <2>2. PortIsUp'
    BY DEF PortIsUp
  <2>3. LockIsHeld'
    BY DEF LockIsHeld, Section
  <2>4. ChildIsAlone'
    BY DEF PortIsUp, LockIsHeld, Section, ChildIsAlone
  <2>5. AloneFinds'
    BY DEF PortIsUp, LockIsHeld, Section, AloneFinds, Undisturbed, Start!Barred
  <2> QED BY <2>1, <2>2, <2>3, <2>4, <2>5
<1>4. CASE Start!StopProbes
  <2> USE <1>4 DEF Start!StopProbes, Start!Signal, Start!Answers
  <2>1. StartTypes'
    OBVIOUS
  <2>2. PortIsUp'
    BY DEF PortIsUp
  <2>3. LockIsHeld'
    BY DEF LockIsHeld, Section
  <2>4. ChildIsAlone'
    BY DEF PortIsUp, LockIsHeld, Section, ChildIsAlone
  <2>5. AloneFinds'
    BY DEF PortIsUp, LockIsHeld, Section, AloneFinds, Undisturbed, Start!Barred
  <2> QED BY <2>1, <2>2, <2>3, <2>4, <2>5
<1>5. CASE Start!StopSweeps
  <2> USE <1>5 DEF Start!StopSweeps, Start!Alive
  <2>1. StartTypes'
    OBVIOUS
  <2>2. PortIsUp'
    BY DEF PortIsUp
  <2>3. LockIsHeld'
    BY DEF LockIsHeld, Section
  <2>4. ChildIsAlone'
    BY DEF PortIsUp, LockIsHeld, Section, ChildIsAlone
  <2>5. AloneFinds'
    BY DEF PortIsUp, LockIsHeld, Section, AloneFinds, Undisturbed, Start!Barred
  <2> QED BY <2>1, <2>2, <2>3, <2>4, <2>5
<1>6. CASE Start!StopEnds
  <2> USE <1>6 DEF Start!StopEnds
  <2>1. StartTypes'
    OBVIOUS
  <2>2. PortIsUp'
    BY DEF PortIsUp
  <2>3. LockIsHeld'
    BY DEF LockIsHeld, Section
  <2>4. ChildIsAlone'
    BY DEF PortIsUp, LockIsHeld, Section, ChildIsAlone
  <2>5. AloneFinds'
    BY DEF PortIsUp, LockIsHeld, Section, AloneFinds, Undisturbed, Start!Barred
  <2> QED BY <2>1, <2>2, <2>3, <2>4, <2>5
<1>7. CASE Start!StopGivesUp
  <2> USE <1>7 DEF Start!StopGivesUp, Start!Alive
  <2>1. StartTypes'
    OBVIOUS
  <2>2. PortIsUp'
    BY DEF PortIsUp
  <2>3. LockIsHeld'
    BY DEF LockIsHeld, Section
  <2>4. ChildIsAlone'
    BY DEF PortIsUp, LockIsHeld, Section, ChildIsAlone
  <2>5. AloneFinds'
    BY DEF PortIsUp, LockIsHeld, Section, AloneFinds, Undisturbed, Start!Barred
  <2> QED BY <2>1, <2>2, <2>3, <2>4, <2>5
<1> QED BY <1>1, <1>2, <1>3, <1>4, <1>5, <1>6, <1>7 DEF Start!Stopper

LEMMA StartNext ==
  ASSUME StartInv, [Start!Next]_startVars
  PROVE  StartInv'
<1>1. ASSUME NEW s \in Starters, Start!Command(s) PROVE StartInv'
  BY <1>1, CommandKeeps
<1>2. ASSUME NEW d \in Daemons, Start!Child(d) PROVE StartInv'
  BY <1>2, ChildKeeps
<1>3. CASE Start!Stopper
  BY <1>3, StopperKeeps
<1>4. CASE UNCHANGED startVars
  BY <1>4 DEF startVars, StartInv, StartTypes, PortIsUp, LockIsHeld, ChildIsAlone, AloneFinds,
    Undisturbed, Start!Barred
<1> QED BY <1>1, <1>2, <1>3, <1>4 DEF Start!Next, Starters, Daemons

LEMMA StartInit == Start!Init => StartInv
<1> SUFFICES ASSUME Start!Init PROVE StartInv
  OBVIOUS
<1> USE CheckoutAssumption, NoneIsNothing DEF Start!Init, Starters, Daemons
<1>1. StartTypes
  BY DEF StartTypes, Start!Inside
<1>2. PortIsUp
  BY DEF PortIsUp
<1>3. LockIsHeld
  BY DEF LockIsHeld, Section, Start!Inside
<1>4. ChildIsAlone
  BY DEF ChildIsAlone, Living, Start!Living, Start!Starting
<1>5. AloneFinds
  BY DEF AloneFinds
<1> QED BY <1>1, <1>2, <1>3, <1>4, <1>5 DEF StartInv

\* A behaviour that is of the commands begins and goes on as DaemonStart says.
StartsHold == part = "starts" => StartInv

LEMMA StartsAlwaysHold == CheckoutSpec => []StartsHold
<1>1. CheckoutInit => StartsHold
  BY StartInit DEF CheckoutInit, StartsHold
<1>2. StartsHold /\ [CheckoutNext]_<<part, vars, startVars, indexVars>> => StartsHold'
  <2> SUFFICES ASSUME StartsHold, [CheckoutNext]_<<part, vars, startVars, indexVars>>,
                      part' = "starts"
               PROVE  StartInv'
    BY DEF StartsHold
  <2>1. part = "starts" /\ StartInv
    BY DEF CheckoutNext, ClaimsStep, StartsStep, IndexesStep, StartsHold
  <2>2. [Start!Next]_startVars
    BY <2>1 DEF CheckoutNext, ClaimsStep, StartsStep, IndexesStep
  <2> QED BY <2>1, <2>2, StartNext
<1> QED BY <1>1, <1>2, PTL DEF CheckoutSpec

(***************************************************************************)
(* However many starts there are at once, with stops and crashes of        *)
(* daemons between, no second daemon is loading or serving beside the      *)
(* first, unless a start was killed in the section, had no lock to take, or *)
(* gave up on a slow child (startDetachedDaemon, tryAcquireStartLock).     *)
(***************************************************************************)
THEOREM AlwaysOneDaemon == CheckoutSpec => []OneDaemon
<1>1. ASSUME StartInv, ~bare, ~late, NEW d \in Daemons, NEW e \in Daemons,
             status[d] \in Living, status[e] \in Living
      PROVE  d = e
  <2>1. CASE \E s \in Starters : pc[s] = "wait" /\ child[s] = d
    BY <1>1, <2>1 DEF StartInv, ChildIsAlone
  <2>2. CASE \E s \in Starters : pc[s] = "wait" /\ child[s] = e
    BY <1>1, <2>2 DEF StartInv, ChildIsAlone
  <2>3. CASE port = d /\ port = e
    BY <2>3
  <2> QED BY <1>1, <2>1, <2>2, <2>3 DEF StartInv, ChildIsAlone
<1>2. StartsHold => OneDaemon
  BY <1>1 DEF StartsHold, OneDaemon, Start!OneDaemon, Daemons, Living
<1> QED BY <1>2, StartsAlwaysHold, PTL

(***************************************************************************)
(* A start that had nobody beside it never fails, over a pidfile of a dead *)
(* daemon or of one whose pid is another process's by now, and over the    *)
(* lock of a start that died, unless that one's pid is another process's   *)
(* (startDetachedUnderLock, startLockIsStale).                             *)
(***************************************************************************)
THEOREM StartAlwaysHeals == CheckoutSpec => []StartHeals
<1>1. StartsHold => StartHeals
  BY DEF StartsHold, StartHeals, Start!StartHeals, StartInv, AloneFinds, Undisturbed, Starters
<1> QED BY <1>1, StartsAlwaysHold, PTL

(***************************************************************************)
(* A stop that says so has left nothing answering at the address           *)
(* (stopDaemon, concludeStopNotRunning).                                   *)
(***************************************************************************)
THEOREM StoppedIsAlwaysQuiet == CheckoutSpec => StoppedIsQuiet
<1> DEFINE Said == stop # "stopped" /\ stop' = "stopped"
           Quiet == ~\E d \in Start!Daemons : status[d] \in {"up", "drain"}
<1>1. ASSUME StartsHold, [CheckoutNext]_<<part, vars, startVars, indexVars>>, Said
      PROVE  Quiet
  <2>1. StartsStep
    BY <1>1 DEF CheckoutNext, ClaimsStep, IndexesStep, startVars
  <2>2. StartInv /\ Start!Next
    BY <1>1, <2>1 DEF StartsStep, StartsHold
  <2>3. Start!StopProbes
    <3>1. ASSUME NEW s \in Starters PROVE ~Start!Command(s)
      BY <1>1 DEF Start!Command, Start!Begin, Start!Try, Start!Stamp, Start!Break, Start!Lose,
        Start!Probe, Start!Judge, Start!Spawn, Start!Wait, Start!Leave, Start!KillStart,
        Start!RecycleStart, Start!stopping
    <3>2. ASSUME NEW d \in Daemons PROVE ~Start!Child(d)
      BY <1>1 DEF Start!Child, Start!Check, Start!Load, Start!Claim, Start!WriteSide, Start!Bind,
        Start!Drain, Start!Exit, Start!KillDaemon, Start!Recycle, Start!stopping
    <3> QED BY <1>1, <2>2, <3>1, <3>2 DEF Start!Next, Start!Stopper, Start!StopReads,
          Start!StopJudges, Start!StopWaits, Start!OnceDead, Start!StopSweeps, Start!StopEnds,
          Start!StopGivesUp, Starters, Daemons
  <2>4. port = None
    BY <1>1, <2>3 DEF Start!StopProbes, Start!Answers
  <2> QED BY <2>2, <2>4, NoneIsNothing DEF StartInv, PortIsUp, Daemons
<1>2. StartsHold /\ [CheckoutNext]_<<part, vars, startVars, indexVars>>
        => [Said => Quiet]_(Start!vars)
  BY <1>1
<1> QED BY <1>2, StartsAlwaysHold, PTL DEF CheckoutSpec, StoppedIsQuiet, Start!StoppedIsQuiet

------------------------------------------------------------------------------
(* The indexes of the branches *)

Contents == Index!Contents
Rows == Index!Rows
Stored == Index!Indexes

IndexTypes ==
  /\ files \in Rows /\ tips \in [Branches -> Rows] /\ branch \in Branches
  /\ newest \in Nat /\ tick \in Nat /\ newest <= tick
  /\ store \in [Branches \cup {Legacy} -> Stored \cup {None}]
  /\ ingest \in {"idle", "open", "parse", "end"}
  /\ ingest # "idle" => key \in Branches /\ store[key] # None
  /\ moved \subseteq CheckoutFiles

\* An index that no ingest has in hands is its commit's, but for the files it is
\* not known of; while the probe finds nothing newer, that commit is checked out,
\* and a file that differs from it is one the probe does not see.
IsOfItsCommit(i) ==
  /\ \A f \in CheckoutFiles \ i.tainted : i.rows[f] = i.head[f]
  /\ newest <= i.at =>
       /\ i.head = tips[branch]
       /\ \A f \in CheckoutFiles \ (i.tainted \cup Index!Unseen) : files[f] = tips[branch][f]
IsKept(i) ==
  /\ i.at <= tick /\ (i.head # None => i.at > 0) /\ (i.at > 0 => i.head \in Rows)
  /\ ~i.marked /\ i.at > 0 => IsOfItsCommit(i)
AreKept == \A k \in Branches \cup {Legacy} : store[k] # None => IsKept(store[k])

\* What an ingest has parsed, or need not parse, is as in the files.
Parsed ==
  ingest \in {"parse", "end"} =>
    /\ store[key].marked
    /\ \A f \in CheckoutFiles \ (store[key].tainted \cup moved) :
         (ingest = "parse" /\ f \in todo) \/ store[key].rows[f] = files[f]

BranchInv == IndexTypes /\ AreKept /\ Parsed

\* What nobody touches stays as it was, and what is in the files with it.
LEMMA UntouchedKept ==
  ASSUME BranchInv, NEW k \in Branches \cup {Legacy}, store[k] # None, store'[k] = store[k],
         UNCHANGED <<files, tips, branch, newest>>, tick' >= tick, tick' \in Nat
  PROVE  IsKept(store[k])'
<1>1. IsKept(store[k])
  BY DEF BranchInv, AreKept
<1>2. store[k].at \in Nat /\ tick \in Nat
  BY DEF BranchInv, IndexTypes, Stored, Index!Indexes
<1>3. Index!Unseen' = Index!Unseen
  BY DEF Index!Unseen, Index!Untracked, Index!Tracked, Index!Head
<1>4. IsOfItsCommit(store[k])' <=> IsOfItsCommit(store[k])
  BY <1>3 DEF IsOfItsCommit
<1> QED BY <1>1, <1>2, <1>4 DEF IsKept

\* A change of the checkout leaves what an ingest has parsed, but for what it changes.
LEMMA MoveParses ==
  ASSUME BranchInv, NEW after \in Rows, Index!Moved(after)
  PROVE  /\ Parsed' /\ files' = after /\ tick' = tick + 1
         /\ moved' \subseteq CheckoutFiles /\ UNCHANGED <<store, ingest, key>>
<1>1. UNCHANGED <<store, ingest, key, todo>> /\ files' = after /\ tick' = tick + 1
  BY DEF Index!Moved, Index!Tick
<1>2. moved' = IF ingest = "idle" THEN {} ELSE moved \cup {f \in CheckoutFiles : after[f] # files[f]}
  BY DEF Index!Moved
<1>3. Parsed' /\ moved' \subseteq CheckoutFiles
  BY <1>1, <1>2 DEF BranchInv, IndexTypes, Parsed
<1> QED BY <1>1, <1>3

\* One that the probe sees makes every index look out of date.
LEMMA SeenMoveKeeps ==
  ASSUME BranchInv, NEW after \in Rows, Index!Moved(after), newest' = tick',
         tips' \in [Branches -> Rows], branch' \in Branches
  PROVE  BranchInv'
<1>1. /\ Parsed' /\ files' = after /\ tick' = tick + 1
      /\ moved' \subseteq CheckoutFiles /\ UNCHANGED <<store, ingest, key>>
  BY MoveParses
<1>2. IndexTypes'
  BY <1>1 DEF BranchInv, IndexTypes, Rows, Index!Rows, Stored, Index!Indexes
<1>3. ASSUME NEW k \in Branches \cup {Legacy}, store'[k] # None PROVE IsKept(store[k])'
  <2>1. store[k] \in Stored /\ store'[k] = store[k] /\ IsKept(store[k])
    BY <1>1, <1>3 DEF BranchInv, IndexTypes, AreKept
  <2>2. store[k].at \in Nat /\ tick \in Nat
    BY <2>1 DEF BranchInv, IndexTypes, Stored, Index!Indexes
  <2>3. ~(newest' <= store[k].at)
    BY <1>1, <2>1, <2>2 DEF IsKept
  <2> QED BY <1>1, <2>1, <2>2, <2>3 DEF IsKept, IsOfItsCommit
<1>4. AreKept'
  BY <1>3 DEF AreKept
<1> QED BY <1>1, <1>2, <1>4 DEF BranchInv

\* One that it does not see is of a file it does not see.
LEMMA EditKeeps ==
  ASSUME BranchInv, Index!Edit
  PROVE  BranchInv'
<1>1. PICK f \in CheckoutFiles, t \in Contents :
        /\ Index!Moved([files EXCEPT ![f] = t])
        /\ newest' = IF f \in Nested /\ Gone \in {t, tips[branch][f]} THEN newest ELSE tick'
        /\ UNCHANGED <<tips, branch>>
  BY DEF Index!Edit, Index!Head, Contents
<1>2. files \in Rows /\ [files EXCEPT ![f] = t] \in Rows
  BY DEF BranchInv, IndexTypes, Rows, Index!Rows, Contents
<1>3. CASE ~(f \in Nested /\ Gone \in {t, tips[branch][f]})
  BY <1>1, <1>2, <1>3, SeenMoveKeeps DEF BranchInv, IndexTypes
<1>4. CASE f \in Nested /\ Gone \in {t, tips[branch][f]}
  <2>1. /\ Parsed' /\ files' = [files EXCEPT ![f] = t] /\ tick' = tick + 1
        /\ moved' \subseteq CheckoutFiles /\ UNCHANGED <<store, ingest, key, tips, branch, newest>>
    BY <1>1, <1>2, <1>4, MoveParses
  <2>2. IndexTypes'
    BY <1>2, <2>1 DEF BranchInv, IndexTypes, Rows, Index!Rows, Stored, Index!Indexes
  <2>3. files'[f] = t /\ \A g \in CheckoutFiles \ {f} : files'[g] = files[g]
    BY <1>2, <2>1 DEF Rows, Index!Rows
  <2>4. \A g \in CheckoutFiles \ {f} : g \in Index!Unseen' <=> g \in Index!Unseen
    BY <2>1, <2>3 DEF Index!Unseen, Index!Untracked, Index!Tracked, Index!Head
  <2>5. f \in Index!Unseen' \/ files'[f] = tips[branch][f]
    BY <1>4, <2>1, <2>3 DEF Index!Unseen, Index!Untracked, Index!Tracked, Index!Head
  <2>6. ASSUME NEW k \in Branches \cup {Legacy}, store'[k] # None PROVE IsKept(store[k])'
    <3>1. store[k] \in Stored /\ store'[k] = store[k] /\ IsKept(store[k])
      BY <2>1, <2>6 DEF BranchInv, IndexTypes, AreKept
    <3>2. store[k].at \in Nat /\ tick \in Nat
      BY <3>1 DEF BranchInv, IndexTypes, Stored, Index!Indexes
    <3>3. IsOfItsCommit(store[k]) => IsOfItsCommit(store[k])'
      BY <2>1, <2>3, <2>4, <2>5, <3>1 DEF IsOfItsCommit
    <3> QED BY <2>1, <3>1, <3>2, <3>3 DEF IsKept
  <2> QED BY <2>1, <2>2, <2>6 DEF BranchInv, AreKept
<1> QED BY <1>3, <1>4

\* A commit, a stash and a checkout of another branch are seen.
LEMMA CheckoutKeeps ==
  ASSUME BranchInv, Index!Commit \/ Index!Stash \/ Index!Switch
  PROVE  BranchInv'
<1>0. files \in Rows /\ tips \in [Branches -> Rows] /\ branch \in Branches /\ tips[branch] \in Rows
  BY DEF BranchInv, IndexTypes
<1>1. CASE Index!Commit
  <2>1. Index!Moved(files) /\ newest' = tick' /\ branch' = branch
        /\ tips' = [tips EXCEPT ![branch] = files]
    BY <1>1 DEF Index!Commit
  <2>2. tips' \in [Branches -> Rows]
    BY <1>0, <2>1
  <2> QED BY <1>0, <2>1, <2>2, SeenMoveKeeps
<1>2. CASE Index!Stash
  <2>1. Index!Moved(tips[branch]) /\ newest' = tick' /\ UNCHANGED <<tips, branch>>
    BY <1>2 DEF Index!Stash, Index!Head
  <2> QED BY <1>0, <2>1, SeenMoveKeeps
<1>3. CASE Index!Switch
  <2> DEFINE dirty == {f \in CheckoutFiles : files[f] # Index!Head[f]}
             After(b) == [f \in CheckoutFiles |-> IF f \in dirty THEN files[f] ELSE tips[b][f]]
  <2>1. PICK b \in Branches :
          Index!Moved(After(b)) /\ branch' = b /\ newest' = tick' /\ UNCHANGED tips
    BY <1>3 DEF Index!Switch
  <2>2. After(b) \in Rows
    BY <1>0 DEF Rows, Index!Rows
  <2> QED BY <1>0, <2>1, <2>2, SeenMoveKeeps
<1> QED BY <1>1, <1>2, <1>3

\* The eviction leaves an index or removes it, and never one that is kept.
LEMMA EvictedIsFewer ==
  ASSUME NEW st \in [Branches \cup {Legacy} -> Stored \cup {None}], NEW kept
  PROVE  /\ Index!Evicted(st, kept) \in [Branches \cup {Legacy} -> Stored \cup {None}]
         /\ \A k \in Branches \cup {Legacy} :
              /\ Index!Evicted(st, kept)[k] \in {st[k], None}
              /\ k \in kept => Index!Evicted(st, kept)[k] = st[k]
  BY DEF Index!Evicted

\* An ingest begins with the branch's index, a sound copy or an empty one.
LEMMA ResolveKeeps ==
  ASSUME BranchInv, NEW wanted \in BOOLEAN, Index!Resolve(wanted)
  PROVE  BranchInv'
<1>1. /\ UNCHANGED <<files, tips, branch, newest>> /\ tick' = tick + 1
      /\ key' = branch /\ ingest' = "open" /\ moved' = {}
  BY DEF Index!Resolve, Index!checkout, Index!Tick
<1>2. /\ files \in Rows /\ tips \in [Branches -> Rows] /\ branch \in Branches
      /\ newest \in Nat /\ tick \in Nat /\ newest <= tick
      /\ store \in [Branches \cup {Legacy} -> Stored \cup {None}]
  BY DEF BranchInv, IndexTypes
<1> DEFINE New == [Index!New EXCEPT !.mtime = tick']
           Copies == IF store[branch] # None THEN {store[branch]}
                     ELSE IF wanted \/ Index!Seeds = {} THEN {None}
                     ELSE {[store[k] EXCEPT !.mtime = tick'] : k \in Index!Seeds}
<1>3. New \in Stored /\ New # None /\ New.at = 0 /\ New.head = None /\ ~New.marked
  <2>1. Index!Empty \in Rows
    BY DEF Index!Empty, Rows, Index!Rows, Index!Contents
  <2>2. Index!New \in Stored /\ Index!New.at = 0 /\ Index!New.head = None /\ ~Index!New.marked
    BY <1>2, <2>1 DEF Index!New, Stored, Index!Indexes, Rows
  <2>3. New \in Stored /\ New.at = 0 /\ New.head = None /\ ~New.marked
    BY <1>1, <1>2, <2>2 DEF Stored, Index!Indexes
  <2> QED BY <2>3, BranchesAssumption DEF Stored
<1>4. PICK i \in Copies :
        LET st == Index!Evicted([store EXCEPT ![branch] = i], {branch})
        IN  store' = IF i = None THEN [st EXCEPT ![branch] = New] ELSE st
  BY DEF Index!Resolve
<1>5. i = None \/ (i \in Stored /\ IsKept(i)')
  <2>1. ASSUME NEW k \in Branches \cup {Legacy}, store[k] # None, NEW m \in Nat,
               i \in {store[k], [store[k] EXCEPT !.mtime = m]}
        PROVE  i \in Stored /\ IsKept(i)'
    <3>1. store[k] \in Stored /\ IsKept(store[k])
      BY <1>2, <2>1 DEF BranchInv, AreKept
    <3>2. /\ i \in Stored /\ i.at = store[k].at /\ i.head = store[k].head /\ i.rows = store[k].rows
          /\ i.marked = store[k].marked /\ i.tainted = store[k].tainted
      BY <2>1, <3>1 DEF Stored, Index!Indexes
    <3>3. IsKept(i)
      BY <3>1, <3>2 DEF IsKept, IsOfItsCommit
    <3>4. Index!Unseen' = Index!Unseen
      BY <1>1 DEF Index!Unseen, Index!Untracked, Index!Tracked, Index!Head
    <3>5. i.at \in Nat
      BY <3>2 DEF Stored, Index!Indexes
    <3>6. IsOfItsCommit(i)' <=> IsOfItsCommit(i)
      BY <1>1, <3>4 DEF IsOfItsCommit
    <3> QED BY <1>1, <1>2, <3>2, <3>3, <3>5, <3>6 DEF IsKept
  <2>2. Index!Seeds \subseteq {k \in Branches \cup {Legacy} : store[k] # None}
    BY DEF Index!Seeds
  <2> QED BY <1>1, <1>2, <1>4, <2>1, <2>2
<1>6. /\ store' \in [Branches \cup {Legacy} -> Stored \cup {None}]
      /\ store'[branch] \in {i, New} /\ store'[branch] \in Stored
      /\ \A k \in (Branches \cup {Legacy}) \ {branch} : store'[k] \in {store[k], None}
  <2> DEFINE put == [store EXCEPT ![branch] = i]
             st == Index!Evicted(put, {branch})
  <2>1. /\ put \in [Branches \cup {Legacy} -> Stored \cup {None}] /\ put[branch] = i
        /\ \A k \in (Branches \cup {Legacy}) \ {branch} : put[k] = store[k]
    BY <1>2, <1>5
  <2>2. /\ st \in [Branches \cup {Legacy} -> Stored \cup {None}] /\ st[branch] = i
        /\ \A k \in (Branches \cup {Legacy}) \ {branch} : st[k] \in {store[k], None}
    BY <1>2, <2>1, EvictedIsFewer
  <2>3. store' = IF i = None THEN [st EXCEPT ![branch] = New] ELSE st
    BY <1>4
  <2> HIDE DEF put, st, New
  <2> QED BY <1>2, <1>3, <1>5, <2>2, <2>3
<1>7. ASSUME NEW k \in Branches \cup {Legacy}, store'[k] # None PROVE IsKept(store[k])'
  <2>1. CASE k = branch /\ store'[k] = i /\ i # None
    BY <1>5, <2>1
  <2>2. CASE store'[k] = New
    BY <1>1, <1>2, <1>3, <2>2 DEF IsKept
  <2>3. CASE store'[k] = store[k]
    BY <1>1, <1>2, <1>7, <2>3, UntouchedKept
  <2> QED BY <1>6, <1>7, <2>1, <2>2, <2>3
<1>8. store'[branch] # None
  BY <1>6, BranchesAssumption DEF Stored
<1>9. IndexTypes'
  BY <1>1, <1>2, <1>6, <1>8 DEF IndexTypes, Rows, Index!Rows, Index!Contents, Stored, Index!Indexes
<1>10. AreKept' /\ Parsed'
  BY <1>1, <1>7 DEF AreKept, Parsed
<1> QED BY <1>9, <1>10 DEF BranchInv

\* The ingest writes one index, and the others stay.
LEMMA PutKeeps ==
  ASSUME BranchInv, ingest # "idle", NEW i \in Stored, i # None, store' = [store EXCEPT ![key] = i],
         UNCHANGED <<files, tips, branch, newest, key>>, tick' \in {tick, tick + 1},
         ingest' \in {"idle", "parse", "end"}, moved' \subseteq moved, IsKept(i)'
  PROVE  IndexTypes' /\ AreKept' /\ store'[key'] = i
<1>1. key \in Branches /\ tick \in Nat /\ newest <= tick /\ newest \in Nat
  BY DEF BranchInv, IndexTypes
<1>2. /\ store' \in [Branches \cup {Legacy} -> Stored \cup {None}] /\ store'[key] = i
      /\ \A k \in (Branches \cup {Legacy}) \ {key} : store'[k] = store[k]
  BY <1>1 DEF BranchInv, IndexTypes
<1>3. IndexTypes'
  BY <1>1, <1>2 DEF BranchInv, IndexTypes, Rows, Index!Rows, Index!Contents, Stored, Index!Indexes
<1>4. ASSUME NEW k \in Branches \cup {Legacy}, store'[k] # None PROVE IsKept(store[k])'
  <2>1. CASE k = key
    BY <1>2, <2>1
  <2>2. CASE k # key
    BY <1>1, <1>2, <1>4, <2>2, UntouchedKept
  <2> QED BY <2>1, <2>2
<1> QED BY <1>2, <1>3, <1>4 DEF AreKept

\* The incremental ingest takes out the rows of what git says has changed.
LEMMA PurgeKeeps ==
  ASSUME BranchInv, Index!Purge
  PROVE  BranchInv'
<1> DEFINE i == store[key]
           changed == Index!ChangedSince(i.head)
           gone == changed \cup Index!DeletedSince(i.head)
<1>0. PICK j : j = [i EXCEPT !.rows = [f \in CheckoutFiles |-> IF f \in gone THEN Gone ELSE @[f]],
                     !.marked = TRUE, !.tainted = @ \ gone]
  OBVIOUS
<1>1. /\ ingest = "open" /\ store' = [store EXCEPT ![key] = j] /\ todo' = changed /\ moved' = {}
      /\ ingest' = (IF changed = {} THEN "end" ELSE "parse")
      /\ UNCHANGED <<files, tips, branch, newest, key, tick>>
  BY <1>0 DEF Index!Purge, Index!Put, Index!Ingesting, Index!checkout
<1>2. i \in Stored /\ IsKept(i) /\ ~i.marked /\ i.head # None
  BY <1>1 DEF BranchInv, IndexTypes, AreKept, Index!Purge, Index!Amendable, Index!Sound
<1>3. /\ i.head \in Rows /\ i.rows \in Rows /\ i.tainted \subseteq CheckoutFiles
      /\ \A f \in CheckoutFiles \ i.tainted : i.rows[f] = i.head[f]
  BY <1>2 DEF IsKept, IsOfItsCommit, Stored, Index!Indexes, Rows
<1>4. [f \in CheckoutFiles |-> IF f \in gone THEN Gone ELSE i.rows[f]] \in Rows
  BY <1>3 DEF Rows, Index!Rows, Index!Contents
<1>5. /\ j \in Stored /\ j.marked /\ j.tainted = i.tainted \ gone /\ j.at = i.at /\ j.head = i.head
      /\ j.rows = [f \in CheckoutFiles |-> IF f \in gone THEN Gone ELSE i.rows[f]]
  BY <1>0, <1>2, <1>4 DEF Stored, Index!Indexes, Rows
<1>6. j # None
  BY <1>5, BranchesAssumption DEF Stored
<1>7. IsKept(j)'
  BY <1>1, <1>2, <1>5 DEF IsKept
<1>8. IndexTypes' /\ AreKept' /\ store'[key'] = j
  <2> HIDE DEF changed
  <2> QED BY <1>1, <1>5, <1>6, <1>7, PutKeeps
<1>9. ASSUME NEW f \in CheckoutFiles, f \notin j.tainted, f \notin changed
      PROVE  j.rows[f] = files[f]
  <2>1. CASE f \in gone
    BY <1>3, <1>5, <1>9, <2>1 DEF Index!ChangedSince, Index!DeletedSince, Index!Tracked, Index!Untracked
  <2>2. CASE f \notin gone
    BY <1>3, <1>5, <1>9, <2>2 DEF Index!ChangedSince, Index!DeletedSince, Index!Tracked, Index!Untracked
  <2> QED BY <2>1, <2>2
<1>10. Parsed'
  <2> HIDE DEF changed
  <2> QED BY <1>1, <1>5, <1>8, <1>9 DEF Parsed
<1> QED BY <1>8, <1>10 DEF BranchInv

\* The full one begins with no rows, and has every file to parse.
LEMMA ClearKeeps ==
  ASSUME BranchInv, Index!Clear
  PROVE  BranchInv'
<1> DEFINE i == store[key]
<1>0. PICK j : j = [i EXCEPT !.rows = Index!Empty, !.marked = TRUE, !.tainted = {}]
  OBVIOUS
<1>1. /\ ingest = "open" /\ store' = [store EXCEPT ![key] = j] /\ todo' = CheckoutFiles
      /\ ingest' = "parse" /\ moved' = {} /\ UNCHANGED <<files, tips, branch, newest, key, tick>>
  BY <1>0 DEF Index!Clear, Index!Put, Index!Ingesting, Index!checkout
<1>2. i \in Stored /\ IsKept(i)
  BY <1>1 DEF BranchInv, IndexTypes, AreKept
<1>3. Index!Empty \in Rows
  BY DEF Index!Empty, Rows, Index!Rows, Index!Contents
<1>4. j \in Stored /\ j.marked /\ j.at = i.at /\ j.head = i.head
  BY <1>0, <1>2, <1>3 DEF Stored, Index!Indexes, Rows
<1>5. j # None
  BY <1>4, BranchesAssumption DEF Stored
<1>6. IsKept(j)'
  BY <1>1, <1>2, <1>4 DEF IsKept
<1>7. IndexTypes' /\ AreKept' /\ store'[key'] = j
  <2> QED BY <1>1, <1>4, <1>5, <1>6, PutKeeps
<1>8. Parsed'
  <2> QED BY <1>1, <1>4, <1>7 DEF Parsed
<1> QED BY <1>7, <1>8 DEF BranchInv

\* What is parsed is as in the files.
LEMMA ParseKeeps ==
  ASSUME BranchInv, Index!Parse
  PROVE  BranchInv'
<1> DEFINE i == store[key]
<1>0. PICK j : j = [i EXCEPT !.rows = [f \in CheckoutFiles |-> IF f \in todo THEN files[f] ELSE @[f]]]
  OBVIOUS
<1>1. /\ ingest = "parse" /\ store' = [store EXCEPT ![key] = j] /\ moved' = moved \ todo
      /\ ingest' = "end" /\ UNCHANGED <<files, tips, branch, newest, key, tick>>
  BY <1>0 DEF Index!Parse, Index!Put, Index!Ingesting, Index!checkout
<1>2. /\ i \in Stored /\ IsKept(i) /\ i.marked /\ files \in Rows
      /\ \A f \in CheckoutFiles \ (i.tainted \cup moved) : f \in todo \/ i.rows[f] = files[f]
  BY <1>1 DEF BranchInv, IndexTypes, AreKept, Parsed
<1>3. [f \in CheckoutFiles |-> IF f \in todo THEN files[f] ELSE i.rows[f]] \in Rows
  BY <1>2 DEF Stored, Index!Indexes, Rows, Index!Rows, Index!Contents
<1>4. /\ j \in Stored /\ j.marked /\ j.tainted = i.tainted /\ j.at = i.at /\ j.head = i.head
      /\ j.rows = [f \in CheckoutFiles |-> IF f \in todo THEN files[f] ELSE i.rows[f]]
  BY <1>0, <1>2, <1>3 DEF Stored, Index!Indexes, Rows
<1>5. j # None
  BY <1>4, BranchesAssumption DEF Stored
<1>6. IsKept(j)'
  BY <1>1, <1>2, <1>4 DEF IsKept
<1>7. IndexTypes' /\ AreKept' /\ store'[key'] = j
  <2> QED BY <1>1, <1>4, <1>5, <1>6, PutKeeps
<1>8. Parsed'
  <2> QED BY <1>1, <1>2, <1>4, <1>7 DEF Parsed
<1> QED BY <1>7, <1>8 DEF BranchInv

\* At the end the index is the commit's that is checked out then.
LEMMA EndKeeps ==
  ASSUME BranchInv, Index!End
  PROVE  BranchInv'
<1> DEFINE i == store[key]
           differ == {f \in CheckoutFiles : files[f] # tips[branch][f]}
<1>0. PICK j : j = [i EXCEPT !.head = tips[branch], !.at = tick', !.mtime = tick', !.marked = FALSE,
                     !.claims = Index!Claims(i),
                     !.tainted = @ \cup moved \cup differ]
  OBVIOUS
<1>1. /\ ingest = "end" /\ tick' = tick + 1 /\ ingest' = "idle"
      /\ UNCHANGED <<files, tips, branch, newest, key, moved>>
  BY DEF Index!End, Index!Tick, Index!checkout
<1>2. store' = [store EXCEPT ![key] = j]
  BY <1>0 DEF Index!End, Index!Put, Index!Head
<1>3. /\ i \in Stored /\ tick \in Nat /\ newest <= tick /\ newest \in Nat /\ tips[branch] \in Rows
      /\ \A f \in CheckoutFiles \ (i.tainted \cup moved) : i.rows[f] = files[f]
  BY <1>1 DEF BranchInv, IndexTypes, AreKept, Parsed
<1>4. moved \subseteq CheckoutFiles /\ Index!Claims(i) \in BOOLEAN
  BY <1>3 DEF BranchInv, IndexTypes, Index!Claims, Stored, Index!Indexes
<1>5. /\ j \in Stored /\ j.rows = i.rows /\ j.at = tick' /\ j.head = tips[branch]
      /\ j.tainted = i.tainted \cup moved \cup differ
  <2>1. i.tainted \cup moved \cup differ \subseteq CheckoutFiles
    BY <1>3, <1>4 DEF Stored, Index!Indexes
  <2>2. tick' \in Nat
    BY <1>1, <1>3
  <2> HIDE DEF i, differ
  <2> QED BY <1>0, <1>3, <1>4, <2>1, <2>2 DEF Stored, Index!Indexes, Rows
<1>6. j # None
  BY <1>5, BranchesAssumption DEF Stored
<1>7. IsKept(j)'
  <2>1. \A f \in CheckoutFiles \ j.tainted : j.rows[f] = files[f] /\ files[f] = tips[branch][f]
    BY <1>3, <1>5
  <2>2. IsOfItsCommit(j)'
    BY <1>1, <1>5, <2>1 DEF IsOfItsCommit
  <2> QED BY <1>1, <1>3, <1>5, <2>2 DEF IsKept
<1>8. IndexTypes' /\ AreKept'
  <2> QED BY <1>1, <1>2, <1>5, <1>6, <1>7, PutKeeps
<1>9. Parsed'
  BY <1>1 DEF Parsed
<1> QED BY <1>8, <1>9 DEF BranchInv

\* A kill ends the ingest where it is, and `hayven prune' removes whole indexes.
LEMMA EndsAndPrunes ==
  ASSUME BranchInv, Index!Kill \/ Index!Prune
  PROVE  BranchInv'
<1>1. CASE Index!Kill
  <2>1. ingest' = "idle" /\ UNCHANGED <<files, tips, branch, newest, store, key, moved, tick>>
    BY <1>1 DEF Index!Kill, Index!checkout
  <2>2. IndexTypes' /\ Parsed'
    BY <2>1 DEF BranchInv, IndexTypes, Parsed, Rows, Index!Rows, Index!Contents, Stored, Index!Indexes
  <2>3. AreKept'
    BY <2>1, UntouchedKept DEF AreKept, BranchInv, IndexTypes
  <2> QED BY <2>2, <2>3 DEF BranchInv
<1>2. CASE Index!Prune
  <2>1. /\ ingest = "idle" /\ UNCHANGED <<files, tips, branch, newest, ingest, moved, tick>>
        /\ store' \in [Branches \cup {Legacy} -> Stored \cup {None}]
        /\ \A k \in Branches \cup {Legacy} : store'[k] \in {store[k], None}
    BY <1>2 DEF Index!Prune, Index!checkout, Index!run, BranchInv, IndexTypes
  <2>2. IndexTypes' /\ Parsed'
    BY <2>1 DEF BranchInv, IndexTypes, Parsed, Rows, Index!Rows, Index!Contents, Stored, Index!Indexes
  <2>3. AreKept'
    BY <2>1, UntouchedKept DEF AreKept, BranchInv, IndexTypes
  <2> QED BY <2>2, <2>3 DEF BranchInv
<1> QED BY <1>1, <1>2

LEMMA IndexNext ==
  ASSUME BranchInv, [Index!Next]_indexVars
  PROVE  BranchInv'
<1>1. CASE Index!Next
  BY <1>1, EditKeeps, CheckoutKeeps, ResolveKeeps, PurgeKeeps, ClearKeeps, ParseKeeps, EndKeeps,
    EndsAndPrunes DEF Index!Next
<1>2. CASE UNCHANGED indexVars
  <2>1. UNCHANGED <<files, tips, branch, newest, store, ingest, key, todo, moved, tick>>
    BY <1>2 DEF indexVars
  <2>2. IndexTypes' /\ Parsed'
    BY <2>1 DEF BranchInv, IndexTypes, Parsed, Rows, Index!Rows, Index!Contents, Stored, Index!Indexes
  <2>3. AreKept'
    BY <2>1, UntouchedKept DEF AreKept, BranchInv, IndexTypes
  <2> QED BY <2>2, <2>3 DEF BranchInv
<1> QED BY <1>1, <1>2

LEMMA IndexInit == Index!Init => BranchInv
<1> SUFFICES ASSUME Index!Init PROVE BranchInv
  OBVIOUS
<1>1. /\ tips = Tips /\ branch \in Branches /\ files = Tips[branch] /\ newest = 0 /\ tick = 1
      /\ ingest = "idle" /\ moved = {}
  BY DEF Index!Init
<1>2. files \in Rows /\ tips \in [Branches -> Rows]
  BY <1>1, BranchesAssumption DEF Rows
<1> DEFINE whole == [Index!New EXCEPT !.rows = files, !.head = files, !.at = 1, !.claims = TRUE]
<1>3. PICK legacy \in {None, whole} :
        store = [k \in Branches \cup {Legacy} |-> IF k = Legacy THEN legacy ELSE None]
  BY DEF Index!Init
<1>4. /\ whole \in Stored /\ whole.rows = files /\ whole.head = files /\ whole.at = 1
      /\ whole.tainted = {}
  <2>1. Index!Empty \in Rows
    BY DEF Index!Empty, Rows, Index!Rows, Index!Contents
  <2>2. Index!New \in Stored /\ Index!New.tainted = {}
    BY <1>1, <2>1 DEF Index!New, Stored, Index!Indexes, Rows
  <2> QED BY <1>2, <2>2 DEF Stored, Index!Indexes, Rows
<1>5. IndexTypes
  <2> HIDE DEF whole
  <2> QED BY <1>1, <1>2, <1>3, <1>4 DEF IndexTypes
<1>6. IsKept(whole)
  <2> HIDE DEF whole
  <2> QED BY <1>1, <1>2, <1>4 DEF IsKept, IsOfItsCommit
<1>7. AreKept
  <2> HIDE DEF whole
  <2> QED BY <1>3, <1>6 DEF AreKept
<1>8. Parsed
  BY <1>1 DEF Parsed
<1> QED BY <1>5, <1>7, <1>8 DEF BranchInv

\* A behaviour that is of the indexes begins and goes on as BranchIndexes says.
IndexesHold == part = "indexes" => BranchInv

LEMMA IndexesAlwaysHold == CheckoutSpec => []IndexesHold
<1>1. CheckoutInit => IndexesHold
  BY IndexInit DEF CheckoutInit, IndexesHold
<1>2. IndexesHold /\ [CheckoutNext]_<<part, vars, startVars, indexVars>> => IndexesHold'
  <2> SUFFICES ASSUME IndexesHold, [CheckoutNext]_<<part, vars, startVars, indexVars>>,
                      part' = "indexes"
               PROVE  BranchInv'
    BY DEF IndexesHold
  <2>1. part = "indexes" /\ BranchInv
    BY DEF CheckoutNext, ClaimsStep, StartsStep, IndexesStep, IndexesHold
  <2>2. [Index!Next]_indexVars
    BY <2>1 DEF CheckoutNext, ClaimsStep, StartsStep, IndexesStep
  <2> QED BY <2>1, <2>2, IndexNext
<1> QED BY <1>1, <1>2, PTL DEF CheckoutSpec

(***************************************************************************)
(* A read that warns of nothing answers from the files as they are, but    *)
(* for those that git or the probe does not see and those that were edited *)
(* during an ingest, however branches were switched, indexes copied,       *)
(* amended, evicted and pruned, and ingests killed (evaluateStaleness,     *)
(* resolveReadIndex, resolveWriteIndex).                                   *)
(***************************************************************************)
THEOREM QuietIsAlwaysRight == CheckoutSpec => []QuietIsRight
<1>1. ASSUME BranchInv, NEW k \in Branches \cup {Legacy}, store[k] # None, store[k].at > 0,
             Index!Quiet(store[k]), NEW f \in CheckoutFiles \ (Index!Unseen \cup store[k].tainted)
      PROVE  store[k].rows[f] = files[f]
  <2>1. IsOfItsCommit(store[k])
    BY <1>1 DEF BranchInv, AreKept, IsKept, Index!Quiet, Index!Sound
  <2>2. store[k].rows[f] = store[k].head[f]
    BY <1>1, <2>1 DEF IsOfItsCommit
  <2>3. store[k].at \in Nat
    BY <1>1 DEF BranchInv, IndexTypes, Stored, Index!Indexes
  <2>4. CASE newest <= store[k].at
    BY <1>1, <2>1, <2>2, <2>4 DEF IsOfItsCommit
  <2>5. CASE Index!ContentUnchanged(store[k].head)
    <3>1. store[k].head = tips[branch] /\ (f \in Index!Tracked => files[f] = tips[branch][f])
      BY <2>5 DEF Index!ContentUnchanged, Index!Head
    <3>2. CASE f \in Index!Tracked
      BY <2>2, <3>1, <3>2
    <3>3. CASE f \notin Index!Tracked
      BY <1>1, <2>2, <3>1, <3>3 DEF Index!Unseen, Index!Untracked, Index!Tracked, Index!Head
    <3> QED BY <3>2, <3>3
  <2> QED BY <1>1, <2>3, <2>4, <2>5 DEF Index!Quiet
<1>2. IndexesHold => QuietIsRight
  <2> SUFFICES ASSUME part = "indexes", BranchInv PROVE Index!QuietIsRight
    BY DEF IndexesHold, QuietIsRight
  <2>1. PICK k \in Branches \cup {Legacy} : Index!Read = store[k]
    BY DEF Index!Read, BranchInv, IndexTypes
  <2> QED BY <1>1, <2>1 DEF Index!QuietIsRight
<1> QED BY <1>2, IndexesAlwaysHold, PTL

(***************************************************************************)
(* An ingest during which nothing changed ends the warning that asked for  *)
(* it, whatever index it began with (runIngest, recordNodeWatermark).      *)
(***************************************************************************)
THEOREM IngestAlwaysQuiets == CheckoutSpec => IngestQuiets
<1> DEFINE Ends == /\ Index!End /\ moved = {} /\ branch = key
                   /\ (full \/ store[key].rows # Index!Empty) /\ newest <= tick
<1>1. ASSUME IndexesHold, [CheckoutNext]_<<part, vars, startVars, indexVars>>, Ends,
             ~UNCHANGED Index!vars
      PROVE  Index!Quiet(store[key])'
  <2>1. part = "indexes" /\ BranchInv
    <3>1. UNCHANGED indexVars => UNCHANGED Index!vars
      BY DEF indexVars, Index!vars, Index!checkout, Index!run
    <3>2. IndexesStep
      BY <1>1, <3>1 DEF CheckoutNext, ClaimsStep, StartsStep
    <3> QED BY <1>1, <3>2 DEF IndexesStep, IndexesHold
  <2> DEFINE i == store[key]
  <2>2. PICK j : j = [i EXCEPT !.head = tips[branch], !.at = tick', !.mtime = tick', !.marked = FALSE,
                        !.claims = Index!Claims(i),
                        !.tainted = @ \cup moved
                                      \cup {f \in CheckoutFiles : files[f] # tips[branch][f]}]
    OBVIOUS
  <2>3. /\ ingest = "end" /\ tick' = tick + 1 /\ UNCHANGED <<key, newest>>
        /\ store' = [store EXCEPT ![key] = j]
    BY <1>1, <2>2 DEF Index!End, Index!Put, Index!Tick, Index!checkout, Index!Head
  <2>4. i \in Stored /\ key \in Branches /\ tick \in Nat /\ newest \in Nat
    BY <2>1, <2>3 DEF BranchInv, IndexTypes
  <2>5. /\ j.at = tick' /\ j.rows = i.rows /\ ~j.marked /\ j.claims = Index!Claims(i)
    BY <2>2, <2>4 DEF Stored, Index!Indexes
  <2>6. ~(j.rows = Index!Empty /\ j.claims)
    BY <1>1, <2>5 DEF Index!Claims
  <2>7. store'[key'] = j
    BY <2>1, <2>3, <2>4 DEF BranchInv, IndexTypes
  <2>8. Index!Empty' = Index!Empty
    BY DEF Index!Empty
  <2>9. newest' <= j.at
    BY <1>1, <2>3, <2>4, <2>5
  <2> HIDE DEF i
  <2> QED BY <2>5, <2>6, <2>7, <2>8, <2>9 DEF Index!Quiet, Index!Sound
<1>2. IndexesHold /\ [CheckoutNext]_<<part, vars, startVars, indexVars>>
        => [Ends => Index!Quiet(store[key])']_(Index!vars)
  BY <1>1
<1> QED BY <1>2, IndexesAlwaysHold, PTL DEF CheckoutSpec, IngestQuiets, Index!IngestQuiets
==============================================================================
