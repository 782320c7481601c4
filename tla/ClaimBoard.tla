------------------------------ MODULE ClaimBoard ------------------------------
(***************************************************************************)
(* The claims board: the POST and DELETE handlers of                        *)
(* daemon/src/daemon/routes/claims.ts over the OR-Set of                     *)
(* daemon/src/crdt/orset.ts, on daemons that exchange operations.  A POST    *)
(* looks for an earlier claim of the same id, then for an overlap, and, when *)
(* some active claim is adjacent, awaits an oracle before it registers; other*)
(* requests and a peer's operations are handled meanwhile.                   *)
(***************************************************************************)
EXTENDS Naturals, FiniteSets

CONSTANTS
  Daemon, Agent, Id, Entity,
  Wants,     \* the claims an agent may ask for: [agent, id, scope, ttl, force]
  Near,      \* pairs of entities that an edge or a module connects
  Late,      \* a daemon's writer outranks another's (compareWriter)
  MaxTime,   \* bound: the wall clock
  MaxOps     \* bound: operations minted by each daemon

ASSUME ClaimAssumption ==
  /\ Wants \subseteq [agent : Agent, id : Id, scope : SUBSET Entity,
                      ttl : Nat \ {0}, force : BOOLEAN]
  /\ Near \subseteq Entity \X Entity /\ Late \in [Daemon -> Nat]
  /\ MaxTime \in Nat /\ MaxOps \in [Daemon -> Nat]

Tags == [hlc : Nat, writer : Daemon]

\* waited, did its request await an oracle?, is on no wire.
AddOps == [kind : {"add"}, tag : Tags, id : Id, agent : Agent,
           scope : SUBSET Entity, ttl : Nat, waited : BOOLEAN]
RemoveOps == [kind : {"remove"}, tag : Tags, id : Id, observed : SUBSET Tags]

VARIABLES
  log,         \* each daemon's OR-Set segments, as a set of operations
  adds,        \* OrSetState.adds
  removed,     \* OrSetState.removed
  clock,       \* the HLC generator's last value
  overridden,  \* ids in overriddenVerdicts
  req,         \* each agent's request: pending, or answered
  now          \* wall clock

vars == <<log, adds, removed, clock, overridden, req, now>>

NoRequest == [state |-> "none"]
Requests == {NoRequest} \union
  [state : {"sent", "assessing", "held", "taken", "overlap", "potential conflict",
            "registered", "failed"}, at : Daemon, want : Wants]

Init ==
  /\ log = [d \in Daemon |-> {}] /\ adds = [d \in Daemon |-> {}]
  /\ removed = [d \in Daemon |-> {}] /\ clock = [d \in Daemon |-> 0]
  /\ overridden = [d \in Daemon |-> {}]
  /\ req = [a \in Agent |-> NoRequest] /\ now = 0

------------------------------------------------------------------------------
(* OrSetState *)

Outranks(t, u) ==
  t.hlc > u.hlc \/ (t.hlc = u.hlc /\ Late[t.writer] > Late[u.writer])

Live(d) == {op \in adds[d] : op.tag \notin removed[d]}
LatestOfId(ops) == {op \in ops : \A x \in ops : x.id = op.id => ~Outranks(x.tag, op.tag)}

\* active(), and active(now), which drops the expired before it chooses.
Shown(d) == LatestOfId(Live(d))
Active(d) == LatestOfId({op \in Live(d) : op.ttl > now})

\* apply, on any copy of the state.
AddsWith(d, op) == IF op.kind = "add" THEN adds[d] \union {op} ELSE adds[d]
RemovedWith(d, op) == IF op.kind = "remove" THEN removed[d] \union op.observed ELSE removed[d]

\* A slip: a remove takes the adds it observed off the list, without a tombstone.
ApplyForgetful(d, op) ==
  /\ adds' = [adds EXCEPT ![d] = {x \in AddsWith(d, op) :
                                    op.kind = "remove" => x.tag \notin op.observed}]
  /\ UNCHANGED removed

Apply(d, op) ==
  /\ adds' = [adds EXCEPT ![d] = AddsWith(d, op)]
  /\ removed' = [removed EXCEPT ![d] = RemovedWith(d, op)]

\* CrdtState.applyOr of a fresh operation: segment, memory, clock.
Record(d, op) ==
  /\ log' = [log EXCEPT ![d] = @ \union {op}]
  /\ clock' = [clock EXCEPT ![d] = op.tag.hlc]
  /\ Apply(d, op)

FreshTag(d) == [hlc |-> clock[d] + 1, writer |-> d]
MayMint(d) == Cardinality({op \in log[d] : op.tag.writer = d}) < MaxOps[d]

\* makeRemoveOpFor observes every add of the id, shown or not.
Observed(d, id) == {op.tag : op \in {x \in adds[d] : x.id = id}}

------------------------------------------------------------------------------
(* The handlers *)

Overlaps(scope, op) == scope \intersect op.scope # {}
Adjacent(scope, op) ==
  \E x \in scope, y \in op.scope : <<x, y>> \in Near \/ <<y, x>> \in Near

Answer(a, state) == req' = [req EXCEPT ![a].state = state]

\* The CLI sends a claim; it sends another when it has the answer.
Ask(a) ==
  /\ req[a].state \notin {"sent", "assessing"}
  /\ \E w \in Wants, d \in Daemon :
       w.agent = a /\ req' = [req EXCEPT ![a] = [state |-> "sent", at |-> d, want |-> w]]
  /\ UNCHANGED <<log, adds, removed, clock, overridden, now>>

Register(a, overriding) ==
  LET d == req[a].at
      w == req[a].want
  IN /\ MayMint(d)
     /\ Record(d, [kind |-> "add", tag |-> FreshTag(d), id |-> w.id, agent |-> a,
                   scope |-> w.scope, ttl |-> now + w.ttl,
                   waited |-> req[a].state = "assessing"])
     /\ overridden' = [overridden EXCEPT ![d] = IF overriding THEN @ \union {w.id} ELSE @]
     /\ Answer(a, "registered")
     /\ UNCHANGED now

\* A slip: an agent's own claims do not stand in its way.
BlockingOthers(d, w) == {op \in Active(d) : Overlaps(w.scope, op) /\ op.agent # w.agent}

\* findOverlap
Blocking(d, w) == {op \in Active(d) : Overlaps(w.scope, op)}

\* POST up to the first await; without an adjacent claim, to its end.
Post(a) ==
  /\ req[a].state = "sent"
  /\ LET d == req[a].at
         w == req[a].want
         sameId == {op \in Shown(d) : op.id = w.id}
         blocking == Blocking(d, w)
         adjacent == {op \in Active(d) : Adjacent(w.scope, op)}
         Reply(state) == Answer(a, state) /\ UNCHANGED <<log, adds, removed, clock, overridden, now>>
     IN \/ /\ \E op \in sameId : op.agent = a
           /\ Reply("held")
        \/ /\ \E op \in sameId : op.agent # a
           /\ Reply("taken")
        \/ /\ sameId = {} /\ blocking # {}
           /\ Reply("overlap")
        \/ /\ sameId = {} /\ blocking = {} /\ adjacent # {}
           /\ Reply("assessing")
        \/ /\ sameId = {} /\ blocking = {} /\ adjacent = {}
           /\ Register(a, FALSE)

\* The oracle has answered for every adjacent claim.
Assessed(a, conflict) ==
  /\ req[a].state = "assessing"
  /\ IF conflict /\ ~req[a].want.force
     THEN /\ Answer(a, "potential conflict")
          /\ UNCHANGED <<log, adds, removed, clock, overridden, now>>
     ELSE Register(a, conflict)

\* DELETE: whoever asks, for any id on the board.
Release(d, id) ==
  /\ \E op \in Shown(d) : op.id = id
  /\ MayMint(d)
  /\ Record(d, [kind |-> "remove", tag |-> FreshTag(d), id |-> id, observed |-> Observed(d, id)])
  /\ overridden' = [overridden EXCEPT ![d] = @ \ {id}]
  /\ UNCHANGED <<req, now>>

\* An operation of a peer's segments arrives, first or again.
Exchange(d, e) ==
  /\ d # e
  /\ \E op \in log[e] :
       /\ log' = [log EXCEPT ![d] = @ \union {op}]
       /\ clock' = [clock EXCEPT ![d] = IF op.tag.hlc > @ THEN op.tag.hlc ELSE @]
       /\ Apply(d, op)
  /\ UNCHANGED <<overridden, req, now>>

\* The daemon stops and starts: hydrate replays its segments, the audit map
\* and the requests under way are gone.
Restart(d) ==
  /\ adds' = [adds EXCEPT ![d] = {op \in log[d] : op.kind = "add"}]
  /\ removed' = [removed EXCEPT ![d] = UNION {op.observed : op \in {x \in log[d] : x.kind = "remove"}}]
  /\ overridden' = [overridden EXCEPT ![d] = {}]
  /\ req' = [a \in Agent |->
       IF req[a].state \in {"sent", "assessing"} /\ req[a].at = d
       THEN [req[a] EXCEPT !.state = "failed"] ELSE req[a]]
  /\ UNCHANGED <<log, clock, now>>

Pass == now < MaxTime /\ now' = now + 1 /\ UNCHANGED <<log, adds, removed, clock, overridden, req>>

Next ==
  \/ \E a \in Agent : Ask(a)
  \/ \E a \in Agent : Post(a)
  \/ \E a \in Agent : \E conflict \in BOOLEAN : Assessed(a, conflict)
  \/ \E d \in Daemon, id \in Id : Release(d, id)
  \/ \E d, e \in Daemon : Exchange(d, e)
  \/ \E d \in Daemon : Restart(d)
  \/ Pass

Spec == Init /\ [][Next]_vars

------------------------------------------------------------------------------
(* Properties *)

TypeOK ==
  /\ log \in [Daemon -> SUBSET (AddOps \union RemoveOps)]
  /\ adds \in [Daemon -> SUBSET AddOps] /\ removed \in [Daemon -> SUBSET Tags]
  /\ clock \in [Daemon -> Nat] /\ \A d \in Daemon : \A op \in log[d] : op.tag.hlc <= clock[d]
  /\ overridden \in [Daemon -> SUBSET Id]
  /\ req \in [Agent -> Requests] /\ now \in 0..MaxTime

(* The board is what the operations received say, whatever their order and   *)
(* however often they came: an add is shown unless a remove has observed it. *)
BoardIsOps ==
  \A d \in Daemon :
    Live(d) =
    {op \in log[d] : op.kind = "add" /\
       \A r \in log[d] : r.kind = "remove" => op.tag \notin r.observed}

(* A claim that a daemon has seen released does not come back there, not by  *)
(* a late or repeated operation of a peer and not by a restart.              *)
ReleasedStays ==
  [][\A d \in Daemon : \A op \in log[d] \ Live(d) : op \notin Live(d)']_vars

(* Overlap is a hard conflict: no two unexpired claims of a board share an   *)
(* entity (findOverlap, ARCHITECTURE 17.1).                                  *)
NoOverlap ==
  \A d \in Daemon : \A op, other \in Active(d) : Overlaps(op.scope, other) => op = other

(* An add of the same id that outranks a claim: the board shows it instead,  *)
(* until it expires or is released.                                          *)
Hides(d, op) == \E x \in adds[d] : x.id = op.id /\ Outranks(x.tag, op.tag)

(* Of the claims a daemon registered two overlap on its own board only if one*)
(* of their requests awaited an oracle, or a peer's claim of the same id has *)
(* hidden one of them: whatever was released, expired or restarted between.  *)
OverlapNeedsWait ==
  \A d \in Daemon : \A op, other \in Active(d) :
    /\ Overlaps(op.scope, other) /\ op # other
    /\ op.tag.writer = d /\ other.tag.writer = d
    => op.waited \/ other.waited \/ Hides(d, op) \/ Hides(d, other)
=============================================================================
