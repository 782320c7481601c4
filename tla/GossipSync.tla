------------------------------ MODULE GossipSync ------------------------------
(***************************************************************************)
(* Peer synchronisation of op logs: the exchange `hayven sync` runs against *)
(* a peer's daemon (cli/sync.ts, runSyncWith), the four HTTP endpoints it   *)
(* calls (daemon/routes/sync.ts), the Merkle comparison both sides compute  *)
(* (crdt/merkle.ts) and the live-sync socket (daemon/routes/ws.ts).         *)
(* Sessions of several nodes run at once, between local writes, and may die *)
(* at any request.  A segment is one CRDT type's one day; the Merkle leaf   *)
(* of a segment is its op-key set, so leaves are compared as the sets they  *)
(* hash.  What a daemon does with an accepted batch is ReplicaLog's.        *)
(***************************************************************************)
EXTENDS Naturals

CONSTANTS
  Node,       \* daemons serving the project
  Op,         \* operations that will be minted
  Seg,        \* segments: (type, UTC day)
  Author,     \* op -> the node that mints it
  SegOf,      \* op -> the segment of its HLC day
  Initiates,  \* <<n, p>>: n's user runs `hayven sync <p>`
  Links,      \* <<n, m>>: m may hold a live-sync socket to n's daemon
  Ahead,      \* <<n, s>>: s starts beyond n's acceptance window
  Large,      \* <<n, s>>: s may reach its byte cap at n
  MaxFails    \* bound: requests that die, sockets that drop, segments that
              \* reach their byte cap

ASSUME SyncAssumption ==
  /\ Author \in [Op -> Node] /\ SegOf \in [Op -> Seg]
  /\ Initiates \subseteq Node \X Node /\ \A l \in Initiates : l[1] # l[2]
  /\ Links \subseteq Node \X Node
  /\ Ahead \subseteq Node \X Seg /\ Large \subseteq Node \X Seg
  /\ MaxFails \in Nat

VARIABLES
  held,    \* node -> segment -> operations in the file
  early,   \* <<n, s>>: n's daemon refuses s by its day
  full,    \* <<n, s>>: n's daemon refuses s by its size
  sess,    \* node -> the CLI process syncing it, if any
  known,   \* node -> peers its registry holds
  open,    \* live-sync sockets
  wire,    \* frames on each socket
  fails    \* failures so far (bound)

vars == <<held, early, full, sess, known, open, wire, fails>>

Empty == [s \in Seg |-> {}]

\* The CLI process: pc, the peer, both Merkle snapshots, the segments still to
\* pull and to push, the one under way with its unsent batches, and those
\* some daemon refused.
Sessions ==
  [pc : {"idle", "roots", "leaves", "transfer", "done"}, peer : Node,
   ours : [Seg -> SUBSET Op], theirs : [Seg -> SUBSET Op], pull : SUBSET Seg,
   push : SUBSET Seg, way : {"none", "pull", "push"}, batch : SUBSET Op,
   seg : SUBSET Seg, refused : SUBSET Seg]
Idle(n) ==
  [pc |-> "idle", peer |-> n, ours |-> Empty, theirs |-> Empty, pull |-> {},
   push |-> {}, way |-> "none", batch |-> {}, seg |-> {}, refused |-> {}]

Init ==
  /\ held = [n \in Node |-> Empty]
  /\ early = Ahead /\ full = {}
  /\ sess = [n \in Node |-> Idle(n)]
  /\ known = [n \in Node |-> {}]
  /\ open = {} /\ wire = [l \in Links |-> {}]
  /\ fails = 0

------------------------------------------------------------------------------
(* The daemons. *)

\* A local write lands in the op's own day, whatever the window says of it
\* (appendOps), and goes out on every live-sync socket (onOps).
Write(n, o) ==
  /\ Author[o] = n /\ o \notin held[n][SegOf[o]]
  /\ held' = [held EXCEPT ![n][SegOf[o]] = @ \union {o}]
  /\ wire' = [l \in Links |-> IF l \in open /\ l[1] = n THEN wire[l] \union {o}
                                                          ELSE wire[l]]
  /\ UNCHANGED <<early, full, sess, known, open, fails>>

\* assertAcceptableSegmentDay and the size cap of appendRawBatchToDate.
Accepts(n, s) == <<n, s>> \notin early \union full

\* A slip: the inbound batch replaces the segment.
StoredAlone(n, s, o) == [held EXCEPT ![n][s] = {o}]

Stored(n, s, o) == [held EXCEPT ![n][s] = @ \union {o}]

\* Time brings a segment into the acceptance window; growth takes one out.
Dawn ==
  /\ \E x \in early : early' = early \ {x}
  /\ UNCHANGED <<held, full, sess, known, open, wire, fails>>

Fill ==
  /\ fails < MaxFails
  /\ \E x \in Large \ full : held[x[1]][x[2]] # {} /\ full' = full \union {x}
  /\ fails' = fails + 1
  /\ UNCHANGED <<held, early, sess, known, open, wire>>

------------------------------------------------------------------------------
(* One `hayven sync`. *)

\* Our own snapshot, taken before the peer is asked.
Begin(n, p) ==
  /\ <<n, p>> \in Initiates /\ sess[n].pc \in {"idle", "done"}
  /\ sess' = [sess EXCEPT ![n] = [Idle(n) EXCEPT !.pc = "roots", !.peer = p,
                                                 !.ours = held[n]]]
  /\ UNCHANGED <<held, early, full, known, open, wire, fails>>

\* GET /api/sync/merkle, equal roots: a successful sync.
RootsMatch(n) ==
  LET p == sess[n].peer
  IN  /\ sess[n].pc = "roots" /\ held[p] = sess[n].ours
      /\ sess' = [sess EXCEPT ![n].pc = "done", ![n].theirs = held[p]]
      /\ known' = [known EXCEPT ![n] = @ \union {p}]
      /\ UNCHANGED <<held, early, full, open, wire, fails>>

RootsDiffer(n) ==
  /\ sess[n].pc = "roots" /\ held[sess[n].peer] # sess[n].ours
  /\ sess' = [sess EXCEPT ![n].pc = "leaves"]
  /\ UNCHANGED <<held, early, full, known, open, wire, fails>>

\* A slip: only segments missing here are pulled.
ToPullMissing(ours, theirs) == {s \in Seg : theirs[s] # {} /\ ours[s] = {}}

\* diffSnapshots: pull what differs or is missing here, push only what is
\* missing there.  A segment without operations has no leaf.
ToPull(ours, theirs) == {s \in Seg : theirs[s] # {} /\ theirs[s] # ours[s]}
ToPush(ours, theirs) == {s \in Seg : ours[s] # {} /\ theirs[s] = {}}

\* POST /api/sync/leaves.
Leaves(n) ==
  LET theirs == held[sess[n].peer]
      ours   == sess[n].ours
  IN  /\ sess[n].pc = "leaves"
      /\ sess' = [sess EXCEPT ![n].pc = "transfer", ![n].theirs = theirs,
                              ![n].pull = ToPull(ours, theirs),
                              ![n].push = ToPush(ours, theirs)]
      /\ UNCHANGED <<held, early, full, known, open, wire, fails>>

\* Between two segments of the transfer.
Ready(n) == sess[n].pc = "transfer" /\ sess[n].batch = {}

\* POST /api/sync/batch, page after page; the peer records who pulled.
Pull(n, s) ==
  LET p == sess[n].peer
  IN  /\ Ready(n) /\ s \in sess[n].pull
      /\ sess' = [sess EXCEPT ![n].pull = @ \ {s}, ![n].way = "pull",
                              ![n].seg = {s}, ![n].batch = held[p][s]]
      /\ known' = [known EXCEPT ![p] = @ \union {n}]
      /\ UNCHANGED <<held, early, full, open, wire, fails>>

\* The CLI reads its own segment file, after every pull is done.
Push(n, s) ==
  /\ Ready(n) /\ sess[n].pull = {} /\ s \in sess[n].push
  /\ sess' = [sess EXCEPT ![n].push = @ \ {s}, ![n].way = "push",
                          ![n].seg = {s}, ![n].batch = held[n][s]]
  /\ UNCHANGED <<held, early, full, known, open, wire, fails>>

\* Where the batches under way go: a pull's to our own daemon, anonymously.
Target(n) == IF sess[n].way = "pull" THEN n ELSE sess[n].peer

\* POST /api/sync/push of one batch that is accepted: stored, and a caller
\* that names itself is recorded.
Send(n, s, o) ==
  /\ sess[n].pc = "transfer" /\ o \in sess[n].batch /\ s \in sess[n].seg
  /\ Accepts(Target(n), s)
  /\ held' = Stored(Target(n), s, o)
  /\ sess' = [sess EXCEPT ![n].batch = @ \ {o}]
  /\ known' = IF sess[n].way = "push"
              THEN [known EXCEPT ![Target(n)] = @ \union {n}] ELSE known
  /\ UNCHANGED <<early, full, open, wire, fails>>

\* Refused: the rest of the segment is skipped, the sync goes on.
SendRefused(n, s) ==
  /\ sess[n].pc = "transfer" /\ sess[n].batch # {} /\ s \in sess[n].seg
  /\ ~Accepts(Target(n), s)
  /\ sess' = [sess EXCEPT ![n].batch = {}, ![n].refused = @ \union {s}]
  /\ UNCHANGED <<held, early, full, known, open, wire, fails>>

Finish(n) ==
  /\ Ready(n) /\ sess[n].pull = {} /\ sess[n].push = {}
  /\ sess' = [sess EXCEPT ![n].pc = "done", ![n].way = "none", ![n].seg = {}]
  /\ known' = [known EXCEPT ![n] = @ \union {sess[n].peer}]
  /\ UNCHANGED <<held, early, full, open, wire, fails>>

\* A request does not come back: the process reports it and exits.
Abort(n) ==
  /\ fails < MaxFails /\ sess[n].pc \notin {"idle", "done"}
  /\ sess' = [sess EXCEPT ![n] = Idle(n)]
  /\ fails' = fails + 1
  /\ UNCHANGED <<held, early, full, known, open, wire>>

------------------------------------------------------------------------------
(* Live sync. *)

\* open(): pin, hello, subscribe.  Nothing is exchanged for the past.
Connect(l) ==
  /\ l \notin open /\ open' = open \union {l}
  /\ UNCHANGED <<held, early, full, sess, known, wire, fails>>

\* close(): unsubscribe; frames on the way are gone.
Disconnect(l) ==
  /\ fails < MaxFails /\ l \in open
  /\ open' = open \ {l} /\ wire' = [wire EXCEPT ![l] = {}]
  /\ fails' = fails + 1
  /\ UNCHANGED <<held, early, full, sess, known>>

\* applyInboundFrame at the other end: the op's own day, or an error frame.
Deliver(l, o) ==
  /\ o \in wire[l]
  /\ wire' = [wire EXCEPT ![l] = @ \ {o}]
  /\ held' = IF Accepts(l[2], SegOf[o]) THEN Stored(l[2], SegOf[o], o) ELSE held
  /\ UNCHANGED <<early, full, sess, known, open, fails>>

------------------------------------------------------------------------------

SessionStep(n) ==
  \/ RootsMatch(n) \/ RootsDiffer(n) \/ Leaves(n)
  \/ \E s \in Seg : Pull(n, s)
  \/ \E s \in Seg : Push(n, s)
  \/ \E s \in Seg, o \in Op : Send(n, s, o)
  \/ \E s \in Seg : SendRefused(n, s)
  \/ Finish(n)

Next ==
  \/ \E n \in Node, o \in Op : Write(n, o)
  \/ Dawn \/ Fill
  \/ \E n, p \in Node : Begin(n, p)
  \/ \E n \in Node : SessionStep(n)
  \/ \E n \in Node : Abort(n)
  \/ \E l \in Links : Connect(l)
  \/ \E l \in Links : Disconnect(l)
  \/ \E l \in Links, o \in Op : Deliver(l, o)

Spec == Init /\ [][Next]_vars

\* A running CLI process makes progress, time passes, frames arrive; that the
\* users of Initiates run `hayven sync` again and again is an assumption.
Fairness ==
  /\ \A n \in Node : WF_vars(SessionStep(n))
  /\ \A l \in Initiates : SF_vars(Begin(l[1], l[2]))
  /\ WF_vars(Dawn)
  /\ \A l \in Links : WF_vars(Connect(l)) /\ \A o \in Op : WF_vars(Deliver(l, o))

FairSpec == Spec /\ Fairness

------------------------------------------------------------------------------
(* Properties *)

TypeOK ==
  /\ held \in [Node -> [Seg -> SUBSET Op]]
  /\ early \subseteq Node \X Seg /\ full \subseteq Node \X Seg
  /\ sess \in [Node -> Sessions]
  /\ known \in [Node -> SUBSET Node] /\ \A n \in Node : n \notin known[n]
  /\ open \subseteq Links /\ wire \in [Links -> SUBSET Op]
  /\ fails \in 0..MaxFails

All(n) == UNION {held[n][s] : s \in Seg}

\* A completed sync (exit 0) has caught up: but for refused segments, we hold
\* everything the peer held when it was asked, and it holds every day of ours
\* that it had nothing of, whatever was written on both sides meanwhile.
CaughtUp(n) ==
  sess[n].pc = "done" => \A s \in Seg \ sess[n].refused :
    /\ sess[n].theirs[s] \subseteq held[n][s]
    /\ sess[n].theirs[s] = {} => sess[n].ours[s] \subseteq held[sess[n].peer][s]
SyncCatchesUp == \A n \in Node : CaughtUp(n)

\* Sync and live sync only copy operations: nothing lost, nothing invented.
Copies == INSTANCE Replication WITH have <- [n \in Node |-> All(n)]
CopiesSpec == Copies!Spec

\* When the writing stops and the sync graph lets every node's operations
\* reach every other, all replicas end with equal op sets in every segment,
\* unless a segment is at its cap somewhere; live sync alone does not do it,
\* what was written while a socket was down is never sent again.
Converges == <>[](full # {} \/ \A n, m \in Node : held[n] = held[m])

------------------------------------------------------------------------------
(* The inductive invariant behind the theorems (GossipSyncProofs).           *)

\* Wherever an operation is, on disk, on a wire or in a batch, its author has
\* it, and it goes to the segment of its own day.
Traced ==
  /\ \A n \in Node, s \in Seg : \A o \in held[n][s] :
       SegOf[o] = s /\ o \in held[Author[o]][s]
  /\ \A l \in Links : \A o \in wire[l] : o \in held[Author[o]][SegOf[o]]
BatchTraced(n) ==
  \A o \in sess[n].batch :
    sess[n].seg = {SegOf[o]} /\ o \in held[Author[o]][SegOf[o]]

\* What a transfer in this direction still has to hand over of a segment.
InFlight(n, way, s) ==
  IF sess[n].way = way /\ s \in sess[n].seg THEN sess[n].batch ELSE {}

\* A session under way: what the snapshots saw is still there, and of a segment
\* that is neither waiting nor refused all has arrived or is in the batch.
Accounted(n) ==
  LET c == sess[n]
  IN  /\ c.pc # "idle" =>
           c.peer # n /\ \A s \in Seg : c.ours[s] \subseteq held[n][s]
      /\ c.pc = "transfer" =>
           \A s \in Seg : c.theirs[s] \subseteq held[c.peer][s]
      /\ \A s, t \in c.seg : s = t
      /\ c.pc = "transfer" => \A s \in Seg \ c.refused :
           /\ s \notin c.pull =>
                c.theirs[s] \subseteq held[n][s] \union InFlight(n, "pull", s)
           /\ s \notin c.push /\ c.theirs[s] = {} =>
                c.ours[s] \subseteq held[c.peer][s] \union InFlight(n, "push", s)

SyncInv ==
  /\ TypeOK /\ Traced
  /\ \A n \in Node : BatchTraced(n) /\ Accounted(n) /\ CaughtUp(n)

=============================================================================
