-------------------------- MODULE GossipSyncProofs --------------------------
(***************************************************************************)
(* For any daemons, segments, operations and sync graph: sync and live sync *)
(* only copy operations, and a sync that ends well has caught up.           *)
(***************************************************************************)
EXTENDS GossipSync, TLAPS

\* Every file keeps what it holds.
Grows == \A m \in Node, s \in Seg : held[m][s] \subseteq held'[m][s]

\* One more operation in one node's file of that operation's day.
LEMMA StoreGrows ==
  ASSUME TypeOK, NEW n \in Node, NEW o \in Op, held' = Stored(n, SegOf[o], o)
  PROVE  /\ held' \in [Node -> [Seg -> SUBSET Op]] /\ Grows
         /\ o \in held'[n][SegOf[o]]
         /\ \A m \in Node, s \in Seg : \A p \in held'[m][s] :
              p \in held[m][s] \/ (m = n /\ p = o /\ s = SegOf[o])
<1>1. held \in [Node -> [Seg -> SUBSET Op]] /\ SegOf[o] \in Seg
  BY SyncAssumption DEF TypeOK
<1> DEFINE file == [held[n] EXCEPT ![SegOf[o]] = held[n][SegOf[o]] \union {o}]
<1>2. held' = [held EXCEPT ![n] = file]
  BY DEF Stored
<1>5. file \in [Seg -> SUBSET Op]
      /\ \A s \in Seg : file[s] = IF s = SegOf[o] THEN held[n][s] \union {o} ELSE held[n][s]
  BY <1>1
<1> HIDE DEF file
<1>3. ASSUME NEW m \in Node, NEW s \in Seg
      PROVE  held'[m][s] = IF m = n /\ s = SegOf[o] THEN held[m][s] \union {o} ELSE held[m][s]
  BY <1>1, <1>2, <1>5
<1>4. held' \in [Node -> [Seg -> SUBSET Op]]
  BY <1>1, <1>2, <1>5
<1>6. Grows
  BY <1>3 DEF Grows
<1>7. o \in held'[n][SegOf[o]]
  BY <1>1, <1>3
<1>8. ASSUME NEW m \in Node, NEW s \in Seg, NEW p \in held'[m][s]
      PROVE  p \in held[m][s] \/ (m = n /\ p = o /\ s = SegOf[o])
  BY <1>3
<1> QED BY <1>4, <1>6, <1>7, <1>8

\* Files that only gain what its author has keep every operation traced.
LEMMA StoreTraced ==
  ASSUME SyncInv, NEW n \in Node, NEW o \in Op, held' = Stored(n, SegOf[o], o),
         o \in held'[Author[o]][SegOf[o]],
         \A l \in Links : wire'[l] \subseteq wire[l] \union {o}
  PROVE  Traced'
<1>1. /\ Grows /\ SegOf[o] \in Seg
      /\ \A m \in Node, s \in Seg : \A p \in held'[m][s] :
           p \in held[m][s] \/ (m = n /\ p = o /\ s = SegOf[o])
  BY StoreGrows, SyncAssumption DEF SyncInv
<1>2. \A m \in Node, s \in Seg : \A p \in held[m][s] :
        p \in Op /\ SegOf[p] = s /\ p \in held[Author[p]][s] /\ Author[p] \in Node
  BY SyncAssumption DEF SyncInv, TypeOK, Traced
<1>3. \A m \in Node, s \in Seg : \A p \in held'[m][s] :
        SegOf[p] = s /\ p \in held'[Author[p]][s]
  BY <1>1, <1>2 DEF Grows
<1>4. \A l \in Links : \A p \in wire[l] :
        p \in Op /\ p \in held[Author[p]][SegOf[p]] /\ Author[p] \in Node /\ SegOf[p] \in Seg
  BY SyncAssumption DEF SyncInv, TypeOK, Traced
<1>5. \A l \in Links : \A p \in wire'[l] : p \in held'[Author[p]][SegOf[p]]
  BY <1>1, <1>4 DEF Grows
<1> QED BY <1>3, <1>5 DEF Traced

\* A session that does not move keeps its accounts while files grow.
LEMMA OthersKeep ==
  ASSUME SyncInv, Grows, NEW n \in Node, sess'[n] = sess[n]
  PROVE  BatchTraced(n)' /\ Accounted(n)' /\ CaughtUp(n)'
<1>1. /\ sess[n].peer \in Node /\ sess[n].batch \subseteq Op
      /\ \A o \in Op : Author[o] \in Node /\ SegOf[o] \in Seg
  BY SyncAssumption DEF SyncInv, TypeOK, Sessions
<1>2. BatchTraced(n) /\ Accounted(n) /\ CaughtUp(n)
  BY DEF SyncInv
<1>3. BatchTraced(n)'
  BY <1>1, <1>2 DEF BatchTraced, Grows
<1>4. \A way, s : InFlight(n, way, s)' = InFlight(n, way, s)
  BY DEF InFlight
<1>5. Accounted(n)'
  BY <1>1, <1>2, <1>4 DEF Accounted, Grows
<1>6. CaughtUp(n)'
  BY <1>1, <1>2 DEF CaughtUp, Grows
<1> QED BY <1>3, <1>5, <1>6

\* A step of one session that leaves the files alone.
LEMMA SessionMoves ==
  ASSUME SyncInv, TypeOK', UNCHANGED <<held, wire>>, NEW n \in Node,
         \A m \in Node \ {n} : sess'[m] = sess[m],
         BatchTraced(n)', Accounted(n)', CaughtUp(n)'
  PROVE  SyncInv'
<1>1. Grows
  BY DEF Grows
<1>2. \A m \in Node \ {n} : BatchTraced(m)' /\ Accounted(m)' /\ CaughtUp(m)'
  BY <1>1, OthersKeep
<1>3. Traced'
  BY DEF SyncInv, Traced
<1> QED BY <1>2, <1>3 DEF SyncInv

------------------------------------------------------------------------------
(* The daemons and their sockets *)

\* Nothing is held, asked for or sent.
LEMMA InitSyncInv == Init => SyncInv
<1> SUFFICES ASSUME Init PROVE SyncInv
  OBVIOUS
<1>1. \A n \in Node : Idle(n) \in Sessions
  BY DEF Idle, Sessions, Empty
<1>2. TypeOK
  BY <1>1, SyncAssumption DEF Init, TypeOK, Empty
<1>3. Traced
  BY DEF Init, Traced, Empty
<1>4. \A n \in Node : BatchTraced(n) /\ Accounted(n) /\ CaughtUp(n)
  BY DEF Init, BatchTraced, Accounted, CaughtUp, Idle, InFlight
<1> QED BY <1>2, <1>3, <1>4 DEF SyncInv

\* A local write is at its author's when it goes out on the sockets.
LEMMA WriteKeeps == ASSUME SyncInv, NEW n \in Node, NEW o \in Op, Write(n, o) PROVE SyncInv'
<1>1. /\ Author[o] = n /\ held' = Stored(n, SegOf[o], o)
      /\ wire' = [l \in Links |-> IF l \in open /\ l[1] = n THEN wire[l] \union {o} ELSE wire[l]]
      /\ UNCHANGED <<early, full, sess, known, open, fails>>
  BY DEF Write, Stored
<1>2. /\ held' \in [Node -> [Seg -> SUBSET Op]] /\ Grows /\ o \in held'[n][SegOf[o]]
  BY <1>1, StoreGrows DEF SyncInv
<1>3. wire' \in [Links -> SUBSET Op] /\ \A l \in Links : wire'[l] \subseteq wire[l] \union {o}
  BY <1>1 DEF SyncInv, TypeOK
<1>4. Traced'
  BY <1>1, <1>2, <1>3, StoreTraced
<1>5. \A m \in Node : BatchTraced(m)' /\ Accounted(m)' /\ CaughtUp(m)'
  BY <1>1, <1>2, OthersKeep
<1>6. TypeOK'
  BY <1>1, <1>2, <1>3 DEF SyncInv, TypeOK
<1> QED BY <1>4, <1>5, <1>6 DEF SyncInv

\* A frame that is delivered was sent by a daemon that had it from the author.
LEMMA DeliverKeeps == ASSUME SyncInv, NEW l \in Links, NEW o \in Op, Deliver(l, o) PROVE SyncInv'
<1>1. /\ o \in wire[l] /\ wire' = [wire EXCEPT ![l] = @ \ {o}]
      /\ held' = held \/ held' = Stored(l[2], SegOf[o], o)
      /\ UNCHANGED <<early, full, sess, known, open, fails>>
  BY DEF Deliver
<1>2. l[2] \in Node /\ Author[o] \in Node /\ SegOf[o] \in Seg
  BY SyncAssumption
<1>3. wire' \in [Links -> SUBSET Op] /\ \A k \in Links : wire'[k] \subseteq wire[k]
  BY <1>1 DEF SyncInv, TypeOK
<1>4. held' \in [Node -> [Seg -> SUBSET Op]] /\ Grows
  <2>1. CASE held' = held
    BY <2>1 DEF SyncInv, TypeOK, Grows
  <2>2. CASE held' = Stored(l[2], SegOf[o], o)
    BY <1>2, <2>2, StoreGrows DEF SyncInv
  <2> QED BY <1>1, <2>1, <2>2
<1>5. Traced'
  <2>1. CASE held' = held
    BY <1>3, <2>1 DEF SyncInv, Traced
  <2>2. CASE held' = Stored(l[2], SegOf[o], o)
    <3>1. o \in held'[Author[o]][SegOf[o]]
      BY <1>1, <1>2, <1>4 DEF SyncInv, Traced, Grows
    <3>2. \A k \in Links : wire'[k] \subseteq wire[k] \union {o}
      BY <1>3
    <3> QED BY <1>2, <2>2, <3>1, <3>2, StoreTraced
  <2> QED BY <1>1, <2>1, <2>2
<1>6. \A m \in Node : BatchTraced(m)' /\ Accounted(m)' /\ CaughtUp(m)'
  BY <1>1, <1>4, OthersKeep
<1>7. TypeOK'
  BY <1>1, <1>3, <1>4 DEF SyncInv, TypeOK
<1> QED BY <1>5, <1>6, <1>7 DEF SyncInv

\* Time, growth and sockets change what is accepted and what is on the wires.
LEMMA DaemonKeeps ==
  ASSUME SyncInv, Dawn \/ Fill \/ (\E l \in Links : Connect(l) \/ Disconnect(l))
  PROVE  SyncInv'
<1>1. UNCHANGED <<held, sess, known>>
  BY DEF Dawn, Fill, Connect, Disconnect
<1>2. wire' \in [Links -> SUBSET Op] /\ \A l \in Links : wire'[l] \subseteq wire[l]
  BY DEF SyncInv, TypeOK, Dawn, Fill, Connect, Disconnect
<1>3. /\ early' \subseteq Node \X Seg /\ full' \subseteq Node \X Seg
      /\ open' \subseteq Links /\ fails' \in 0..MaxFails
  BY SyncAssumption DEF SyncInv, TypeOK, Dawn, Fill, Connect, Disconnect
<1>4. TypeOK' /\ Grows
  BY <1>1, <1>2, <1>3 DEF SyncInv, TypeOK, Grows
<1>5. Traced'
  BY <1>1, <1>2 DEF SyncInv, Traced
<1>6. \A m \in Node : BatchTraced(m)' /\ Accounted(m)' /\ CaughtUp(m)'
  BY <1>1, <1>4, OthersKeep
<1> QED BY <1>4, <1>5, <1>6 DEF SyncInv

------------------------------------------------------------------------------
(* One `hayven sync` *)

\* A sync begins with a snapshot of our own files.
LEMMA BeginKeeps == ASSUME SyncInv, NEW n \in Node, NEW p \in Node, Begin(n, p) PROVE SyncInv'
<1> DEFINE c == sess'[n]
<1>1. /\ UNCHANGED <<held, early, full, known, open, wire, fails>> /\ p # n
      /\ sess' = [sess EXCEPT ![n] = [Idle(n) EXCEPT !.pc = "roots", !.peer = p, !.ours = held[n]]]
  BY SyncAssumption DEF Begin
<1>2. c = [Idle(n) EXCEPT !.pc = "roots", !.peer = p, !.ours = held[n]]
      /\ \A m \in Node \ {n} : sess'[m] = sess[m]
  BY <1>1 DEF SyncInv, TypeOK
<1>3. c \in Sessions /\ c.pc = "roots" /\ c.peer = p /\ c.ours = held[n] /\ c.batch = {} /\ c.seg = {}
  <2>1. held[n] \in [Seg -> SUBSET Op] /\ Empty \in [Seg -> SUBSET Op]
    BY DEF SyncInv, TypeOK, Empty
  <2>2. c = [pc |-> "roots", peer |-> p, ours |-> held[n], theirs |-> Empty, pull |-> {},
             push |-> {}, way |-> "none", batch |-> {}, seg |-> {}, refused |-> {}]
    BY <1>2 DEF Idle
  <2> HIDE DEF c
  <2> QED BY <2>1, <2>2 DEF Sessions
<1>4. TypeOK'
  BY <1>1, <1>2, <1>3 DEF SyncInv, TypeOK
<1>5. BatchTraced(n)' /\ Accounted(n)' /\ CaughtUp(n)'
  BY <1>1, <1>3 DEF BatchTraced, Accounted, CaughtUp
<1> QED BY <1>1, <1>2, <1>4, <1>5, SessionMoves

\* Equal roots: both sides hold what our snapshot holds.
LEMMA RootsMatchKeeps == ASSUME SyncInv, NEW n \in Node, RootsMatch(n) PROVE SyncInv'
<1> DEFINE b == sess[n]
           c == sess'[n]
<1>1. /\ b.pc = "roots" /\ held[b.peer] = b.ours
      /\ sess' = [sess EXCEPT ![n].pc = "done", ![n].theirs = held[b.peer]]
      /\ known' = [known EXCEPT ![n] = @ \union {b.peer}]
      /\ UNCHANGED <<held, early, full, open, wire, fails>>
  BY DEF RootsMatch
<1>2. b \in Sessions /\ BatchTraced(n) /\ Accounted(n)
  BY DEF SyncInv, TypeOK
<1>3. b.peer \in Node /\ b.peer # n /\ \A s \in Seg : b.ours[s] \subseteq held[n][s]
  BY <1>1, <1>2 DEF Accounted, Sessions
<1>4. c = [b EXCEPT !.pc = "done", !.theirs = held[b.peer]]
      /\ \A m \in Node \ {n} : sess'[m] = sess[m]
  BY <1>1 DEF SyncInv, TypeOK
<1> HIDE DEF b, c
<1>5. c \in Sessions /\ c.pc = "done" /\ c.theirs = b.ours /\ c.peer = b.peer
      /\ c.ours = b.ours /\ c.batch = b.batch /\ c.seg = b.seg
  BY <1>1, <1>2, <1>3, <1>4 DEF SyncInv, TypeOK, Sessions
<1>6. TypeOK'
  BY <1>1, <1>3, <1>4, <1>5 DEF SyncInv, TypeOK, c
<1>7. BatchTraced(n)'
  BY <1>1, <1>2, <1>5 DEF BatchTraced, b, c
<1>8. Accounted(n)'
  BY <1>1, <1>2, <1>3, <1>5 DEF Accounted, b, c
<1>9. CaughtUp(n)'
  BY <1>1, <1>3, <1>5 DEF CaughtUp, c
<1> QED BY <1>1, <1>4, <1>6, <1>7, <1>8, <1>9, SessionMoves

\* The roots differ: the leaves are asked for.
LEMMA RootsDifferKeeps == ASSUME SyncInv, NEW n \in Node, RootsDiffer(n) PROVE SyncInv'
<1> DEFINE b == sess[n]
           c == sess'[n]
<1>1. /\ b.pc = "roots" /\ sess' = [sess EXCEPT ![n].pc = "leaves"]
      /\ UNCHANGED <<held, early, full, known, open, wire, fails>>
  BY DEF RootsDiffer
<1>2. b \in Sessions /\ BatchTraced(n) /\ Accounted(n)
  BY DEF SyncInv, TypeOK
<1>3. c = [b EXCEPT !.pc = "leaves"] /\ \A m \in Node \ {n} : sess'[m] = sess[m]
  BY <1>1 DEF SyncInv, TypeOK
<1> HIDE DEF b, c
<1>4. c \in Sessions /\ c.pc = "leaves" /\ c.peer = b.peer /\ c.ours = b.ours
      /\ c.batch = b.batch /\ c.seg = b.seg
  BY <1>2, <1>3 DEF Sessions
<1>5. TypeOK'
  BY <1>1, <1>3, <1>4 DEF SyncInv, TypeOK, c
<1>6. BatchTraced(n)'
  BY <1>1, <1>2, <1>4 DEF BatchTraced, b, c
<1>7. Accounted(n)' /\ CaughtUp(n)'
  BY <1>1, <1>2, <1>4 DEF Accounted, CaughtUp, b, c
<1> QED BY <1>1, <1>3, <1>5, <1>6, <1>7, SessionMoves

\* The comparison: what is not pulled we hold, what is not pushed they hold.
LEMMA LeavesKeeps == ASSUME SyncInv, NEW n \in Node, Leaves(n) PROVE SyncInv'
<1> DEFINE b == sess[n]
           c == sess'[n]
<1>1. /\ b.pc = "leaves"
      /\ sess' = [sess EXCEPT ![n].pc = "transfer", ![n].theirs = held[b.peer],
                              ![n].pull = ToPull(b.ours, held[b.peer]),
                              ![n].push = ToPush(b.ours, held[b.peer])]
      /\ UNCHANGED <<held, early, full, known, open, wire, fails>>
  BY DEF Leaves
<1>2. b \in Sessions /\ BatchTraced(n) /\ Accounted(n)
  BY DEF SyncInv, TypeOK
<1>3. b.peer \in Node /\ b.peer # n /\ \A s \in Seg : b.ours[s] \subseteq held[n][s]
  BY <1>1, <1>2 DEF Accounted, Sessions
<1>4. c = [b EXCEPT !.pc = "transfer", !.theirs = held[b.peer],
                    !.pull = ToPull(b.ours, held[b.peer]),
                    !.push = ToPush(b.ours, held[b.peer])]
      /\ \A m \in Node \ {n} : sess'[m] = sess[m]
  BY <1>1 DEF SyncInv, TypeOK
<1>5. /\ held[b.peer] \in [Seg -> SUBSET Op]
      /\ ToPull(b.ours, held[b.peer]) \subseteq Seg /\ ToPush(b.ours, held[b.peer]) \subseteq Seg
  BY <1>3 DEF SyncInv, TypeOK, ToPull, ToPush
<1> HIDE DEF b, c
<1>6. /\ c \in Sessions /\ c.pc = "transfer" /\ c.theirs = held[b.peer] /\ c.peer = b.peer
      /\ c.ours = b.ours /\ c.batch = b.batch /\ c.seg = b.seg
      /\ c.pull = ToPull(b.ours, held[b.peer]) /\ c.push = ToPush(b.ours, held[b.peer])
  BY <1>2, <1>4, <1>5 DEF Sessions
<1>7. TypeOK'
  BY <1>1, <1>4, <1>6 DEF SyncInv, TypeOK, c
<1>8. BatchTraced(n)'
  BY <1>1, <1>2, <1>6 DEF BatchTraced, b, c
<1>9. Accounted(n)'
  <2>1. \A s \in Seg \ c.pull : c.theirs[s] \subseteq held[n][s]
    BY <1>3, <1>6 DEF ToPull
  <2>2. \A s \in Seg \ c.push : c.theirs[s] = {} => c.ours[s] \subseteq held[b.peer][s]
    BY <1>6 DEF ToPush
  <2>3. \A s, t \in c.seg : s = t
    BY <1>2, <1>6 DEF Accounted, b
  <2> QED BY <1>1, <1>3, <1>6, <2>1, <2>2, <2>3 DEF Accounted, c
<1>10. CaughtUp(n)'
  BY <1>6 DEF CaughtUp, c
<1> QED BY <1>1, <1>4, <1>7, <1>8, <1>9, <1>10, SessionMoves

\* A page of the peer's segment holds at least what its leaf hashed.
LEMMA PullKeeps == ASSUME SyncInv, NEW n \in Node, NEW t \in Seg, Pull(n, t) PROVE SyncInv'
<1> DEFINE b == sess[n]
           c == sess'[n]
<1>1. /\ b.pc = "transfer" /\ b.batch = {} /\ t \in b.pull
      /\ sess' = [sess EXCEPT ![n].pull = @ \ {t}, ![n].way = "pull",
                              ![n].seg = {t}, ![n].batch = held[b.peer][t]]
      /\ known' = [known EXCEPT ![b.peer] = @ \union {n}]
      /\ UNCHANGED <<held, early, full, open, wire, fails>>
  BY DEF Pull, Ready
<1>2. b \in Sessions /\ Accounted(n)
  BY DEF SyncInv, TypeOK
<1>3. /\ b.peer \in Node /\ b.peer # n /\ \A s \in Seg : b.ours[s] \subseteq held[n][s]
      /\ \A s \in Seg : b.theirs[s] \subseteq held[b.peer][s]
  BY <1>1, <1>2 DEF Accounted, Sessions
<1>4. c = [b EXCEPT !.pull = @ \ {t}, !.way = "pull", !.seg = {t}, !.batch = held[b.peer][t]]
      /\ \A m \in Node \ {n} : sess'[m] = sess[m]
  BY <1>1 DEF SyncInv, TypeOK
<1>5. held[b.peer][t] \subseteq Op
  BY <1>3 DEF SyncInv, TypeOK
<1> HIDE DEF b, c
<1>6. /\ c \in Sessions /\ c.pc = "transfer" /\ c.theirs = b.theirs /\ c.peer = b.peer
      /\ c.ours = b.ours /\ c.batch = held[b.peer][t] /\ c.seg = {t} /\ c.way = "pull"
      /\ c.pull = b.pull \ {t} /\ c.push = b.push /\ c.refused = b.refused
  BY <1>1, <1>2, <1>4, <1>5 DEF Sessions
<1>7. \A s \in Seg \ b.refused :
        /\ s \notin b.pull => b.theirs[s] \subseteq held[n][s]
        /\ s \notin b.push /\ b.theirs[s] = {} => b.ours[s] \subseteq held[b.peer][s]
  BY <1>1, <1>2 DEF Accounted, InFlight, b
<1>8. TypeOK'
  <2>1. known \in [Node -> SUBSET Node] /\ \A m \in Node : m \notin known[m]
    BY DEF SyncInv, TypeOK
  <2>2. known' \in [Node -> SUBSET Node] /\ \A m \in Node : m \notin known'[m]
    BY <1>1, <1>3, <2>1
  <2>3. sess' \in [Node -> Sessions]
    BY <1>1, <1>4, <1>6 DEF SyncInv, TypeOK, c
  <2> QED BY <1>1, <2>2, <2>3 DEF SyncInv, TypeOK
<1>9. BatchTraced(n)'
  BY <1>1, <1>3, <1>6 DEF SyncInv, Traced, BatchTraced, TypeOK, c
<1>10. Accounted(n)'
  <2>1. InFlight(n, "pull", t)' = held[b.peer][t]
    BY <1>6 DEF InFlight, c
  <2>2. \A s \in Seg \ c.refused : s \notin c.pull =>
          c.theirs[s] \subseteq held[n][s] \union InFlight(n, "pull", s)'
    BY <1>3, <1>6, <1>7, <2>1
  <2>3. \A s \in Seg : InFlight(n, "push", s)' = {}
    BY <1>6 DEF InFlight, c
  <2>4. sess'[n] = c BY DEF c
  <2>5. /\ \A s \in Seg : c.ours[s] \subseteq held[n][s]
        /\ \A s \in Seg : c.theirs[s] \subseteq held[c.peer][s]
        /\ \A s \in Seg \ c.refused : s \notin c.push /\ c.theirs[s] = {} => c.ours[s] \subseteq held[c.peer][s]
    BY <1>3, <1>6, <1>7
  <2>6. held' = held /\ c.peer # n /\ \A s, u \in c.seg : s = u
    BY <1>1, <1>3, <1>6
  <2> HIDE DEF c
  <2> QED BY <1>6, <2>2, <2>3, <2>4, <2>5, <2>6 DEF Accounted
<1>11. CaughtUp(n)'
  BY <1>6 DEF CaughtUp, c
<1> QED BY <1>1, <1>4, <1>8, <1>9, <1>10, <1>11, SessionMoves

\* Our own segment, read now, holds at least what our snapshot hashed.
LEMMA PushKeeps == ASSUME SyncInv, NEW n \in Node, NEW t \in Seg, Push(n, t) PROVE SyncInv'
<1> DEFINE b == sess[n]
           c == sess'[n]
<1>1. /\ b.pc = "transfer" /\ b.batch = {}
      /\ sess' = [sess EXCEPT ![n].push = @ \ {t}, ![n].way = "push",
                              ![n].seg = {t}, ![n].batch = held[n][t]]
      /\ UNCHANGED <<held, early, full, known, open, wire, fails>>
  BY DEF Push, Ready
<1>2. b \in Sessions /\ Accounted(n)
  BY DEF SyncInv, TypeOK
<1>3. /\ b.peer \in Node /\ b.peer # n /\ \A s \in Seg : b.ours[s] \subseteq held[n][s]
      /\ \A s \in Seg : b.theirs[s] \subseteq held[b.peer][s]
  BY <1>1, <1>2 DEF Accounted, Sessions
<1>4. c = [b EXCEPT !.push = @ \ {t}, !.way = "push", !.seg = {t}, !.batch = held[n][t]]
      /\ \A m \in Node \ {n} : sess'[m] = sess[m]
  BY <1>1 DEF SyncInv, TypeOK
<1>5. held[n][t] \subseteq Op
  BY DEF SyncInv, TypeOK
<1> HIDE DEF b, c
<1>6. /\ c \in Sessions /\ c.pc = "transfer" /\ c.theirs = b.theirs /\ c.peer = b.peer
      /\ c.ours = b.ours /\ c.batch = held[n][t] /\ c.seg = {t} /\ c.way = "push"
      /\ c.pull = b.pull /\ c.push = b.push \ {t} /\ c.refused = b.refused
  BY <1>1, <1>2, <1>4, <1>5 DEF Sessions
<1>7. \A s \in Seg \ b.refused :
        /\ s \notin b.pull => b.theirs[s] \subseteq held[n][s]
        /\ s \notin b.push /\ b.theirs[s] = {} => b.ours[s] \subseteq held[b.peer][s]
  BY <1>1, <1>2 DEF Accounted, InFlight, b
<1>8. TypeOK'
  BY <1>1, <1>3, <1>4, <1>6 DEF SyncInv, TypeOK, c
<1>9. BatchTraced(n)'
  BY <1>1, <1>6 DEF SyncInv, Traced, BatchTraced, TypeOK, c
<1>10. Accounted(n)'
  <2>1. InFlight(n, "push", t)' = held[n][t]
    BY <1>6 DEF InFlight, c
  <2>2. \A s \in Seg \ c.refused : s \notin c.push /\ c.theirs[s] = {} =>
          c.ours[s] \subseteq held[c.peer][s] \union InFlight(n, "push", s)'
    BY <1>3, <1>6, <1>7, <2>1
  <2> QED BY <1>1, <1>3, <1>6, <1>7, <2>2 DEF Accounted, c
<1>11. CaughtUp(n)'
  BY <1>6 DEF CaughtUp, c
<1> QED BY <1>1, <1>4, <1>8, <1>9, <1>10, <1>11, SessionMoves

\* An operation that leaves the batch is in the target's file.
LEMMA SendKeeps ==
  ASSUME SyncInv, NEW n \in Node, NEW t \in Seg, NEW o \in Op, Send(n, t, o)
  PROVE  SyncInv'
<1> DEFINE b  == sess[n]
           c  == sess'[n]
           to == Target(n)
<1>1. /\ b.pc = "transfer" /\ o \in b.batch /\ t \in b.seg
      /\ held' = Stored(to, t, o)
      /\ sess' = [sess EXCEPT ![n].batch = @ \ {o}]
      /\ known' \in {known, [known EXCEPT ![to] = @ \union {n}]}
      /\ b.way # "push" => known' = known
      /\ UNCHANGED <<early, full, open, wire, fails>>
  BY DEF Send
<1>2. b \in Sessions /\ BatchTraced(n) /\ Accounted(n)
  BY DEF SyncInv, TypeOK
<1>3. /\ b.peer \in Node /\ b.peer # n /\ \A s \in Seg : b.ours[s] \subseteq held[n][s]
      /\ \A s \in Seg : b.theirs[s] \subseteq held[b.peer][s]
      /\ \A r, s \in b.seg : r = s
  BY <1>1, <1>2 DEF Accounted, Sessions
<1>4. to \in Node /\ (b.way = "pull" => to = n) /\ (b.way = "push" => to = b.peer)
  BY <1>3 DEF Target
<1>5. b.seg = {t} /\ t = SegOf[o] /\ o \in held[Author[o]][t] /\ Author[o] \in Node
  BY <1>1, <1>2, SyncAssumption DEF BatchTraced
<1>6. c = [b EXCEPT !.batch = @ \ {o}] /\ \A m \in Node \ {n} : sess'[m] = sess[m]
  BY <1>1 DEF SyncInv, TypeOK
<1>7. /\ c \in Sessions /\ c.pc = "transfer" /\ c.theirs = b.theirs /\ c.peer = b.peer
      /\ c.ours = b.ours /\ c.batch = b.batch \ {o} /\ c.seg = b.seg /\ c.way = b.way
      /\ c.pull = b.pull /\ c.push = b.push /\ c.refused = b.refused
  BY <1>1, <1>2, <1>6 DEF Sessions
<1> HIDE DEF b, c, to
<1>8. /\ held' \in [Node -> [Seg -> SUBSET Op]] /\ Grows /\ o \in held'[to][t]
  BY <1>1, <1>4, <1>5, StoreGrows DEF SyncInv
<1>9. Traced'
  <2>1. o \in held'[Author[o]][SegOf[o]]
    BY <1>5, <1>8 DEF Grows
  <2> QED BY <1>1, <1>4, <1>5, <2>1, StoreTraced
<1>10. TypeOK'
  <2>1. known' \in [Node -> SUBSET Node] /\ \A m \in Node : m \notin known'[m]
    <3>1. known \in [Node -> SUBSET Node] /\ \A m \in Node : m \notin known[m]
      BY DEF SyncInv, TypeOK
    <3>2. CASE b.way = "push"
      <4>1. to # n
        BY <1>3, <1>4, <3>2
      <4> QED BY <1>1, <1>4, <3>1, <4>1
    <3>3. CASE b.way # "push"
      BY <1>1, <3>1, <3>3
    <3> QED BY <3>2, <3>3
  <2>2. sess' \in [Node -> Sessions]
    BY <1>1, <1>6, <1>7 DEF SyncInv, TypeOK, c
  <2> QED BY <1>1, <1>8, <2>1, <2>2 DEF SyncInv, TypeOK
<1>11. BatchTraced(n)'
  <2>1. \A p \in c.batch : c.seg = {SegOf[p]} /\ p \in held[Author[p]][SegOf[p]] /\ p \in Op
    BY <1>2, <1>7 DEF BatchTraced, Sessions, b
  <2>2. \A p \in Op : Author[p] \in Node /\ SegOf[p] \in Seg
    BY SyncAssumption
  <2> QED BY <1>8, <2>1, <2>2 DEF BatchTraced, Grows, c
<1>12. Accounted(n)'
  <2>1. \A s \in Seg : b.ours[s] \subseteq held'[n][s] /\ b.theirs[s] \subseteq held'[b.peer][s]
    BY <1>3, <1>8 DEF Grows
  <2>2. \A s \in Seg : /\ held[n][s] \subseteq held'[n][s]
                       /\ held[b.peer][s] \subseteq held'[b.peer][s]
    BY <1>3, <1>8 DEF Grows
  <2>3. \A s \in Seg : InFlight(n, "pull", s) \subseteq held'[n][s] \union InFlight(n, "pull", s)'
    BY <1>4, <1>5, <1>7, <1>8 DEF InFlight, b, c
  <2>4. \A s \in Seg : InFlight(n, "push", s) \subseteq held'[b.peer][s] \union InFlight(n, "push", s)'
    BY <1>4, <1>5, <1>7, <1>8 DEF InFlight, b, c
  <2>5. \A s \in Seg \ b.refused :
          /\ s \notin b.pull => b.theirs[s] \subseteq held[n][s] \union InFlight(n, "pull", s)
          /\ s \notin b.push /\ b.theirs[s] = {} =>
               b.ours[s] \subseteq held[b.peer][s] \union InFlight(n, "push", s)
    BY <1>1, <1>2 DEF Accounted, b
  <2>6. \A s \in Seg \ b.refused :
          /\ s \notin b.pull => b.theirs[s] \subseteq held'[n][s] \union InFlight(n, "pull", s)'
          /\ s \notin b.push /\ b.theirs[s] = {} =>
               b.ours[s] \subseteq held'[b.peer][s] \union InFlight(n, "push", s)'
    BY <2>2, <2>3, <2>4, <2>5
  <2> QED BY <1>3, <1>7, <2>1, <2>6 DEF Accounted, c
<1>13. CaughtUp(n)'
  BY <1>7 DEF CaughtUp, c
<1>14. \A m \in Node \ {n} : BatchTraced(m)' /\ Accounted(m)' /\ CaughtUp(m)'
  BY <1>6, <1>8, OthersKeep
<1> QED BY <1>9, <1>10, <1>11, <1>12, <1>13, <1>14 DEF SyncInv

\* A refused segment is out of the account, whatever of it was sent.
LEMMA SendRefusedKeeps ==
  ASSUME SyncInv, NEW n \in Node, NEW t \in Seg, SendRefused(n, t) PROVE SyncInv'
<1> DEFINE b == sess[n]
           c == sess'[n]
<1>1. /\ b.pc = "transfer" /\ t \in b.seg
      /\ sess' = [sess EXCEPT ![n].batch = {}, ![n].refused = @ \union {t}]
      /\ UNCHANGED <<held, early, full, known, open, wire, fails>>
  BY DEF SendRefused
<1>2. b \in Sessions /\ Accounted(n)
  BY DEF SyncInv, TypeOK
<1>3. c = [b EXCEPT !.batch = {}, !.refused = @ \union {t}] /\ \A m \in Node \ {n} : sess'[m] = sess[m]
  BY <1>1 DEF SyncInv, TypeOK
<1> HIDE DEF b, c
<1>4. /\ c \in Sessions /\ c.pc = "transfer" /\ c.theirs = b.theirs /\ c.peer = b.peer
      /\ c.ours = b.ours /\ c.batch = {} /\ c.seg = b.seg /\ c.way = b.way
      /\ c.pull = b.pull /\ c.push = b.push /\ c.refused = b.refused \union {t}
  BY <1>1, <1>2, <1>3 DEF Sessions
<1>5. \A s \in Seg \ c.refused :
        /\ s \notin c.pull => c.theirs[s] \subseteq held[n][s]
        /\ s \notin c.push /\ c.theirs[s] = {} => c.ours[s] \subseteq held[c.peer][s]
  BY <1>1, <1>2, <1>4 DEF Accounted, InFlight, b
<1>6. TypeOK'
  BY <1>1, <1>3, <1>4 DEF SyncInv, TypeOK, c
<1>7. BatchTraced(n)' /\ CaughtUp(n)'
  BY <1>4 DEF BatchTraced, CaughtUp, c
<1>8. Accounted(n)'
  BY <1>1, <1>2, <1>4, <1>5 DEF Accounted, b, c
<1> QED BY <1>1, <1>3, <1>6, <1>7, <1>8, SessionMoves

\* Nothing waits and nothing is under way: the account is the promise.
LEMMA FinishKeeps == ASSUME SyncInv, NEW n \in Node, Finish(n) PROVE SyncInv'
<1> DEFINE b == sess[n]
           c == sess'[n]
<1>1. /\ b.pc = "transfer" /\ b.batch = {} /\ b.pull = {} /\ b.push = {}
      /\ sess' = [sess EXCEPT ![n].pc = "done", ![n].way = "none", ![n].seg = {}]
      /\ known' = [known EXCEPT ![n] = @ \union {b.peer}]
      /\ UNCHANGED <<held, early, full, open, wire, fails>>
  BY DEF Finish, Ready
<1>2. b \in Sessions /\ Accounted(n)
  BY DEF SyncInv, TypeOK
<1>3. b.peer \in Node /\ b.peer # n /\ \A s \in Seg : b.ours[s] \subseteq held[n][s]
  BY <1>1, <1>2 DEF Accounted, Sessions
<1>4. c = [b EXCEPT !.pc = "done", !.way = "none", !.seg = {}]
      /\ \A m \in Node \ {n} : sess'[m] = sess[m]
  BY <1>1 DEF SyncInv, TypeOK
<1> HIDE DEF b, c
<1>5. /\ c \in Sessions /\ c.pc = "done" /\ c.theirs = b.theirs /\ c.peer = b.peer
      /\ c.ours = b.ours /\ c.batch = {} /\ c.seg = {} /\ c.refused = b.refused
  BY <1>1, <1>2, <1>4 DEF Sessions
<1>6. \A s \in Seg \ b.refused :
        /\ b.theirs[s] \subseteq held[n][s]
        /\ b.theirs[s] = {} => b.ours[s] \subseteq held[b.peer][s]
  BY <1>1, <1>2 DEF Accounted, InFlight, b
<1>7. TypeOK'
  BY <1>1, <1>3, <1>4, <1>5 DEF SyncInv, TypeOK, c
<1>8. BatchTraced(n)' /\ Accounted(n)'
  BY <1>1, <1>3, <1>5 DEF BatchTraced, Accounted, c
<1>9. CaughtUp(n)'
  BY <1>1, <1>5, <1>6 DEF CaughtUp, c
<1> QED BY <1>1, <1>4, <1>7, <1>8, <1>9, SessionMoves

\* A session that dies leaves the files as far as it got.
LEMMA AbortKeeps == ASSUME SyncInv, NEW n \in Node, Abort(n) PROVE SyncInv'
<1> DEFINE c == sess'[n]
<1>1. /\ fails < MaxFails /\ fails' = fails + 1 /\ sess' = [sess EXCEPT ![n] = Idle(n)]
      /\ UNCHANGED <<held, early, full, known, open, wire>>
  BY DEF Abort
<1>2. c = Idle(n) /\ \A m \in Node \ {n} : sess'[m] = sess[m]
  BY <1>1 DEF SyncInv, TypeOK
<1>3. c \in Sessions /\ c.pc = "idle" /\ c.batch = {} /\ c.seg = {}
  BY <1>2 DEF Sessions, Idle, Empty
<1>4. TypeOK'
  BY <1>1, <1>2, <1>3, SyncAssumption DEF SyncInv, TypeOK
<1>5. BatchTraced(n)' /\ Accounted(n)' /\ CaughtUp(n)'
  BY <1>3 DEF BatchTraced, Accounted, CaughtUp
<1> QED BY <1>1, <1>2, <1>4, <1>5, SessionMoves

\* Every step of the daemons, the sockets and the sessions keeps the accounts.
LEMMA StepSyncInv == SyncInv /\ [Next]_vars => SyncInv'
<1> SUFFICES ASSUME SyncInv, [Next]_vars PROVE SyncInv'
  OBVIOUS
<1>1. CASE \E n \in Node, o \in Op : Write(n, o)
  BY <1>1, WriteKeeps
<1>2. CASE Dawn \/ Fill \/ (\E l \in Links : Connect(l) \/ Disconnect(l))
  BY <1>2, DaemonKeeps
<1>3. CASE \E n, p \in Node : Begin(n, p)
  BY <1>3, BeginKeeps
<1>4. CASE \E n \in Node : SessionStep(n)
  BY <1>4, RootsMatchKeeps, RootsDifferKeeps, LeavesKeeps, PullKeeps, PushKeeps, SendKeeps,
     SendRefusedKeeps, FinishKeeps DEF SessionStep
<1>5. CASE \E n \in Node : Abort(n)
  BY <1>5, AbortKeeps
<1>6. CASE \E l \in Links, o \in Op : Deliver(l, o)
  BY <1>6, DeliverKeeps
<1>7. CASE UNCHANGED vars
  <2>1. Grows /\ TypeOK' /\ Traced' /\ \A n \in Node : sess'[n] = sess[n]
    BY <1>7 DEF vars, SyncInv, TypeOK, Traced, Grows
  <2> QED BY <2>1, OthersKeep DEF SyncInv
<1> QED BY <1>1, <1>2, <1>3, <1>4, <1>5, <1>6, <1>7 DEF Next

\* Operations can always be traced to their author, sessions to their snapshots.
THEOREM SyncInvariant == Spec => []SyncInv
  BY InitSyncInv, StepSyncInv, PTL DEF Spec

(* A sync that ends well has caught up with the peer, and the peer with us   *)
(* on the days it had nothing of, whatever was written, pushed or delivered  *)
(* on both sides meanwhile.                                                  *)
THEOREM SyncAlwaysCatchesUp == Spec => []SyncCatchesUp
<1>1. SyncInv => SyncCatchesUp
  BY DEF SyncInv, SyncCatchesUp
<1> QED BY <1>1, SyncInvariant, PTL

------------------------------------------------------------------------------
(* The op sets alone *)

\* The op sets after one operation reached one node.
LEMMA AllGrows ==
  ASSUME TypeOK, NEW to \in Node, NEW o \in Op, held' = Stored(to, SegOf[o], o)
  PROVE  [n \in Node |-> All(n)]' = [[n \in Node |-> All(n)] EXCEPT ![to] = @ \union {o}]
<1>1. /\ Grows /\ o \in held'[to][SegOf[o]] /\ SegOf[o] \in Seg
      /\ \A m \in Node, s \in Seg : \A p \in held'[m][s] :
           p \in held[m][s] \/ (m = to /\ p = o /\ s = SegOf[o])
  BY StoreGrows, SyncAssumption
<1>2. ASSUME NEW m \in Node
      PROVE  All(m)' = IF m = to THEN All(m) \union {o} ELSE All(m)
  <2>1. All(m)' = UNION {held'[m][s] : s \in Seg}
    BY DEF All
  <2>2. \A p : p \in All(m)' <=> p \in All(m) \/ (m = to /\ p = o)
    BY <1>1, <2>1 DEF All, Grows
  <2> QED BY <2>2
<1> QED BY <1>2

\* Who stores an operation copies it from its author, or is the author.
LEMMA StepCopies == SyncInv /\ [Next]_vars => [Copies!Next]_(Copies!vars)
<1> SUFFICES ASSUME SyncInv, [Next]_vars PROVE [Copies!Next]_(Copies!vars)
  OBVIOUS
<1> DEFINE have == [n \in Node |-> All(n)]
<1>1. CASE \E n \in Node, o \in Op : Write(n, o)
  <2>1. PICK n \in Node, o \in Op : Write(n, o)
    BY <1>1
  <2>2. Author[o] = n /\ o \notin held[n][SegOf[o]] /\ held' = Stored(n, SegOf[o], o)
    BY <2>1 DEF Write, Stored
  <2>3. \A m \in Node : o \notin All(m)
    BY <2>2 DEF SyncInv, Traced, All
  <2>4. have' = [have EXCEPT ![n] = @ \union {o}]
    BY <2>2, AllGrows DEF SyncInv
  <2> QED BY <2>3, <2>4 DEF Copies!Next, Copies!Mint
<1>2. ASSUME NEW n \in Node, NEW o \in Op, held' = Stored(n, SegOf[o], o),
             o \in held[Author[o]][SegOf[o]]
      PROVE  Copies!Next
  <2>1. Author[o] \in Node /\ SegOf[o] \in Seg
    BY SyncAssumption
  <2>2. o \in have[Author[o]]
    BY <1>2, <2>1 DEF All
  <2>3. have' = [have EXCEPT ![n] = @ \union {o}]
    BY <1>2, AllGrows DEF SyncInv
  <2> QED BY <2>1, <2>2, <2>3 DEF Copies!Next, Copies!Copy
<1>3. CASE \E n \in Node, s \in Seg, o \in Op : Send(n, s, o)
  <2>1. PICK n \in Node, s \in Seg, o \in Op : Send(n, s, o)
    BY <1>3
  <2>2. /\ o \in sess[n].batch /\ s \in sess[n].seg /\ held' = Stored(Target(n), s, o)
    BY <2>1 DEF Send
  <2>3. s = SegOf[o] /\ o \in held[Author[o]][SegOf[o]]
    BY <2>2 DEF SyncInv, BatchTraced
  <2>4. Target(n) \in Node
    BY DEF Target, SyncInv, TypeOK, Sessions
  <2> QED BY <1>2, <2>2, <2>3, <2>4
<1>4. CASE \E l \in Links, o \in Op : Deliver(l, o)
  <2>1. PICK l \in Links, o \in Op : Deliver(l, o)
    BY <1>4
  <2>2. o \in wire[l] /\ (held' = held \/ held' = Stored(l[2], SegOf[o], o))
    BY <2>1 DEF Deliver
  <2>3. l[2] \in Node /\ o \in held[Author[o]][SegOf[o]]
    BY <2>2, SyncAssumption DEF SyncInv, Traced
  <2>4. CASE held' = held
    BY <2>4 DEF Copies!vars, All
  <2>5. CASE held' = Stored(l[2], SegOf[o], o)
    BY <1>2, <2>3, <2>5
  <2> QED BY <2>2, <2>4, <2>5
<1>5. CASE held' = held
  BY <1>5 DEF Copies!vars, All
<1>6. \/ \E n \in Node, o \in Op : Write(n, o)
      \/ \E n \in Node, s \in Seg, o \in Op : Send(n, s, o)
      \/ \E l \in Links, o \in Op : Deliver(l, o)
      \/ held' = held
  <2>1. \A n \in Node : RootsMatch(n) \/ RootsDiffer(n) \/ Leaves(n) \/ Finish(n) \/ Abort(n) => held' = held
    BY DEF RootsMatch, RootsDiffer, Leaves, Finish, Abort
  <2>2. \A n \in Node, s \in Seg : Pull(n, s) \/ Push(n, s) \/ SendRefused(n, s) => held' = held
    BY DEF Pull, Push, SendRefused
  <2>3. \A n \in Node : SessionStep(n) => held' = held \/ \E s \in Seg, o \in Op : Send(n, s, o)
    BY Zenon, <2>1, <2>2 DEF SessionStep
  <2>4. Dawn \/ Fill \/ (\E n, p \in Node : Begin(n, p)) \/ UNCHANGED vars => held' = held
    BY DEF Dawn, Fill, Begin, vars
  <2>5. \A l \in Links : Connect(l) \/ Disconnect(l) => held' = held
    BY DEF Connect, Disconnect
  <2> QED BY Zenon, <2>1, <2>3, <2>4, <2>5 DEF Next
<1> QED BY <1>1, <1>3, <1>4, <1>5, <1>6

(* Sync and live sync only copy operations: whatever dies, is refused, comes *)
(* twice or out of order, an operation is minted once, by its author, and    *)
(* every other replica has it from a replica that holds it.                  *)
THEOREM SyncOnlyCopies == Spec => CopiesSpec
<1>1. Init => Copies!Init
  BY DEF Init, Copies!Init, All, Empty
<1> QED BY <1>1, StepCopies, SyncInvariant, PTL DEF Spec, CopiesSpec, Copies!Spec

=============================================================================
