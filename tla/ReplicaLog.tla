----------------------------- MODULE ReplicaLog -----------------------------
(***************************************************************************)
(* One daemon's CRDT persistence: CrdtState (daemon/src/crdt/state.ts), its *)
(* OpLog (oplog.ts) and its HlcGenerator (hlc.ts), for one CRDT type.       *)
(* A local write ticks the clock, appends one batch to the segment of the   *)
(* op's HLC day, then updates memory; an inbound batch from a peer is       *)
(* appended, synced, applied and observed.  The process may be killed at    *)
(* any point, also inside a write; the machine may lose power; a write may  *)
(* fail half way in a process that lives on.  A peer copies operations out  *)
(* of the segments and may hand them back.                                  *)
(***************************************************************************)
EXTENDS Hlc, Sequences, FiniteSets

CONSTANTS
  Me,            \* this replica's writer id
  Remote,        \* operations of other writers that a peer may push
  DayMs,         \* milliseconds in a segment day
  FutureDays,    \* MAX_FUTURE_SEGMENT_DAYS
  FlushEvery,    \* flushEveryWrites
  FlushMs,       \* flushEveryMs
  SegmentCap,    \* maxSegmentBytes, in batches
  MaxBack,       \* how far one step of the physical clock may go back
  ShortWrites,   \* may a write fail half way while the process lives on?
  PowerLoss,     \* may the machine lose what was not synced?
  MaxNow,        \* bound: physical clock
  MaxWrites,     \* bound: local operations minted
  MaxStops       \* bound: crashes and stops

ASSUME MeAssumption == Me \in Nat
ASSUME BoundsAssumption ==
  /\ DayMs \in Nat \ {0} /\ FutureDays \in Nat /\ FlushEvery \in Nat \ {0}
  /\ FlushMs \in Nat /\ SegmentCap \in Nat /\ MaxBack \in Nat /\ MaxNow \in Nat
  /\ MaxWrites \in Nat /\ MaxStops \in Nat /\ ShortWrites \in BOOLEAN
  /\ PowerLoss \in BOOLEAN

(***************************************************************************)
(* An operation is its composite key and its content; `mint` stands for     *)
(* the content: the n-th write of this replica's life has mint n.           *)
(***************************************************************************)
Ops == [hlc : Hlcs, writer : Nat, mint : Nat]
ASSUME RemoteAssumption ==
  Remote \subseteq Ops /\ \A o \in Remote : o.writer # Me /\ o.hlc.wall \div DayMs \in
    0 .. ((MaxNow + MaxSkew + MaxWrites) \div DayMs)

\* The bytes a failed or interrupted write left behind.
Torn == [torn |-> TRUE]

VARIABLES
  now,        \* physical clock
  last,       \* HlcGenerator.last
  up,         \* is the daemon running?
  seg,        \* segment files: day -> items
  synced,     \* day -> items known to be on stable storage
  handle,     \* OpLog's cached SegmentHandle: day, pendingWrites, lastFlushMs
  mem,        \* operations applied to the in-memory CRDTs in this life
  refused,    \* applied operations whose observation the skew bound refused
  peer,       \* operations a peer has copied out of our segments
  acked,      \* local writes that returned to their caller
  kept,       \* inbound operations answered with ok
  buried,     \* of those, the ones appended behind a failed write's bytes
  writes,     \* local operations minted so far (bound, and content)
  stops       \* stops so far (bound)

vars == <<now, last, up, seg, synced, handle, mem, refused, peer, acked, kept,
          buried, writes, stops>>

DayOf(hlc) == hlc.wall \div DayMs
Days == 0 .. ((MaxNow + MaxSkew + MaxWrites) \div DayMs)
NoHandle == [day |-> -1, pending |-> 0, lastFlush |-> 0]

(***************************************************************************)
(* Readers stop at the first item that does not decode: everything behind   *)
(* a torn batch is framed by the torn length and cannot be read either.     *)
(***************************************************************************)
GoodLen(items) ==
  CHOOSE n \in 0..Len(items) :
    /\ \A i \in 1..n : items[i] # Torn
    /\ n = Len(items) \/ items[n + 1] = Torn
ReadOps(items) == {items[i] : i \in 1..GoodLen(items)}
Disk == UNION {ReadOps(seg[d]) : d \in Days}

Init ==
  /\ now = 0 /\ last = ZeroHlc /\ up = TRUE
  /\ seg = [d \in Days |-> <<>>] /\ synced = [d \in Days |-> 0]
  /\ handle = NoHandle
  /\ mem = {} /\ refused = {} /\ peer = {} /\ acked = {} /\ kept = {} /\ buried = {}
  /\ writes = 0 /\ stops = 0

------------------------------------------------------------------------------
(* The physical clock, not the daemon's to control. *)

ClockForward ==
  /\ now < MaxNow
  /\ now' = now + 1
  /\ UNCHANGED <<last, up, seg, synced, handle, mem, refused, peer, acked,
                 kept, buried, writes, stops>>

ClockBack ==
  /\ \E b \in 1..MaxBack : b <= now /\ now' = now - b
  /\ UNCHANGED <<last, up, seg, synced, handle, mem, refused, peer, acked,
                 kept, buried, writes, stops>>

------------------------------------------------------------------------------
(* Local writes: tick, appendOps, memory. *)

\* ensureOpenSegment: a new day closes the old handle, syncing what it owes.
Opened(day) ==
  IF handle.day = day THEN handle
  ELSE [day |-> day, pending |-> 0, lastFlush |-> now]
SyncedAfterOpen(day) ==
  IF handle.day \notin {-1, day} /\ handle.pending > 0
  THEN [synced EXCEPT ![handle.day] = Len(seg[handle.day])]
  ELSE synced

Minted == [hlc |-> TickFrom(last, now), writer |-> Me, mint |-> writes + 1]

\* observe / applyOr / recordLww, up to the answer to the caller; emitOps
\* hands the operation to a live-sync peer when one is connected.
LocalWrite ==
  LET op   == Minted
      day  == DayOf(op.hlc)
      h    == Opened(day)
      due  == h.pending + 1 >= FlushEvery \/ now - h.lastFlush >= FlushMs
      file == Append(seg[day], op)
  IN  /\ up /\ writes < MaxWrites
      /\ last' = op.hlc
      /\ seg' = [seg EXCEPT ![day] = file]
      /\ handle' = IF due THEN [h EXCEPT !.pending = 0, !.lastFlush = now]
                          ELSE [h EXCEPT !.pending = @ + 1]
      /\ synced' = IF due THEN [SyncedAfterOpen(day) EXCEPT ![day] = Len(file)]
                          ELSE SyncedAfterOpen(day)
      /\ mem' = mem \union {op}
      /\ acked' = acked \union {op}
      /\ writes' = writes + 1
      /\ peer' \in {peer, peer \union {op}}
      /\ UNCHANGED <<now, up, refused, kept, buried, stops>>

\* writeFully throws: part of the batch is in the file, memory is not
\* touched, the caller gets the error, the daemon runs on.
LocalWriteFails ==
  LET op  == Minted
      day == DayOf(op.hlc)
  IN  /\ up /\ ShortWrites /\ writes < MaxWrites
      /\ last' = op.hlc
      /\ seg' = [seg EXCEPT ![day] = Append(@, Torn)]
      /\ handle' = Opened(day)
      /\ synced' = SyncedAfterOpen(day)
      /\ writes' = writes + 1
      /\ UNCHANGED <<now, up, mem, refused, peer, acked, kept, buried, stops>>

------------------------------------------------------------------------------
(* Inbound operations: POST /api/sync/push and the live-sync frames. *)

\* assertAcceptableSegmentDay and the segment's size cap.
Acceptable(day) ==
  /\ day <= (now \div DayMs) + FutureDays
  /\ Len(seg[day]) < SegmentCap

\* Behind what a failed write left, until the next start truncates the file.
Buried(op) ==
  LET items == seg[DayOf(op.hlc)]
  IN  IF GoodLen(items) = Len(items) THEN buried ELSE buried \union {op}

\* A slip: the batch is left in the page cache.
InboundUnsynced(op) ==
  LET day == DayOf(op.hlc)
  IN  /\ up /\ Acceptable(day)
      /\ seg' = [seg EXCEPT ![day] = Append(@, op)]
      /\ mem' = mem \union {op}
      /\ last' = ObserveFrom(last, op.hlc, now)
      /\ refused' = IF Refused(op.hlc, now) THEN refused \union {op} ELSE refused
      /\ kept' = kept \union {op}
      /\ buried' = Buried(op)
      /\ UNCHANGED <<now, up, synced, handle, peer, acked, writes, stops>>

\* A slip: the batch is stored and not applied.
InboundUnapplied(op) ==
  LET day == DayOf(op.hlc)
  IN  /\ up /\ Acceptable(day)
      /\ seg' = [seg EXCEPT ![day] = Append(@, op)]
      /\ synced' = [synced EXCEPT ![day] = Len(seg[day]) + 1]
      /\ kept' = kept \union {op}
      /\ buried' = Buried(op)
      /\ UNCHANGED <<now, last, up, handle, mem, refused, peer, acked, writes, stops>>

\* appendRawBatchToDate, then applyWireOpInMemory, then observe.
Inbound(op) ==
  LET day == DayOf(op.hlc)
  IN  /\ up /\ Acceptable(day)
      /\ seg' = [seg EXCEPT ![day] = Append(@, op)]
      /\ synced' = [synced EXCEPT ![day] = Len(seg[day]) + 1]
      /\ mem' = mem \union {op}
      /\ last' = ObserveFrom(last, op.hlc, now)
      /\ refused' = IF Refused(op.hlc, now) THEN refused \union {op} ELSE refused
      /\ kept' = kept \union {op}
      /\ buried' = Buried(op)
      /\ UNCHANGED <<now, up, handle, peer, acked, writes, stops>>

InboundFails(op) ==
  LET day == DayOf(op.hlc)
  IN  /\ up /\ ShortWrites /\ Acceptable(day)
      /\ seg' = [seg EXCEPT ![day] = Append(@, Torn)]
      /\ UNCHANGED <<now, last, up, synced, handle, mem, refused, peer, acked,
                     kept, buried, writes, stops>>

\* A peer reads a segment (POST /api/sync/batch) and splits it in batches.
PeerPull(day) ==
  /\ up
  /\ peer' = peer \union ReadOps(seg[day])
  /\ UNCHANGED <<now, last, up, seg, synced, handle, mem, refused, acked, kept, buried,
                 writes, stops>>

------------------------------------------------------------------------------
(* Stopping and starting. *)

Stopped ==
  /\ up /\ stops < MaxStops
  /\ up' = FALSE /\ stops' = stops + 1
  /\ last' = ZeroHlc /\ handle' = NoHandle /\ mem' = {} /\ refused' = {}

\* CrdtState.close on shutdown: the open segment is synced.
Stop ==
  /\ Stopped
  /\ synced' = IF handle.pending > 0
               THEN [synced EXCEPT ![handle.day] = Len(seg[handle.day])]
               ELSE synced
  /\ UNCHANGED <<now, seg, peer, acked, kept, buried, writes>>

\* The process dies between two requests: the files keep every byte.
Crash ==
  /\ Stopped
  /\ UNCHANGED <<now, seg, synced, peer, acked, kept, buried, writes>>

\* The process dies inside a local write, before memory and the answer.
CrashInWrite ==
  LET op  == Minted
      day == DayOf(op.hlc)
  IN  /\ Stopped /\ writes < MaxWrites
      /\ \E item \in {op, Torn} : seg' = [seg EXCEPT ![day] = Append(@, item)]
      /\ writes' = writes + 1
      /\ synced' = SyncedAfterOpen(day)
      /\ UNCHANGED <<now, peer, acked, kept, buried>>

\* The machine dies: of what was not synced any prefix survives, and the
\* last batch of it may be torn.
LosePower ==
  /\ PowerLoss /\ Stopped
  /\ \E len \in [Days -> 0..SegmentCap + MaxWrites], half \in SUBSET Days :
       /\ \A d \in Days :
            /\ synced[d] <= len[d] /\ len[d] <= Len(seg[d])
            /\ d \in half => len[d] < Len(seg[d])
       /\ seg' = [d \in Days |->
                    IF d \in half THEN Append(SubSeq(seg[d], 1, len[d]), Torn)
                                  ELSE SubSeq(seg[d], 1, len[d])]
  /\ UNCHANGED <<now, synced, peer, acked, kept, buried, writes>>

\* A slip: a torn tail is skipped in memory and left in the file.
StartUntruncated ==
  /\ ~up /\ now < MaxNow
  /\ now' = now + 1
  /\ up' = TRUE
  /\ mem' = Disk
  /\ last' = ReplayFrom({o.hlc : o \in Disk}, now')
  /\ refused' = {o \in Disk : Refused(o.hlc, now')}
  /\ UNCHANGED <<seg, synced, handle, peer, acked, kept, buried, writes, stops>>

\* The constructor: a fresh generator and OpLog, then hydrate.  Every segment
\* is truncated to its readable prefix, torn or not the next day is read.
\* A start takes longer than a millisecond.
Start ==
  /\ ~up /\ now < MaxNow
  /\ now' = now + 1
  /\ up' = TRUE
  /\ seg' = [d \in Days |-> SubSeq(seg[d], 1, GoodLen(seg[d]))]
  /\ synced' = [d \in Days |-> IF synced[d] <= GoodLen(seg[d]) THEN synced[d]
                                                               ELSE GoodLen(seg[d])]
  /\ mem' = Disk
  /\ last' = ReplayFrom({o.hlc : o \in Disk}, now')
  /\ refused' = {o \in Disk : Refused(o.hlc, now')}
  /\ UNCHANGED <<handle, peer, acked, kept, buried, writes, stops>>

Next ==
  \/ ClockForward \/ ClockBack
  \/ LocalWrite \/ LocalWriteFails
  \/ \E op \in Remote \union peer : Inbound(op)
  \/ \E op \in Remote \union peer : InboundFails(op)
  \/ \E d \in Days : PeerPull(d)
  \/ Stop \/ Crash \/ CrashInWrite \/ LosePower
  \/ Start

Spec == Init /\ [][Next]_vars

------------------------------------------------------------------------------
(* Properties *)

TypeOK ==
  /\ now \in 0..MaxNow /\ last \in Hlcs /\ up \in BOOLEAN
  /\ seg \in [Days -> Seq(Ops \union {Torn})]
  /\ synced \in [Days -> Nat]
  /\ handle \in [day : Days \union {-1}, pending : Nat, lastFlush : Nat]
  /\ mem \subseteq Ops /\ refused \subseteq Ops /\ peer \subseteq Ops
  /\ acked \subseteq Ops /\ kept \subseteq Ops /\ buried \subseteq kept
  /\ writes \in 0..MaxWrites /\ stops \in 0..MaxStops

(* With kills only, the log implements the durable view: every operation,    *)
(* kill and start of the daemon is one of DurableView's steps or a stutter.  *)
Durable == INSTANCE DurableView WITH view <- mem, store <- Disk
DurableSpec == Durable!Spec

(* Memory and disk are in lock-step (ARCHITECTURE 14.4): what the request    *)
(* path serves is what the next start would read back.                       *)
ViewIsDisk == up => mem = Disk

(* Also after writes that failed half way, a start that reads the log back   *)
(* never shows an operation the running daemon did not.                      *)
NothingUnseen == up => Disk \subseteq mem

(* A local write that returned to its caller is still read back after any    *)
(* number of kills, also kills inside later writes.                          *)
AckedSurvives == acked \subseteq Disk

(* appendRawBatchToDate syncs before it answers: an operation we told a peer *)
(* we hold is read back even after power losses and failed writes, whatever  *)
(* local writes around it were lost, unless it lies behind the bytes of a    *)
(* write that failed half way.                                               *)
KeptSurvives == kept \ buried \subseteq Disk

(* ARCHITECTURE 12.2: collisions of the key [hlc][writer] are impossible,    *)
(* here over everything on this disk and everything peers copied from it.    *)
OneOpPerKey ==
  \A o, p \in Disk \union peer :
    o.hlc = p.hlc /\ o.writer = p.writer => o = p

(* A local write dominates every operation applied before it, but for those  *)
(* the skew bound refused to observe (hlc.ts, MAX_OBSERVED_SKEW_MS).         *)
WritesDominate ==
  [][\A o \in acked' \ acked : \A p \in mem \ refused : HlcLess(p.hlc, o.hlc)]_vars

------------------------------------------------------------------------------
(* The inductive invariants behind the theorems (FailureProofs).             *)

\* Every operation lies in the segment of its own day, and those days exist.
InOwnDay ==
  /\ \A d \in Days : \A i \in 1..Len(seg[d]) :
       seg[d][i] # Torn => DayOf(seg[d][i].hlc) = d
  /\ \A o \in peer : DayOf(o.hlc) \in Days
  /\ last.wall <= MaxNow + MaxSkew + writes

SyncedPrefix == \A d \in Days : synced[d] <= Len(seg[d])

\* What a peer was told we hold lies in the synced part, ahead of torn bytes.
KeptReadable ==
  \A o \in kept \ buried : \E d \in Days : \E i \in 1..synced[d] :
    seg[d][i] = o /\ \A j \in 1..i : seg[d][j] # Torn

\* The clock is not behind anything applied that the skew bound let it see.
ClockCovers == up => \A o \in mem \ refused : ~HlcLess(last, o.hlc)

\* Whatever fails: kills, power losses, writes that fail half way.
FaultInv ==
  /\ TypeOK /\ InOwnDay /\ SyncedPrefix
  /\ KeptReadable /\ NothingUnseen /\ ClockCovers

Whole(items) == \A i \in 1..Len(items) : items[i] # Torn
TornTail(items) == \A i \in 1..Len(items) - 1 : items[i] # Torn

\* A running daemon's files hold no torn batch, a stopped one's at most a last.
FilesReadable ==
  \A d \in Days : TornTail(seg[d]) /\ (up => Whole(seg[d]))

\* For daemons whose writes do not fail half way.
LogInv == FilesReadable /\ ViewIsDisk /\ (PowerLoss \/ AckedSurvives)

\* For those on machines that keep their files, with clocks that do not step
\* back: our operations in a peer's hands are on our disk too, the clock is not
\* behind any of them, now or after a restart, and no two have one key; other
\* writers' operations are what those minted.
KeysInv ==
  /\ \A o \in Disk \union peer :
       IF o.writer = Me THEN o \in Disk ELSE o \in Remote
  /\ \A o \in Disk : o.writer = Me =>
       /\ o.hlc.wall <= now + MaxSkew + 1
       /\ up => ~HlcLess(last, o.hlc)
  /\ \A o, p \in Disk :
       o.writer = Me /\ p.writer = Me /\ o.hlc = p.hlc => o = p

\* No two counters are exhausted within a millisecond at the skew bound.
SkewHolds == [][writes' # writes => Minted.hlc.wall <= now + MaxSkew + 1]_vars

=============================================================================
