# Hayvenhurst in TLA+

These modules model the parts of Hayvenhurst in which several processes, peers
or callbacks share state: the replicated operation log and its clock, peer
synchronisation, the two lockfiles, the claims board, the start and stop of
daemons, the marker that tells a whole index from a half-written one, the indexes
of branches and of worktrees, the daemon's control of re-ingests, and the
collectors that post traces to it. They also model what an ingest makes of the
files, and the readers of the graph: impact, affected tests, lanes, packs.
TLC checks each on a small instance; TLAPS proves the central invariants of most
for every value of the constants. Paths below are relative to the repository;
`daemon.ts` is `daemon/src/cli/daemon.ts`.

## 1. The system

A Hayvenhurst **daemon** (Bun/TypeScript) serves one or more projects on a
machine. For each project it keeps a SQLite **index** of the code graph, written
by ingests that drive a **native parser** (Rust) over the tree, and per branch
one such index. A **watcher** child reports changed files. Command-line
processes (`hayven ingest`, `claim`, `sync`, ...) talk to the daemon over HTTP or
open the index themselves. Agents register **claims** on entities. Claims and
notes are **CRDT operations** in day segments on disk, exchanged with peer
daemons by `hayven sync` or over a live-sync socket.

| Component | State it keeps | Operations | What makes it correct |
|---|---|---|---|
| Operation log, clock (`crdt/oplog.ts`, `state.ts`, `hlc.ts`) | segment files, the open handle with its unsynced writes, in-memory CRDTs, the HLC's `last` | local write, inbound batch, segment read by a peer, stop, start | memory is the disk; answered writes survive; a key names one operation; local writes dominate what was applied |
| Peer sync (`cli/sync.ts`, `routes/sync.ts`, `routes/ws.ts`, `crdt/merkle.ts`) | a session's two Merkle snapshots, sockets and their frames, the operations each holds, who knows whom | roots, leaves, pull, push, live frame, refusal | operations are only copied; a completed sync has caught up; replicas converge |
| Project registry (`daemon/registry.ts`) | one JSON file, a lockfile, per process a lease | lock, read, renew, publish, retry, release | no registration is lost; nobody is wedged by a crash |
| File lock (`util/file_lock.ts`; used by `worktree/registry.ts`, `worktree/overlay.ts`) | a lockfile with a token | create, confirm, reclaim, touch, release, time out | one section at a time |
| Claims board (`routes/claims.ts`, `crdt/orset.ts`, `conflict/adjacency.ts`) | OR-Set adds and tombstones, the overridden verdicts | register with overlap check and awaited verdict, release, merge, restart | the board is what its operations say; overlap is a hard conflict |
| Index marker (`db/queries.ts`, `db/index_health.ts`, `graph/ingest.ts`, `cli/ingest.ts`) | tokens in `stats.ingest_in_progress`, node and edge rows | begin, end, clear, purge, flush, commit, refuse | an index that reads healthy is whole |
| Ingest control (`daemon.ts`, `native/watcher.ts`) | buffered paths, handlers in flight, the breaker and the rate window, the chain, what the poller tracks | record, overflow, flush, request, admit, run, poll, re-point | no change is lost; runs are bounded; the served branch is the checked-out one |
| Graph index (`graph/ingest.ts`, `graph/edgeResolver.ts`, `graph/nameIndex.ts`, `db/queries.ts`) | nodes, edges with counts, call sites | full, scoped, incremental ingest, watcher batch, re-resolution | the rows are those of the text last read; no link by coincidence |
| Readers (`db/graph_walk.ts`, `impact_preview.ts`, `affected_tests.ts`, `lane_planner.ts`, `context_pack.ts`, `context_escalation.ts`) | none | impact, affected tests, lanes, packs for symbols and changes, rungs | no dependent, test or changed line is missed; nothing more is claimed |
| Worktree overlays (`worktree/overlay.ts`, `worktree/git.ts`, `db/ingest_dirty.ts`) | a copy of the main index, its stamp, marks and dirty list | status, seed, amend, rebuild, stamp | what is called fresh is the worktree; it becomes fresh again while it has anything to index |
| Branch indexes, freshness (`db/branch_index.ts`, `db/freshness.ts`) | one index per branch, the legacy one | resolve, seed, amend, evict, prune, read | a read that warns of nothing is right; an ingest ends the warning |
| Daemon life cycle (`daemon/lifecycle.ts`, `daemon/detach.ts`, `daemon.ts`) | start lock, pidfile and sidecar, the port | start, detached child, stop with its orphan sweep | one daemon; a lone start works over any debris but a start lock whose dead holder's pid another process has; a stop leaves nothing answering |
| Trace collectors (`trace/*/flusher`, `routes/traces.ts`) | counts by edge and by test, chunks on their way, the daemon's tables | record, flush, answer, put back, stop | no recorded call is lost or counted twice |
| Everything else | see `PROJECT.json`, "components" | | not modelled: text and I/O (MCP, proxy, models, viewer, installer, full-text ranking), a separate language (native parser) |

How they interact: the CLI and the daemon share an index file and the registry through
the file system only, so their steps interleave at every transaction and system call.
Inside the daemon everything is one event loop, so state is shared between *awaits*.
Peers share nothing but messages. The hard behaviours are thus kills and power losses
between two writes; a lock judged stale while its owner sleeps; decisions taken before
an await and used after it; timers, records and requests that arrive while a handler
runs; requests that die; physical clocks that disagree; rows older than the lines they
point at. `PROJECT.json`, "hazards", lists them at their lines.

## 2. Modules

| Module | Models | Checked by | Proofs |
|---|---|---|---|
| `Hlc` | `tick`, `observe` and the replay of `hydrate`, as functions | inside `ReplicaLog` | `FailureProofs` |
| `ReplicaLog` | one daemon's log, clock and memory | `ReplicaKill`, `ReplicaFaults` | `FailureProofs` |
| `DurableView` | abstract: a store that only grows and a view that is the store | refined by `ReplicaLog` (`DurableSpec`) | `FailureProofs` |
| `GossipSync` | sync sessions and sockets of several daemons | `GossipPair` | `GossipSyncProofs` |
| `Replication` | abstract: operations are minted once and then copied | refined by `GossipSync` (`CopiesSpec`) | `GossipSyncProofs` |
| `RegistryLock` | the registry's lock, lease and publication | `RegistryShared` | `RegistryLockProofs` |
| `FileLock` | the lockfile of worktrees and overlays | `FileLockShared` | `FileLockProofs` |
| `ClaimBoard` | POST, DELETE and merge of claims | `CheckoutShared`, `ClaimsRace` | `CheckoutProofs` |
| `DaemonStart` | `daemon start` and `stop`, several at once | `CheckoutShared` | `CheckoutProofs` |
| `BranchIndexes` | the indexes of a checkout's branches and their readers | `CheckoutShared` | `CheckoutProofs` |
| `Checkout` | the three above side by side | `CheckoutShared` | `CheckoutProofs` |
| `Overlay` | the index of a linked worktree | `ReplicaKill` | `FailureProofs` |
| `Killed` | the log and an overlay side by side | `ReplicaKill` | `FailureProofs` |
| `TraceFlush` | the flushers of the five collectors and the traces route | `ReplicaFaults` | `FailureProofs` |
| `Faulty` | the log and the flushers side by side | `ReplicaFaults` | `FailureProofs` |
| `IngestMarker` | ingests of several processes into one index | `MarkerShared`, `Index`, `MarkerBatchHeals` | `IngestMarkerProofs` |
| `EdgeResolver` | how a call or import becomes an edge, as functions | inside `GraphIndex` | |
| `GraphIndex` | the rows that ingests of edited files leave | `Index` | `GraphIndexProofs` |
| `GraphQueries`, `ContextPacks` | the readers, as functions of rows and lines | inside `GraphReads`, `Readers` | |
| `GraphReads`, `Readers` | what the readers promise of every index that can come of it, against plain definitions | `Index` | |
| `IngestControl` | supervisor, guard, chain and branch poller | `ControlSteady`, `ControlFailing` | `IngestControlProofs` |

`MC<Module>` gives a module's constants their values for TLC. Four modules
instantiate a second (or third) component next to the first one: `Killed`
(`ReplicaLog`, `Overlay`), `Faulty` (`ReplicaLog`, `TraceFlush`), `Checkout`
(`ClaimBoard`, `DaemonStart`, `BranchIndexes`) and `MCIndex` (`Readers`,
`IngestMarker`). These share no state: the initial state picks the component the
behaviour is of (`part`, `kind`), and the others' variables are at rest in it. So one run
asks the same question (kills, faults, several actors in a checkout, an index and
its readers) of each, and no interleaving of unrelated steps is explored. The
components that do interact are composed in one module: the log and its clock,
sessions and sockets, ingests and the marker, the poller and the chain, an
overlay and the main index it copies, a collector and the route it posts to, the
graph and its readers.

A definition whose comment begins with "Slip" or "A slip" is a plausible bug in the
definition that follows it; no specification uses it. Each property is paired with one in
`PROJECT.json`, "mutants": put in the place of the real definition, it breaks
the property.

### State and actions against the code

**Hlc, ReplicaLog.** An operation is its composite key and `mint`, which stands
for its content. `seg` holds the files' items in order; `Torn` is what a failed
or killed write left, and readers stop at it (`GoodLen`, as the framing of
`splitSegmentBatches` does). `handle` is the cached `SegmentHandle`; `synced`
the length known to be on stable storage, which `LosePower` cuts back to.
`LocalWrite` is a whole `recordLww`: tick, append to the day of the HLC, sync
when due, apply. `Inbound` is `appendRawBatchToDate` with its fdatasync, then
apply and observe. `Start` truncates each segment at its last whole item, reads
all of them and replays the clock. `CrashInWrite`, `LocalWriteFails` and
`InboundFails` are the write that is cut short by a kill or by an error. The day
arithmetic, the skew bound, the 16-bit counter and the flush conditions are the
code's, with small numbers.

**GossipSync.** `sess[n]` is the CLI process that runs `hayven sync` for node n:
its `pc` walks through roots, leaves and transfer, one HTTP request per action.
Merkle leaves are compared as the sets they hash; a hash collision is not
modelled. Every batch of a pull is pushed to our own daemon (`Target`), as the
code does. Segments differ from days only by their type, which never matters to
an exchange. `Abort` is any request that dies, `SendRefused` a refusal by day or
size, after which the session goes on.

**RegistryLock, FileLock.** Each system call on a lockfile is an action: create
with O_EXCL, write the token, read it back, look at the mtime, read before removing,
remove by name. Time is abstracted to whether a waiter has watched the present mtime
(`seen`) for the staleness window. A lockfile can look stale when its owner is dead or
sleeps: at most `MaxSleeps` times in RegistryLock, and in FileLock if `Slow` allows a
living holder to leave its file untouched for that long (the run says no, the theorems
allow it). `RegistryLock` adds what the section does: read, renew twice, rename, run
again when the lease is gone, and on the last try go on without it. `warned`, `blind`
and `taken` are history variables: nothing but properties reads them.

**ClaimBoard.** `adds` and `removed` are the OR-Set's maps, `log` the segments
it is rebuilt from. `Post` does all that the handler does up to its first await:
the idempotence look-up on the unexpired-or-not board (`Shown`), the overlap
check on the unexpired one, and either the answer or the wait for the oracle;
`Assessed` is the rest, with any verdict. Requests of other agents, releases and
a peer's operations interleave between the two. `waited` is history.

**IngestMarker.** A handle is an open connection with its `ingestToken`. `nodes`
and `edges` are the files whose rows are present. Each transaction is an action:
`Wipe` with `Cleared` (the token bookkeeping of `clearGraph`), `Purge`, `Flush`,
`WriteEdges`, `Commit`. `Adopted` is what `beginIngest` does to marks of an
older build or a dead owner, `Reaped` what a clear does.

**IngestControl.** An index is the set of files it is stale for. `NewTurn` is the
event loop: a timer or a record is handled when the promises of the last turn
have settled. `full[s]` is one full re-ingest asked of `requestFull`, from its
sleep in the rate interval to its answer; `queued` is the published promise
others join; `chain` is `ingestChain` with `phase` for whether the parse has
read the tree. The rate window is `starts` and `WindowRolls`, the minimum
interval `cooling`, the breaker `tripped` and `fails`. `dropped` is history: a
queued run was refused for the interval while the breaker was shut, and no later
job of the chain reads the tree instead.

**EdgeResolver, GraphIndex.** A text is the entities, imports and calls that the
parser finds in it; a specifier resolves through a given table (`Points`).
`ResolveCall` is the ladder of `resolveOne` (receiver, import binding, same package,
then anywhere), with its refusal of a link across packages that no import witnesses.
An occurrence is of one call or one specifier, so that two that come to one edge, as
two specifiers of one module do, count twice. `Written` is what one ingest does to the
three tables; `Reresolved` is the pass over all edges that follows it. `Full`,
`Scoped`, `Incremental` and `Batch` are whole ingests: their interleaving is
`IngestMarker`'s.

**GraphQueries, ContextPacks, GraphReads, Readers.** The readers are operators
over rows. `ReverseWalk` is the walk of `affected_tests.ts` with its relaxation
of nodes that were reached before, `Seen` and `InjectClassRollup` what coverage
and class members add, `PlanLanes` the union of seeds whose radii overlap. For
packs a line is its length and the names it mentions, and a row's range need not
fit its file. `GraphReads` compares each with a definition by reachability;
`Readers` asks packs and rungs of rows and lines that disagree.

**Overlay.** An index is the content each file's rows were read from, with its
commit, dirty list, stamp and marks. Each transaction of `refreshOverlay` is an
action, so edits, checkouts, ingests of the main checkout and deaths fall
between any two. `claims` is the watermark's count of nodes, as far as whether it
is above zero: the half of `readIndexIntegrity` that calls an index without rows
broken (`Emptied`). `misled` is history: the files of which the code stamps rows
it does not know of.

**BranchIndexes.** `Resolve` is `resolveWriteIndex` with the copy of the freshest
seedable index and the eviction, `Purge`/`Clear`, `Parse` and `End` the ingest.
`newest` is the greatest mtime that `newestSourceMtimeMs` can find: files that
git does not track, and directories below the top, move it or not as the code
has it. `tainted` and `moved` are history.

**DaemonStart.** A start is the command (`Try` to `Leave`) and the child it
spawns (`Check` to `Bind`); `Verdict` is `verifyDaemonIdentity` by the sidecar.
The lock's outcomes are `tryAcquireStartLock`'s: created, held or stale, or
unavailable, in which case the start goes on without it. `Recycle` gives a dead
daemon's pid to another process, `RecycleStart` a killed start's: `Stale` is
`!isAlive` of the lock's pid, whoever has it. `bare` (a start was killed, or went
on without the lock), `late` and `alone` are history.

**TraceFlush.** `lang` is the collector; the five differ in clamping, chunking,
serialising flushes, putting failed chunks back and in what their `stop()` waits
for. `Send` is the route's whole handler: operations, table, coverage, answer,
with a fault before, within or after it. A drain stamps its rows with the second
it happens in, and the table keeps one count for an edge and a second.

## 3. Runs

| Run | Instance | Shows |
|---|---|---|
| `ReplicaKill` | one daemon, 2 local and 2 remote operations (one at the last counter value, one beyond the skew bound), 2 stops, day of 3 ms. Beside it a worktree of two files: 2 edits or checkouts between two commits of which the second adds a file, 1 edit and 1 ingest of main, 1 death | with kills anywhere the log implements `DurableView`, keys stay unique over disk and peers, local writes dominate what was applied; what an overlay calls fresh is the worktree, and it is fresh again and again unless nothing is left to index |
| `ReplicaFaults` | the same log with failed writes, power loss, a clock that steps back, 1 stop. Beside it each of the five collectors: two edges and a covered test, three calls, one fault of a send, two seconds | what a peer was told we hold stays, unless it lies behind a failed write's bytes; a start never shows what the daemon did not; no recorded call is lost or counted twice, and a stop leaves none behind |
| `GossipPair` | two daemons that sync each other, three operations in two segments, one shared, one refused until dawn, one failure, one live-sync link | a completed sync has caught up; operations are only copied; with repeated syncs the replicas converge |
| `RegistryShared` | three processes, of which one replaces another's entry and one may give up waiting; one death, one sleep, one retry | no lost change while publishers hold the lock; everybody gets a turn |
| `FileLockShared` | four processes, two deaths | one section at a time until a removal takes the file of a process inside, which needs a death; everybody gets in or gives up |
| `CheckoutShared` | two daemons, two agents, three possible claims, of which one forces, one is adjacent and one reuses an id; expiry. Beside it two starts and a stop with two deaths, a slow child, a recycled pid (a daemon's or a killed start's); and three branches of two files, a limit of two indexes, 3 changes of the checkout, 2 ingests, 1 death | the board is its operations, overlap on one daemon needs an awaited verdict; one daemon, a lone start heals unless the start lock's pid is somebody else's by now, a stop that says so is right; a quiet read is right and an ingest makes it quiet |
| `ClaimsRace` | one step more: two agents claim one entity while each awaits a verdict on a third | **violation** of `NoOverlap` |
| `MarkerShared` | two commands and two lives of the daemon on an index that is new or whole; refusals, failures, kills (the two commands are symmetric, which is sound: the properties are invariants that treat both alike) | an index that reads healthy is whole |
| `Index` | three files of two packages in two or three versions each, two ingests of any kind over them; packs of rows and lines that disagree. Beside it watcher batches next to two commands, where an incremental run may fail | rows are those of the text last read, counts add up, no link across packages without a witness; no test, dependent or changed line missed; at rest a healthy index is whole |
| `MarkerBatchHeals` | those writers with a failing rebuild | **violation** of `QuietHealthyIsWhole` |
| `ControlSteady` | three files, buffer of three, batches of one, three edits, two overflows, a checkout, two runs per window | nothing is lost between the parts and the served index catches up, but for a rescan that a re-point displaced (`dropped`) |
| `ControlFailing` | two files, an edit, an overflow, two checkouts, an unreadable HEAD, two failures, an abort, a throw, a reset | no handler waits for a forgotten run; between re-points the poller tracks what is served, until one throws |

Bounds. Each counter named "bound" in a module limits an environment (writes,
stops, deaths, events), not the program. They are chosen so that every hazard
fits: a second kill after the recovery from the first, a change or an overflow
during the rescan of another, a third process for every race of two over a
lockfile, a checkout back while the re-point to the other branch waits, an edit
of the main checkout that its index has and its files no longer show when the
index is copied, a count over the ceiling with a second flush behind it, a
dependent that is reached by two paths of different length. Between
them the runs take every action of every module. `CHECK_DEADLOCK
FALSE` is set where a bounded environment runs out and the system rests.

### Fairness

* `RegistryLock`, `FileLock`: a living process takes its next step (weak). A
  waiter polls with a random sleep between attempts, so it does not miss every
  moment at which the file is free (strong fairness of `Create`).
* `GossipSync`: a CLI process and a socket make progress; time passes; that users
  run `hayven sync` repeatedly is an assumption, as strong fairness of `Begin`:
  the code has no scheduler for it.
* `Overlay`: a refresh that has begun goes on, and somebody reads again what was
  not fresh (weak fairness of the lazy refresh and its steps together): each
  read of a worktree calls `refreshOverlay`, and edits, ingests and deaths are
  bounded, which stands for a worktree that is left alone for long enough.
* `IngestControl`: timers fire and promises settle, so the daemon keeps taking
  steps (weak fairness of all its steps together). Nothing is assumed of users,
  files or git.

## 4. Findings

1. **Overlapping claims** (`ClaimsRace`). `POST /api/claims` looks for an overlap,
   then awaits the oracle for an adjacent claim and registers without looking
   again. `OverlapNeedsWait`, checked in `CheckoutShared` and proved, says that on
   a daemon's own board this await is the only way, unless a peer's claim of the
   same id hid one of the two when the other was registered. Daemons that only
   learn of each other's claims later may of course overlap too, and a peer that
   has two adds but not yet the release between them shows both.
2. **A batch heals a wiped index** (`MarkerBatchHeals`). A rebuild in the daemon
   fails after it cleared the graph; the daemon's handle keeps its token, the
   next successful batch of the watcher begins and ends under it, and an index
   with that batch's rows reads healthy.

Behaviours met while modelling that the properties are worded around. Each was
seen in TLC's counterexample to the property without its exception, or read in
the code where the model leaves the case out (so said).

*Log and locks.* Power loss can reuse a key that peers hold, and so can a clock
stepping back over a restart; a write that fails half way buries later batches;
live sync does not reconcile on reconnect; a publisher that sleeps between its
last look and the rename clobbers; `reclaim` may remove a living process's
lockfile.

*Start and stop.* `startLockIsStale` asks whether a process with the lock's pid lives,
not which: once a killed start's pid is another process's, each start waits out its
budget and fails, with an error that names the file, until that process ends
(lifecycle.ts:321: a killed winner "must not wedge every future start"). `StartHeals`
excepts it, by `Barred`. Of two starts that judge the same dead lock stale the slower
one renames the other's living lock aside, against lifecycle.ts:399 "The winner
of the create is then the sole holder" (three starts, one of them killed; the
bind of the port still stops the second daemon). A SIGTERM before the handlers
are installed kills the child and leaves its pidfile; the next start removes it.
Not in the model: a directory in which nothing can be created while a stale lock
stands in it; the rename fails too, and the lock counts as held (lifecycle.ts:414
and after).

*Marker and control.* A batch purges rows without a mark; a refusal or a batch
may retract an older build's mark; an aborted re-point leaves a token of the
living daemon in a branch index; a re-point that throws leaves the
poller tracking a branch that is not served; a batch whose parse fails is not
tried again. A rescan that is refused because a re-point took the interval is
dropped: when the re-point aborts, but also with nothing failing, when the change
came after the re-point had read the tree (an overflow joins a rescan that woke
behind the running re-point). ARCHITECTURE.md:704 says that an overflow
"responds by triggering a full re-scan". The second way needs two edits, two
overflows and a checkout; it appeared when the proof of `StaleIsComing` did not
go through, and `StaleIsComing` and `CatchesUp` except it by `dropped`.

*Branches and freshness.* Untracked files and tracked files deleted from a
directory below the top are not seen by the probe; an edit during an ingest is
older than `last_ingest_at` and not seen either (`QuietIsRight` excepts both). An
incremental ingest that empties the graph makes the index read as broken until a
full one (`IngestQuiets` excepts it).

*Graph and packs.* The re-resolution pass may link a call whose name an external
import binds to an entity of the repository (edgeResolver.ts:101 says never); imports
of a re-parsed file that point outside the batch stay unresolved; call sites are not
added by re-resolution; a root covered only by tests that are themselves changed has
no fallback (affected_tests.ts:925: "a minimal selector never returns zero tests for a
changed symbol"); class rollup changes the weights of observed tests
(affected_tests.ts:586 calls that tier byte-identical; `NoTestMissed` asks for its
members). A pack can cost more than its file (context_pack.ts:766: "By construction the
returned pack is always `estTokens <= targetFileEstTokens`") in two cases that
`ChangeIsShown` excepts: a file emptied since the index was made counts no tokens,
which `finalizePack` takes for one that cannot be read (:276), so the neighbours of its
stale row are not traded for the file; and where a stale row begins past the end of the
file, the pack is measured against a neighbour's. `selectRungForBudget` hands out an empty
whole-file rung when the files vanish between the reads. The own calls of
an entity that calls itself are counted among its call sites, though it is no
dependent of its own: `ImpactIsExact` leaves such entities out of that count. The
comments at affected_tests.ts:23-28 and :726-730 say that with coverage present no global trace walk is made; the code, later comments of the file
and its tests say otherwise, and the model follows them.

*Overlays.* When a worktree's last indexed file goes, the refresh purges its rows and
`recordNodeWatermark` keeps the higher count (queries.ts:451-459): the overlay reads as
broken, and each later read copies the main index and purges it again (overlay.ts:584
says of "broken" that "a refresh died mid-way"). `FreshAgain` excepts a worktree with
nothing to index; a branch index has the same case.
Three ways to stamp rows that are not known, all in `misled`: a main index that misdescribes itself when copied (edits indexed and then stashed), an
edit made and taken back around the parse, a death between the ingest's commit
and the stamp followed by an edit taken back.

*Traces.* A lost answer makes Bun and Python count twice: what is put back is
drained at a later second, so the overwriting of queries.ts:803 "a re-flush of the
same window" does not apply; where two drains of an edge do fall into one second,
at a stop for example, the second count replaces the first and calls are lost;
one edge over 65535 (count times rate) refuses the whole batch, which Python and
Rust do not clamp and Python drops; Go's and the browser's default senders take
any HTTP status for success; coverage the table did not take is answered 200.

## 5. Theorems

All proofs are for every value of the constants under the modules' `ASSUME`s and the
conditions named here. The assumptions type the constants; beyond that,
`CheckoutAssumption`, `BranchesAssumption` and `OverlayAssumption` say that `None`,
which stands for no lock, pid, file or commit, is none of those things, and
`TreeAssumption` that a file's versions are texts with finitely many calls and imports
and that no file is called `?` (the code's ids of unresolved names begin with it,
those of entities with a path). `FlusherAssumption` says that the rows are finitely
many, that an edge is not a test, and that a batch and a sample rate are not zero.

* **Clock** (`FailureProofs`). `tick` advances, `observe` never goes back, and
  `hydrate` ends at an operation no accepted one exceeds. That a maximum exists
  is by well-founded induction on the naturals, walls first, then counters.
* **Log** (`FailureProofs`). `FaultInv` is inductive whatever fails: what a
  peer was told lies in the synced part ahead of torn bytes, the disk holds
  nothing memory does not, the clock is not behind anything it was let observe.
  It gives `KeptSurvives`, `NothingUnseen` and `WritesDominate` without a
  condition. If no write fails half way, `LogInv` joins it: a running daemon's
  segments are whole and a stopped one's torn at most at the end, so memory is
  the disk; with no power loss either, `AckedSurvives` and every step is one of
  `DurableView` or a stutter (`DurableSpec`).
  `OneOpPerKey` needs more, and each condition is one without which it is false:
  only kills (a restart behind torn or lost bytes rebuilds a lower clock, and
  mints again what a peer has), no clock that steps back, other writers that keep
  their keys apart (`RemoteKeys`), and `SkewHolds`: a write that exhausts a second
  counter in the millisecond at the skew bound lies beyond it, so the next
  start refuses to observe our own operation. `FewKeysUnique` replaces `SkewHolds`
  by a bound on the constants, at most one counter's worth of writes. `KeysInv`:
  our operations in a peer's hands are on our disk, not beyond the bound, and
  the clock of a running daemon is not behind them.
* **Gossip** (`GossipSyncProofs`), unconditional. `SyncInv`: every operation
  held, on a wire or in a batch is held by its author; and a session is held to
  account for its two snapshots at every stage, what it still owes being in its
  list of segments to fetch or to send. `SyncCatchesUp` is its last stage;
  `CopiesSpec` follows because each transfer is from a holder.
* **Registry** (`RegistryLockProofs`), unconditional. `RegistryInv`:
  who owns the lockfile has its token in it, has not lost its lease, and, once it
  has read, knows the registry as it is; who renames holds the file, has warned
  or is blind. `NothingClobbered` and `RegistrationsStay` follow.
* **File lock** (`FileLockProofs`), unconditional. Who is inside owns the file,
  with its token, until a removal takes it from somebody inside; without a death
  and with touching holders every process past `Create` owns it and nobody
  reclaims. `OneAtATime` and `TakenAfterDeath` follow.
* **Claims** (`CheckoutProofs`), unconditional. The adds are the log's adds and
  the tombstones what its removes observed; a board is therefore a function of
  the operations received, and a claim once off a board never returns.
  `OverlapInv` adds that own adds are at home, tags are not reused and a request
  that awaits no oracle found a clear board in the step that registered it;
  `OverlapNeedsWait` follows.
* **Starts** (`CheckoutProofs`), unconditional, for any number of starts, stops
  and deaths. `StartInv` has five parts. `PortIsUp`: the port has a living owner
  and what is called ready was seen on it. `LockIsHeld`: while no start was killed
  in its section or went in without the lock, the start in the section owns the lock and the
  others wait for it. `ChildIsAlone`: who then spawns a child has looked for a
  living daemon under that lock, so there is no other. `AloneFinds`: of a start
  that had nobody beside it, what each of its reads found. `OneDaemon`,
  `StartHeals` (but for `Barred`) and `StoppedIsQuiet` follow; none
  is inductive alone.
* **Branch indexes** (`CheckoutProofs`), unconditional. `BranchInv` says what the
  quiet of the probe stands for. An index that an ingest has completed and none
  has in hands holds its commit's rows, but for files edited during that ingest;
  while nothing is newer than it, its commit is checked out, and files that differ
  from it are ones the probe does not see; what a running ingest has parsed is as
  in the files that have not moved since. `QuietIsRight` and `IngestQuiets` follow.
* **Overlays** (`FailureProofs`), unconditional, for any edits, moves, ingests of
  main and deaths. `FreshIsWorktree` compares mtimes, so `WorktreeInv` says what a
  fingerprint tells of rows (`Tells`): a file that it does not list is its
  commit's, one listed without a time is gone, and while the worktree's file has
  the time that it lists, the file was not written again. `SeenTells` is that of
  the files at the fingerprint of a running refresh, `StampTells` of the rows under
  a stamp; `Amendable` says that an overlay that a refresh may start from lists
  what is not its commit's, wherever the last one died; `Steps`, for each point of
  the refresh, which rows are the worktree's by now and that the mark and the
  withdrawn stamp precede the first purge. Files in `misled` are excepted.
* **Collectors** (`FailureProofs`), unconditional, for any rows, sample rates,
  batches and failures. The totals of the properties are sums over the rows of a
  buffer; a sum does not depend on the row it starts at, changes by what one row
  changes, and is that of any equal family (least number of a set of rows that
  would have two). Hence a drained buffer is the sum of its chunks, however it is
  cut, and what a chunk says on the wire is never above its count. `FlusherInv`
  adds to the properties that the log, the buffer and what is in flight do not
  exceed what was recorded (`LogCovers`) and where, at each point of a stop, that
  which came before it is (`StopInv`). `NothingLost`, `CountedOnce` and
  `StopSendsAll` follow.
* **Index rows** (`GraphIndexProofs`), unconditional, for any texts, versions and
  sequence of ingests. `IndexInv`: the nodes of a file are those of the text it
  was last read with, an edge starts at a node and, if it left its package, its
  text has the import that leads there; a call site has its edge. `RowsAreBuilt`,
  `PackagesNeedWitness` and `RowKeysUnique` (ids are keys) follow. For
  `OccurrencesCounted`, an edge of weight w is w units: folding is one to one
  between a file's occurrences and units (`FoldedUnits`), and a re-resolution
  between the units before it and after it (`ReresolvedUnits`), those of a turned
  edge coming first in the row it is merged into. No sum is needed, and files may
  be infinitely many; a text's calls and imports are finitely many.
* **Marker** (`IngestMarkerProofs`), under `Settled`: no watcher batches, and no
  refusals on an index with an older build's mark (the theorem covers that start
  without refusals, which no run does). `MarkerInv`: for every missing row some
  token is in the marker whose owner is gone, or will put the row back before it
  takes the token away. `HealthyIsWhole` is not inductive without it.
  With batches, under `Undisturbed` (the index began whole, nobody is killed or
  refused, only incremental commands and freshens fail), `QuietInv`: a missing row
  is in the scope of a run that goes on, or a closed handle has left its mark for a
  rebuild. `QuietHealthyIsWhole` follows. A killed, refused or failed batch, a
  failed rebuild and a batch into a new or half-written index each break it.
* **Control** (`IngestControlProofs`), unconditional. `BufferedWillFlush`;
  `TrackerAgrees` until a re-point throws; only the published slot waits, hence
  `OneRunWaits`. `AnswerInv` matches slots and chain one to one, the head's
  slot running and the others chained, the one batch with the handler that
  waits for it: hence `NobodyWaitsForNothing`. `StaleIsComing` is inductive with
  it and two more facts: what a parse missed is noted until it ends, and the chain
  holds only the re-point that the poller claimed, to another branch than the
  served one. The proof follows a stale file from plan to plan: a record is
  buffered, a flush hands it to a batch or a run, a sleeper enters the chain, a
  head that ends leaves only what it missed, which came later and was planned then.

Only model-checked: liveness (`NobodyWedged`, `Converges`, `CatchesUp`, `FreshAgain`),
which with ENABLED is out of the prover's reach; and what walks, folds and packs
compute (`NoTestMissed`, `ImpactIsExact`, `LanesApart`, `ChangeIsShown`, `RungsGrow`:
induction over data, and `GraphReads` uses recursive operators). `QuietHealthyIsWhole`
is checked with everything that may go wrong beside it, and proved under `Undisturbed`
only.

## 6. Not modelled

* Text: parsing (native parser), the id scheme, path mapping and specifier
  resolution (a given table), full-text ranking, summaries, prompts of oracles
  and proxy, wire framing, all formatting.
* I/O around other components: MCP server, stateless HTTP routes, command line,
  models, viewer, installer, migrations (one SQL transaction each).
* Parts of modelled components, each named in `PROJECT.json`: LWW tie-breaks and
  retention of the log; peer addresses and demotion; the Merkle leaf cache;
  registration's naming and pruning rules; reindex; several projects sharing a
  limiter, the watcher child's restarts and shutdown in the ingest control; a torn
  copy of a branch index (`copySqlite` writes in place); a prune during an ingest;
  foreground starts, service units and idle exit; the opt-in imported-symbol
  slices of packs; main checkouts that change commit under an overlay.

What would come next: models of `PeerRegistry` and `MerkleCache`.

## 7. Running

In this directory, with TLC and `tlapm` on the path:

    tlc -workers 2 -config ControlSteady.cfg MCIngestControl.tla
    tlapm IngestControlProofs.tla

Every run takes less than three minutes, every proof a few minutes at most.
