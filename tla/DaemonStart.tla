------------------------------ MODULE DaemonStart ------------------------------
(***************************************************************************)
(* `hayven daemon start' and `stop' from one repository, several at once   *)
(* (cli/daemon.ts, daemon/lifecycle.ts, daemon/detach.ts): the start lock, *)
(* the probe of the address, the pidfile with its sidecar, the detached    *)
(* child that claims the one and binds the other.  Anybody may be killed,  *)
(* and the pid of a process that was may come back as another's.  The lock *)
(* may be impossible to create, but one that stands can be moved aside.    *)
(*                                                                         *)
(* A process is its pid, numbered as they come up; what it was, and        *)
(* whether the pid is another's by now, is its status (a child's) or its   *)
(* pc (a start's).  `ps' and `lsof' answer.                                *)
(***************************************************************************)
EXTENDS Naturals

CONSTANTS
  MaxStarts,              \* starts, each of which spawns a child at most
  MaxStops, MaxKills, MaxSlow, MaxRecycled,    \* bounds
  None

VARIABLES
  lock,                   \* None, or the start lock: whose, and not yet stamped?
  pc, child, result,      \* each start: where it is, what it spawned, how it ended
  status, term,           \* each child; the ones with a SIGTERM to handle
  port,                   \* who listens at the address
  pidfile, side, owned,   \* the pidfile, its sidecar, who claimed it
  stop, pid,              \* the stop command: where it is, the pid it is about
  kills, slow, stops, recycled,
  bare,                   \* history: a start was killed, or went on without the lock
  late, alone             \* history: one gave up on its child; had nobody beside it
start == <<lock, pc, child, result>>
files == <<pidfile, side, owned>>
stopping == <<stop, pid, stops>>
history == <<bare, late, alone>>
bounds == <<kills, slow, recycled>>
vars == <<start, status, term, port, files, stopping, history, bounds>>

Starters == 1..MaxStarts
Daemons == 1..MaxStarts

Starting == {"check", "load", "claim", "side", "bind"}
Living == Starting \cup {"up", "drain"}
Alive(d) == status[d] \in Living \cup {"other"}
Inside == {"probe", "judge", "spawn", "wait"}

TypeOK ==
  /\ lock \in {None} \cup [by : Starters, blank : BOOLEAN]
  /\ pc \in [Starters -> Inside \cup
       {"idle", "try", "loser", "break", "stamp", "release", "dead", "other"}]
  /\ result \in [Starters -> {None, "up", "failed"}]
  /\ status \in [Daemons -> Living \cup {"none", "dead", "other"}] /\ term \subseteq Daemons
  /\ {port, pidfile, side, pid} \cup {child[p] : p \in Starters} \subseteq Daemons \cup {None}
  /\ owned \subseteq Daemons

Init ==
  /\ lock = None /\ pc = [p \in Starters |-> "idle"] /\ child = [p \in Starters |-> None]
  /\ result = [p \in Starters |-> None] /\ status = [d \in Daemons |-> "none"] /\ term = {}
  /\ port = None /\ pidfile = None /\ side = None /\ owned = {}
  /\ stop = "idle" /\ pid = None /\ stops = 0 /\ kills = 0 /\ slow = 0 /\ recycled = 0
  /\ bare = FALSE /\ late = FALSE /\ alone = [p \in Starters |-> FALSE]

-----------------------------------------------------------------------------
\* verifyDaemonIdentity and daemonStatus; the sidecar of another pid proves nothing.
Verdict(d) == IF side # d THEN "unknown" ELSE IF status[d] = "other" THEN "foreign" ELSE "ours"
DaemonStatus ==
  IF pidfile = None THEN "stopped"
  ELSE IF ~Alive(pidfile) \/ Verdict(pidfile) = "foreign" THEN "stale"
  ELSE "running"
RemovePidFile == pidfile' = None /\ side' = None
Answers == port # None

\* startLockIsStale: nobody has the pid in the lock, be it the one who wrote it or
\* another; an unstamped lock is left alone for longer than a stamp takes.
Stale == pc[lock.by] \in IF lock.blank THEN {"idle", "dead", "other"} ELSE {"idle", "dead"}

\* Who acts beside a start takes its solitude away.
Beside(p) == alone' = [q \in Starters |-> alone[q] /\ q = p]
To(p, there) == pc' = [pc EXCEPT ![p] = there]

Fresh(p) == pc[p] = "idle" /\ result[p] = None
Begin(p) ==
  /\ Fresh(p) /\ (\A q \in Starters : q < p => ~Fresh(q)) /\ To(p, "try")
  /\ LET nobody == /\ \A q \in Starters : pc[q] \in {"idle", "dead", "other"}
                   /\ \A d \in Daemons : status[d] \notin Living
                   /\ stop = "idle"
     IN  alone' = [q \in Starters |-> q = p /\ nobody]
  /\ UNCHANGED <<lock, child, result, status, term, port, files, stopping, bare, late, bounds>>

\* tryAcquireStartLock: created, held or stale, or unavailable.
Try(p) ==
  /\ pc[p] = "try"
  /\ \/ lock = None /\ lock' = [by |-> p, blank |-> TRUE] /\ To(p, "stamp") /\ UNCHANGED bare
     \/ lock = None /\ UNCHANGED lock /\ To(p, "probe") /\ bare' = TRUE
     \/ lock # None /\ UNCHANGED <<lock, bare>> /\ To(p, IF Stale THEN "break" ELSE "loser")
  /\ Beside(p) /\ UNCHANGED <<child, result, status, term, port, files, stopping, late, bounds>>

\* The pid goes into the file that was created, even if it was moved aside since.
Stamp(p) ==
  /\ pc[p] = "stamp" /\ To(p, "probe")
  /\ lock' = IF lock # None /\ lock.by = p THEN [by |-> p, blank |-> FALSE] ELSE lock
  /\ Beside(p) /\ UNCHANGED <<child, result, status, term, port, files, stopping, bare, late, bounds>>

\* The rename moves aside whatever has the name by now.
Break(p) ==
  /\ pc[p] = "break" /\ lock' = None /\ To(p, "try")
  /\ Beside(p) /\ UNCHANGED <<child, result, status, term, port, files, stopping, bare, late, bounds>>

\* releaseStartLock.
Release(p) == lock' = IF lock # None /\ lock.by = p /\ ~lock.blank THEN None ELSE lock
Ends(p, how) == result' = [result EXCEPT ![p] = how]

\* A loser looks whether the winner's daemon is there, and waits only so long.
Lose(p) ==
  /\ pc[p] = "loser"
  /\ \/ Answers /\ Ends(p, "up") /\ To(p, "idle")
     \/ ~Answers /\ UNCHANGED result /\ To(p, "try")
     \/ ~Answers /\ lock # None /\ Ends(p, "failed") /\ To(p, "idle")
  /\ Beside(p) /\ UNCHANGED <<lock, child, status, term, port, files, stopping, bare, late, bounds>>

Probe(p) ==
  /\ pc[p] = "probe"
  /\ IF Answers THEN Ends(p, "up") /\ To(p, "release") ELSE UNCHANGED result /\ To(p, "judge")
  /\ Beside(p) /\ UNCHANGED <<lock, child, status, term, port, files, stopping, bare, late, bounds>>

\* Slip: whatever the pidfile says is running, is.
RefusesRunning == DaemonStatus = "running"

\* Only a pidfile that provably is a daemon's stops a start.
Refuses == DaemonStatus = "running" /\ Verdict(pidfile) = "ours"
Judge(p) ==
  /\ pc[p] = "judge"
  /\ IF Refuses
     THEN Ends(p, "failed") /\ To(p, "release") /\ UNCHANGED <<pidfile, side>>
     ELSE /\ UNCHANGED result /\ To(p, "spawn")
          /\ IF pidfile = None THEN UNCHANGED <<pidfile, side>> ELSE RemovePidFile
  /\ Beside(p) /\ UNCHANGED <<lock, child, status, term, port, owned, stopping, bare, late, bounds>>
Spawn(p) ==
  /\ pc[p] = "spawn"
  /\ \E d \in Daemons :
       /\ status[d] = "none" /\ \A e \in Daemons : e < d => status[e] # "none"
       /\ status' = [status EXCEPT ![d] = "check"] /\ child' = [child EXCEPT ![p] = d]
  /\ To(p, "wait")
  /\ Beside(p) /\ UNCHANGED <<lock, result, term, port, files, stopping, bare, late, bounds>>

\* Slip: the wait for the child's health is not part of the section.
NotWaiting(p) ==
  /\ pc[p] = "wait" /\ Ends(p, "up") /\ To(p, "release")
  /\ Beside(p) /\ UNCHANGED <<lock, child, status, term, port, files, stopping, bare, late, bounds>>

\* waitForDaemon: the address answers, the child is gone, or time is up.
Wait(p) ==
  /\ pc[p] = "wait"
  /\ \/ Answers /\ Ends(p, "up") /\ UNCHANGED <<late, slow>>
     \/ ~Answers /\ status[child[p]] \notin Living /\ Ends(p, "failed") /\ UNCHANGED <<late, slow>>
     \/ /\ ~Answers /\ status[child[p]] \in Living /\ slow < MaxSlow
        /\ Ends(p, "failed") /\ late' = TRUE /\ slow' = slow + 1
  /\ To(p, "release")
  /\ Beside(p) /\ UNCHANGED <<lock, child, status, term, port, files, stopping, bare, kills, recycled>>
Leave(p) ==
  /\ pc[p] = "release" /\ Release(p) /\ To(p, "idle")
  /\ Beside(p) /\ UNCHANGED <<child, result, status, term, port, files, stopping, bare, late, bounds>>

-----------------------------------------------------------------------------
\* The child: `daemon start --foreground'.
Becomes(d, what) == status' = [status EXCEPT ![d] = what]
OfChild(d) == alone' = [q \in Starters |-> alone[q] /\ child[q] = d]
Check(d) ==
  /\ status[d] = "check"
  /\ Becomes(d, IF DaemonStatus = "running" THEN "dead" ELSE "load")
  /\ IF DaemonStatus = "stale" THEN RemovePidFile ELSE UNCHANGED <<pidfile, side>>
  /\ OfChild(d) /\ UNCHANGED <<start, term, port, owned, stopping, bare, late, bounds>>
Load(d) ==
  /\ status[d] = "load" /\ Becomes(d, "claim")
  /\ OfChild(d) /\ UNCHANGED <<start, term, port, files, stopping, bare, late, bounds>>

\* claimPidFile: the pidfile, then its sidecar.
Claim(d) ==
  /\ status[d] = "claim"
  /\ IF DaemonStatus = "running" /\ pidfile # d
     THEN Becomes(d, "bind") /\ UNCHANGED <<pidfile, owned>>
     ELSE Becomes(d, "side") /\ pidfile' = d /\ owned' = owned \cup {d}
  /\ OfChild(d) /\ UNCHANGED <<start, term, port, side, stopping, bare, late, bounds>>
WriteSide(d) ==
  /\ status[d] = "side" /\ side' = d /\ Becomes(d, "bind")
  /\ OfChild(d) /\ UNCHANGED <<start, term, port, pidfile, owned, stopping, bare, late, bounds>>

\* Who finds the address taken withdraws the pidfile it claimed, by name.
Bind(d) ==
  /\ status[d] = "bind"
  /\ IF port = None
     THEN port' = d /\ Becomes(d, "up") /\ UNCHANGED <<pidfile, side>>
     ELSE /\ Becomes(d, "dead") /\ UNCHANGED port
          /\ IF d \in owned THEN RemovePidFile ELSE UNCHANGED <<pidfile, side>>
  /\ OfChild(d) /\ UNCHANGED <<start, term, owned, stopping, bare, late, bounds>>

\* It goes on answering while it drains; the pidfiles are removed before it exits.
Drain(d) ==
  /\ status[d] = "up" /\ d \in term /\ Becomes(d, "drain")
  /\ OfChild(d) /\ UNCHANGED <<start, term, port, files, stopping, bare, late, bounds>>
Exit(d) ==
  /\ status[d] = "drain" /\ Becomes(d, "dead") /\ RemovePidFile /\ port' = None
  /\ OfChild(d) /\ UNCHANGED <<start, term, owned, stopping, bare, late, bounds>>

-----------------------------------------------------------------------------
\* SIGTERM; there is no handler before the pidfile is claimed.
Signal(d) ==
  IF status[d] \in {"bind", "up", "drain"} THEN term' = term \cup {d} /\ UNCHANGED status
  ELSE Becomes(d, "dead") /\ UNCHANGED term
Stops == alone' = [q \in Starters |-> FALSE]
StopReads ==
  /\ stop = "idle" /\ stops < MaxStops /\ stops' = stops + 1 /\ pid' = pidfile
  /\ stop' = IF pidfile = None THEN "orphan" ELSE "judge"
  /\ Stops /\ UNCHANGED <<start, status, term, port, files, bare, late, bounds>>
StopJudges ==
  /\ stop = "judge"
  /\ IF ~Alive(pid) \/ Verdict(pid) = "foreign"
     THEN stop' = "orphan" /\ RemovePidFile /\ UNCHANGED <<status, term>>
     ELSE stop' = "await" /\ Signal(pid) /\ UNCHANGED <<pidfile, side>>
  /\ Stops /\ UNCHANGED <<start, port, owned, pid, stops, bare, late, bounds>>

\* Slip: the death of the pid is the end of it.
OverOnceDead == "stopped"

\* The pid is gone, but is the address quiet?
OnceDead == "orphan"
StopWaits ==
  /\ stop = "await" /\ ~Alive(pid) /\ stop' = OnceDead
  /\ Stops /\ UNCHANGED <<start, status, term, port, files, pid, stops, bare, late, bounds>>

\* probeForOrphan and stopOrphanDaemon: who answers names its pid, and is waited for.
StopProbes ==
  /\ stop \in {"orphan", "sweep"}
  /\ \/ stop = "orphan" /\ Answers /\ pid' = port /\ Signal(port) /\ stop' = "swept"
     \/ ~Answers /\ stop' = "stopped" /\ UNCHANGED <<pid, status, term>>
     \/ stop = "sweep" /\ Answers /\ stop' = "idle" /\ UNCHANGED <<pid, status, term>>
  /\ Stops /\ UNCHANGED <<start, port, files, stops, bare, late, bounds>>
StopSweeps ==
  /\ stop = "swept" /\ ~Alive(pid) /\ stop' = "sweep"
  /\ Stops /\ UNCHANGED <<start, status, term, port, files, pid, stops, bare, late, bounds>>
StopEnds ==
  /\ stop = "stopped" /\ stop' = "idle"
  /\ Stops /\ UNCHANGED <<start, status, term, port, files, pid, stops, bare, late, bounds>>

\* STOP_WAIT_MS is over.
StopGivesUp ==
  /\ stop \in {"await", "swept"} /\ Alive(pid) /\ stop' = "idle"
  /\ Stops /\ UNCHANGED <<start, status, term, port, files, pid, stops, bare, late, bounds>>

-----------------------------------------------------------------------------
KillStart(p) ==
  /\ pc[p] \notin {"idle", "dead", "other"} /\ kills < MaxKills /\ kills' = kills + 1
  /\ To(p, "dead") /\ bare' = TRUE /\ alone' = [alone EXCEPT ![p] = FALSE]
  /\ UNCHANGED <<lock, child, result, status, term, port, files, stopping, late, slow, recycled>>
KillDaemon(d) ==
  /\ status[d] \in Living /\ kills < MaxKills /\ kills' = kills + 1
  /\ Becomes(d, "dead") /\ port' = IF port = d THEN None ELSE port
  /\ Stops /\ UNCHANGED <<start, term, files, stopping, bare, late, slow, recycled>>
RecycleStart(p) ==
  /\ pc[p] = "dead" /\ recycled < MaxRecycled /\ recycled' = recycled + 1 /\ To(p, "other")
  /\ UNCHANGED <<lock, child, result, status, term, port, files, stopping, history, kills, slow>>
Recycle(d) ==
  /\ status[d] = "dead" /\ recycled < MaxRecycled /\ recycled' = recycled + 1
  /\ Becomes(d, "other") /\ term' = term \ {d}
  /\ UNCHANGED <<start, port, files, stopping, history, kills, slow>>

Command(p) ==
  \/ Begin(p) \/ Try(p) \/ Stamp(p) \/ Break(p) \/ Lose(p) \/ Probe(p) \/ Judge(p)
  \/ Spawn(p) \/ Wait(p) \/ Leave(p) \/ KillStart(p) \/ RecycleStart(p)
Child(d) ==
  \/ Check(d) \/ Load(d) \/ Claim(d) \/ WriteSide(d) \/ Bind(d) \/ Drain(d) \/ Exit(d)
  \/ KillDaemon(d) \/ Recycle(d)
Stopper ==
  \/ StopReads \/ StopJudges \/ StopWaits \/ StopProbes \/ StopSweeps \/ StopEnds \/ StopGivesUp
Next == (\E p \in Starters : Command(p)) \/ (\E d \in Daemons : Child(d)) \/ Stopper
Spec == Init /\ [][Next]_vars

-----------------------------------------------------------------------------
(***************************************************************************)
(* One daemon at a time: however many starts there are at once, with stops *)
(* and crashes of daemons between, no second child is alive, loading or    *)
(* serving, beside the first (startDetachedDaemon, tryAcquireStartLock):   *)
(* unless a start was killed in the section, whose lock two others can     *)
(* then break one after the other, could not create the lock and went on,  *)
(* or gave up on a child that was slow.                                    *)
(***************************************************************************)
OneDaemon ==
  bare \/ late \/ \A d, e \in Daemons : {status[d], status[e]} \subseteq Living => d = e

\* The pid stamped into the lock of a start that was killed is another process's.
Barred == lock # None /\ ~lock.blank /\ pc[lock.by] = "other"

(***************************************************************************)
(* A start that nobody disturbs brings a daemon up, over any debris but    *)
(* one: the lock of a start that died, stamped or not; a pidfile of a dead *)
(* daemon, of one whose pid is another process's now, with its sidecar or  *)
(* without (lifecycle.ts, the self-heal in startDetachedUnderLock).  The   *)
(* lock's pid, unlike the pidfile's, is not checked for who has it: one    *)
(* that was given away bars the start (startLockIsStale), though           *)
(* lifecycle.ts says that a killed winner "must not wedge every future     *)
(* start".                                                                 *)
(***************************************************************************)
StartHeals == \A p \in Starters : alone[p] /\ result[p] = "failed" => late \/ Barred

(***************************************************************************)
(* A stop that says so has left nothing answering at the address, whoever  *)
(* the pidfile named: a daemon without a pidfile, or a second one, is      *)
(* stopped too (stopDaemon, concludeStopNotRunning), short of a child that *)
(* binds the address only then.                                            *)
(***************************************************************************)
StoppedIsQuiet ==
  [][stop # "stopped" /\ stop' = "stopped" => ~\E d \in Daemons : status[d] \in {"up", "drain"}]_vars
=============================================================================
