-------------------------------- MODULE Hlc --------------------------------
(***************************************************************************)
(* Hybrid logical clock values and the two pure steps of HlcGenerator      *)
(* (daemon/src/crdt/hlc.ts): what tick() returns and what observe()        *)
(* adopts, as functions of the generator's `last` and the physical clock.  *)
(* Writers are small integers: the code compares 16-byte ids in unsigned   *)
(* big-endian order, and only that order is used.                          *)
(***************************************************************************)
EXTENDS Integers

CONSTANTS
  CounterMax,   \* COUNTER_MAX, 0xffff in the code
  MaxSkew       \* MAX_OBSERVED_SKEW_MS, 24 h in the code

ASSUME CounterMaxAssumption == CounterMax \in Nat \ {0}
ASSUME MaxSkewAssumption == MaxSkew \in Nat

Hlcs == [wall : Nat, counter : 0..CounterMax]

\* The seed a generator starts from when the process starts.
ZeroHlc == [wall |-> 0, counter |-> 0]

\* compareHlc(a, b) = -1
HlcLess(a, b) ==
  \/ a.wall < b.wall
  \/ a.wall = b.wall /\ a.counter < b.counter

(***************************************************************************)
(* tick(): the wall clock when it is ahead, else the next counter, else    *)
(* (counter exhausted) the next logical millisecond.                       *)
(***************************************************************************)
TickFrom(last, now) ==
  IF now > last.wall THEN [wall |-> now, counter |-> 0]
  ELSE IF last.counter >= CounterMax THEN [wall |-> last.wall + 1, counter |-> 0]
  ELSE [wall |-> last.wall, counter |-> last.counter + 1]

\* The skew bound is taken from the physical clock, never from `last`.
Refused(remote, now) == remote.wall > now + MaxSkew

\* A slip: the clock never moves on what it sees.
ObserveNothing(last, remote, now) == last

\* observe(remote): max(last, remote) unless the skew bound refuses it.
ObserveFrom(last, remote, now) ==
  IF ~Refused(remote, now) /\ HlcLess(last, remote) THEN remote ELSE last

\* A slip: hydrate fills the sets and forgets the clock.
ReplayNothing(hlcs, now) == ZeroHlc

(***************************************************************************)
(* hydrate(): the generator starts at the seed and observes every op that  *)
(* was read back, so it ends at the greatest one the bound accepts.        *)
(***************************************************************************)
ReplayFrom(hlcs, now) ==
  LET accepted == {h \in hlcs : ~Refused(h, now)} \union {ZeroHlc}
  IN  CHOOSE m \in accepted : \A h \in accepted : ~HlcLess(m, h)

=============================================================================
