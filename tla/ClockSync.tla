------------------------------- MODULE ClockSync -------------------------------
(***************************************************************************)
(* The clock of a node (peppylib-rs/src/clock.rs): synchronize with its    *)
(* exchange of four stamps and the saturating arithmetic on them, and the  *)
(* simulated clock, a cell that a task feeds from the clock topic and that *)
(* is zero while there was no tick.                                        *)
(*                                                                         *)
(* The core node's clock is the local one plus skew.  Either may be set    *)
(* while an exchange is under way, and the core node is not trusted to     *)
(* stamp what it reads.                                                    *)
(*                                                                         *)
(* An operator introduced by "Slip" is a wrong version of the one after    *)
(* it; nothing uses it but the runs that show which property would notice. *)
(***************************************************************************)
EXTENDS Integers, Sequences

CONSTANTS
  StampMax,   \* the largest u64
  OffsetMax,  \* the largest i64
  Skews,      \* what the core node's clock is ahead
  TickTimes,  \* times of simulated ticks
  MaxTicks    \* bound of the model: ticks published

ASSUME ClockAssumption ==
  /\ StampMax \in Nat /\ OffsetMax \in Nat /\ MaxTicks \in Nat
  /\ Skews \subseteq Int /\ TickTimes \subseteq 0..StampMax

VARIABLES
  localNow,   \* the local clock, in nanoseconds since the epoch
  skew,       \* of the core node's
  syncAt,     \* idle, asked, received, answered, done, failed
  stamps,     \* t0, t1 and t2 as far as they are there, then t3
  sync,       \* ClockSync: offset and delay
  honest,     \* did nobody set a clock or send a false stamp? (history)
  simCache,   \* the cell of a simulated clock
  simTicks,   \* ticks in its subscription
  ticked,     \* ticks published
  lastTick    \* the last one the feeder took (history)

syncVars  == <<localNow, skew, syncAt, stamps, sync, honest>>
simVars   == <<simCache, simTicks, ticked, lastTick>>
clockVars == <<syncVars, simVars>>

Stamps == 0..StampMax
NoTick == -1
NoSync == [offset |-> 0, delay |-> 0]

(* wall_now_ns; a clock before the epoch is an error.                        *)
Reads(now) == now \in Stamps

(* The division of integers in Rust rounds towards zero.                     *)
HalfOf(n) == IF n >= 0 THEN n \div 2 ELSE -((-n) \div 2)

(* Slip: the narrowing wraps.                                                *)
Wrapped(n, low, high) == low + ((n - low) % (high - low + 1))

Saturated(n, low, high) == IF n < low THEN low ELSE IF n > high THEN high ELSE n

ComputeSync(t0, t1, t2, t3) ==
  [offset |-> Saturated(HalfOf((t1 - t0) + (t2 - t3)), -OffsetMax - 1, OffsetMax),
   delay  |-> Saturated((t3 - t0) - (t2 - t1), 0, StampMax)]

-----------------------------------------------------------------------------
Stamp(t, at) ==
  /\ stamps' = Append(stamps, t) /\ syncAt' = at
  /\ UNCHANGED <<localNow, skew, honest, sync, simVars>>

SendClockRequest ==
  /\ syncAt = "idle" /\ ticked = 0 /\ Reads(localNow) /\ Stamp(localNow, "asked")

(* The core node (external) stamps a request as it comes and as it goes.     *)
CoreReceives ==
  /\ syncAt = "asked" /\ Reads(localNow + skew) /\ Stamp(localNow + skew, "received")

CoreAnswers ==
  /\ syncAt = "received" /\ Reads(localNow + skew) /\ Stamp(localNow + skew, "answered")

CoreInvents ==
  /\ syncAt \in {"asked", "received"} /\ honest' = FALSE
  /\ \E t1, t2 \in Stamps : stamps' = <<stamps[1], t1, t2>>
  /\ syncAt' = "answered" /\ UNCHANGED <<localNow, skew, sync, simVars>>

SyncDone ==
  /\ syncAt = "answered" /\ Reads(localNow) /\ syncAt' = "done"
  /\ stamps' = Append(stamps, localNow)
  /\ sync' = ComputeSync(stamps[1], stamps[2], stamps[3], localNow)
  /\ UNCHANGED <<localNow, skew, honest, simVars>>

(* poll_clock fails or times out, or a clock cannot be read.                 *)
SyncFails ==
  /\ syncAt \in {"idle", "asked", "received", "answered"} /\ syncAt' = "failed"
  /\ UNCHANGED <<localNow, skew, stamps, sync, honest, simVars>>

Elapse ==
  /\ syncAt \in {"asked", "received", "answered"}
  /\ Reads(localNow + 1) /\ localNow' = localNow + 1
  /\ UNCHANGED <<skew, syncAt, stamps, sync, honest, simVars>>

(* Once in an exchange.                                                      *)
SetClock ==
  /\ syncAt \in {"asked", "received", "answered"} /\ honest /\ honest' = FALSE
  /\ localNow' \in {0, StampMax} /\ skew' = skew + localNow - localNow'
  /\ UNCHANGED <<syncAt, stamps, sync, simVars>>

-----------------------------------------------------------------------------
(* The simulated clock.  It shares nothing with the exchange, so a behaviour *)
(* has one or the other.                                                     *)

SimAlone == syncAt = "idle" /\ UNCHANGED syncVars

PublishTick(time) ==
  /\ SimAlone /\ ticked < MaxTicks /\ ticked' = ticked + 1
  /\ simTicks' = Append(simTicks, time) /\ UNCHANGED <<simCache, lastTick>>

(* Slip: a literal zero is stored.                                           *)
AsTold(time) == time

Stored(time) == IF time = 0 THEN 1 ELSE time

(* The feeder of for_node; a payload it cannot decode is skipped.            *)
FeedTick ==
  /\ SimAlone /\ simTicks # <<>> /\ simTicks' = Tail(simTicks)
  /\ \/ simCache' = Stored(Head(simTicks)) /\ lastTick' = Head(simTicks)
     \/ UNCHANGED <<simCache, lastTick>>
  /\ UNCHANGED ticked

ClockNotReady == NoTick

(* PeppyClock::now_ns.                                                       *)
NowNs == IF simCache = 0 THEN ClockNotReady ELSE simCache

-----------------------------------------------------------------------------
ClockInit ==
  /\ localNow \in Stamps /\ skew \in Skews /\ syncAt = "idle"
  /\ stamps = <<>> /\ sync = NoSync /\ honest = TRUE
  /\ simCache = 0 /\ simTicks = <<>> /\ ticked = 0 /\ lastTick = NoTick

Synchronize ==
  \/ SendClockRequest \/ CoreReceives \/ CoreAnswers \/ CoreInvents
  \/ SyncDone \/ SyncFails \/ Elapse \/ SetClock

ClockNext == Synchronize \/ FeedTick \/ \E time \in TickTimes : PublishTick(time)

ClockSpec == ClockInit /\ [][ClockNext]_clockVars

-----------------------------------------------------------------------------
Distance(a, b) == IF a >= b THEN a - b ELSE b - a

(* "local + offset_ns = core_node", about (ClockSync): with clocks nobody    *)
(* sets and true stamps the error is at most half of the delay, and what     *)
(* rounding adds, as long as i64 holds the offset.                           *)
OffsetIsClose ==
  syncAt = "done" /\ honest /\ skew \in (-OffsetMax - 1)..OffsetMax =>
    2 * Distance(sync.offset, skew) <= sync.delay + 1

(* "A misbehaving server could otherwise flip signs" (compute_sync): the     *)
(* offset is on the side the stamps are, and a delay is never made up.       *)
SignIsKept ==
  syncAt = "done" =>
    LET ahead == (stamps[2] - stamps[1]) + (stamps[3] - stamps[4])
    IN  /\ ahead > 1 => sync.offset > 0 \/ OffsetMax = 0
        /\ ahead < -1 => sync.offset < 0
        /\ sync.delay > 0 => stamps[4] - stamps[1] > stamps[3] - stamps[2]

(* A simulated clock is ready from its first tick on, one at zero included,  *)
(* and tells its last one.                                                   *)
SimTellsLastTick ==
  /\ (NowNs = ClockNotReady) = (lastTick = NoTick)
  /\ lastTick > 0 => NowNs = lastTick

(* A node's clock tells the truth, as far as it is told the truth.           *)
ClockIsTrue == OffsetIsClose /\ SignIsKept /\ SimTellsLastTick
=============================================================================
