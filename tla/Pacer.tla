--------------------------------- MODULE Pacer ---------------------------------
(***************************************************************************)
(* The pacer of a control loop (control_core/src/pacer.rs): pace sleeps    *)
(* until a deadline that moves on by one period a cycle; a cycle that ends *)
(* past it is an overrun, is tallied for a report, and the timeline starts *)
(* again from there.                                                       *)
(*                                                                         *)
(* The clock may move between any two steps; a sleep, or a task that is    *)
(* ready, may be late by MaxOvershoot.                                     *)
(*                                                                         *)
(* An operator introduced by "Slip" is a wrong version of the one after    *)
(* it; nothing uses it but the runs that show which property would notice. *)
(***************************************************************************)
EXTENDS Integers, Sequences

CONSTANTS
  Periods,                \* of pacers, zero included
  OVERRUN_REPORT_PERIOD,
  MaxOvershoot,           \* how late a sleeper is woken
  MaxTime                 \* bound of the model: the clock

ASSUME PacerAssumption ==
  /\ Periods \subseteq Nat /\ OVERRUN_REPORT_PERIOD \in Nat
  /\ MaxOvershoot \in Nat /\ MaxTime \in Nat

VARIABLES
  clock,       \* Instant::now
  loopAt,      \* of the control loop: none, refused, body, pacing
  period, nextTick, overruns, worstLate, lastReport,  \* Pacer
  started,     \* when the last two cycles started (history)
  anchor,      \* where the timeline began, and the cycles on it (history)
  late         \* by how much the cycles not reported yet were late (history)

pacerVars == <<clock, loopAt, period, nextTick, overruns, worstLate, lastReport,
               started, anchor, late>>

Later(a, b) == IF a >= b THEN a ELSE b

(* Time passes; whoever sleeps is woken in time.                             *)
TimePasses ==
  /\ clock < MaxTime /\ clock' = clock + 1
  /\ loopAt = "pacing" => clock < nextTick + MaxOvershoot
  /\ UNCHANGED <<loopAt, period, nextTick, overruns, worstLate, lastReport, started,
                 anchor, late>>

(* A zero period is an error.  Its task may be late to run the first cycle.  *)
NewPacer(p) ==
  /\ loopAt = "none" /\ period' = p
  /\ loopAt' = IF p = 0 THEN "refused" ELSE "body"
  /\ nextTick' = clock /\ lastReport' = clock
  /\ anchor' = [at |-> clock, cycles |-> 0]
  /\ UNCHANGED <<clock, overruns, worstLate, started, late>>

(* Slip: the timeline goes on where it was.                                  *)
CatchesUp(deadline) == deadline

Reanchored(deadline) == clock

(* pace, up to the sleep.                                                    *)
Schedule ==
  LET deadline == nextTick + period IN
  /\ loopAt = "body" /\ loopAt' = "pacing"
  /\ IF deadline >= clock
     THEN /\ nextTick' = deadline /\ anchor' = [anchor EXCEPT !.cycles = @ + 1]
          /\ UNCHANGED <<overruns, worstLate, late>>
     ELSE /\ nextTick' = Reanchored(deadline) /\ anchor' = [at |-> clock, cycles |-> 0]
          /\ overruns' = overruns + 1
          /\ worstLate' = Later(worstLate, clock - deadline)
          /\ late' = Append(late, clock - deadline)
  /\ UNCHANGED <<clock, period, lastReport, started>>

(* The sleep is over: the report, if it is due, and the next cycle.          *)
NextCycle ==
  LET due == overruns # 0 /\ clock - lastReport >= OVERRUN_REPORT_PERIOD IN
  /\ loopAt = "pacing" /\ clock >= nextTick /\ loopAt' = "body"
  /\ overruns' = IF due THEN 0 ELSE overruns
  /\ worstLate' = IF due THEN 0 ELSE worstLate
  /\ lastReport' = IF due THEN clock ELSE lastReport
  /\ late' = IF due THEN <<>> ELSE late
  /\ started' = [last |-> clock, before |-> started.last]
  /\ UNCHANGED <<clock, period, nextTick, anchor>>

-----------------------------------------------------------------------------
NeverStarted == -1

PacerInit ==
  /\ clock = 0 /\ loopAt = "none" /\ period = 0 /\ nextTick = 0
  /\ overruns = 0 /\ worstLate = 0 /\ lastReport = 0
  /\ started = [last |-> NeverStarted, before |-> NeverStarted]
  /\ anchor = [at |-> 0, cycles |-> 0] /\ late = <<>>

PacerNext == TimePasses \/ Schedule \/ NextCycle \/ \E p \in Periods : NewPacer(p)

PacerSpec == PacerInit /\ [][PacerNext]_pacerVars

-----------------------------------------------------------------------------
(* "The next cycle starts immediately rather than bursting to catch up"      *)
(* (Pacer): two cycles are a period apart, but for what one sleep was late.  *)
NoBurst ==
  started.before # NeverStarted =>
    started.last - started.before >= period - MaxOvershoot

(* "Corrected on the next cycle instead of accumulating": however late the   *)
(* sleeps are, the deadlines since the last overrun are whole periods apart. *)
NoDrift == period # 0 => nextTick = anchor.at + anchor.cycles * period

(* Every overrun is in the tally until it is reported, and the worst of them.*)
Tallied ==
  /\ overruns = Len(late)
  /\ \A i \in DOMAIN late : late[i] > 0 /\ late[i] <= worstLate
  /\ overruns > 0 => \E i \in DOMAIN late : late[i] = worstLate

(* A pacer keeps its pace, whatever the loop's body takes.                   *)
PaceIsKept == NoBurst /\ NoDrift /\ Tallied
=============================================================================
