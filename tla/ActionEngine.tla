---------------------------- MODULE ActionEngine ----------------------------
(***************************************************************************)
(* The concurrent action server of peppylib                                *)
(* (peppylib-rs/src/messaging/actions.rs, "Concurrent-action engine").     *)
(*                                                                         *)
(* Four tasks share a registry of goal slots, a map of result polls that   *)
(* arrived before their goal was accepted, and a bounded list of           *)
(* tombstones of evicted goals:                                            *)
(*   - the user's task of each goal: PendingGoal::accept / reject, then    *)
(*     GoalContext::complete / complete_cancelled / Drop;                  *)
(*   - run_result_loop, run_cancel_loop and run_retention_sweeper.         *)
(* One action is one critical section, or one await point: whatever the    *)
(* code does under a single lock is one step, and every other task may run *)
(* between two of them.                                                    *)
(*                                                                         *)
(* Time is abstract: CloseWindow is the passing of a slot's evict_at and   *)
(* PassDeadline that of a parked poll's deadline.  A poll is the           *)
(* ServiceResponder of one result request; goal ids are never reused (the  *)
(* clients draw them from UUIDs).                                          *)
(*                                                                         *)
(* An operator introduced by "Slip" is a wrong version of the one after    *)
(* it; nothing uses it but the runs that show which property would notice. *)
(***************************************************************************)
EXTENDS Naturals, FiniteSets, Sequences

CONSTANTS
  Goals,         \* goal ids
  Polls,         \* result requests (the responders the result loop owns)
  Cancels,       \* cancel requests
  PendingCap,    \* PENDING_WAITERS_CAP
  TombstoneCap,  \* EXPIRED_TOMBSTONE_CAP
  HasFeedback,   \* does the action declare a feedback topic?
  DropsFutures   \* may the caller drop an `accept` or `complete` future half way?

ASSUME EngineAssumption ==
  /\ IsFiniteSet(Polls)
  /\ PendingCap \in Nat
  /\ TombstoneCap \in Nat \ {0}
  /\ HasFeedback \in BOOLEAN
  /\ DropsFutures \in BOOLEAN
  /\ Goals \cap {"malformed", "none"} = {}
  /\ "none" \notin Polls \cup Cancels
  /\ Polls \cap Cancels = {}

VARIABLES
  up,           \* the ConcurrentAction has not been dropped
  registry,     \* goals with a slot in the GoalRegistry
  early,        \* PendingWaiters: polls parked before their goal was accepted
  overdue,      \* the polls in `early` whose deadline has passed
  tombstones,   \* ExpiredTombstones.order (the set is its range)
  stage,        \* progress of each goal's PendingGoal / GoalContext
  adopting,     \* polls `accept` took out of `early`, not in the slot yet
  slot,         \* GoalState of each slot ("none" before accept creates it)
  waiters,      \* GoalState::Pending.waiters of each slot
  terminal,     \* GoalSlot.terminal, the race guard
  cancelled,    \* GoalSlot.cancel
  outcome,      \* GoalOutcome of the transition that won
  window,       \* is evict_at still in the future?
  delivery,     \* progress of the transition that won
  drain,        \* waiters that transition took out and has still to answer
  sentinels,    \* end-of-stream messages published on the goal's feedback
  target,       \* goal id in each poll / cancel payload
  poll,         \* where the responder of each poll is, or how it was consumed
  ack,          \* the answer of each cancel
  informed,     \* requests their client sent after it saw the goal accepted
  resultLoop,   \* [pc, poll, reply] of run_result_loop
  cancelLoop,   \* [pc, cancel, reply] of run_cancel_loop
  sweeper       \* [pc, expired] of run_retention_sweeper

slotVars   == <<slot, waiters, terminal, cancelled, outcome, window>>
workVars   == <<delivery, drain, sentinels>>
clientVars == <<target, ack, informed>>
sharedVars == <<registry, early, overdue, tombstones>>
loopVars   == <<resultLoop, cancelLoop, sweeper>>
vars == <<up, sharedVars, stage, adopting, slotVars, workVars, clientVars,
          poll, loopVars>>

None == "none"

Outcomes     == {"Completed", "Cancelled", "Abandoned"}
CancelStates == {"Signalled", "AlreadyTerminal", "Unknown"}
Requests     == Polls \cup Cancels

(* A responder is consumed by one answer, or dropped: the client's stream    *)
(* closes and it falls back to its own timeout.                              *)
Answers  == Outcomes \cup {"Expired", "malformed"}
Consumed == Answers \cup {"dropped"}

Stages   == {"absent", "received", "registered", "adopting", "replying",
             "failing", "failed", "rejected", "running", "dropped", "leaked"}
Accepting == {"registered", "adopting", "replying", "failing"}

Tombstoned(g) == \E i \in DOMAIN tombstones : tombstones[i] = g

(* Slip: the cap is never enforced.                                          *)
EntombUncapped(order, g) ==
  IF \E i \in DOMAIN order : order[i] = g THEN order ELSE Append(order, g)

(* ExpiredTombstones::insert: a known id is ignored, the oldest ones leave   *)
(* once the cap is reached.                                                  *)
Entomb(order, g) ==
  IF \E i \in DOMAIN order : order[i] = g
  THEN order
  ELSE Append(IF Len(order) >= TombstoneCap THEN Tail(order) ELSE order, g)

-----------------------------------------------------------------------------
(* Clients                                                                   *)

(* The client has received the goal's accept reply.                          *)
Announced(g) == stage[g] \in {"running", "dropped"}

SendPoll(p) ==
  /\ up /\ poll[p] = "idle"
  /\ poll' = [poll EXCEPT ![p] = "queued"]
  /\ \E g \in Goals \cup {"malformed"} :
       /\ target' = [target EXCEPT ![p] = g]
       /\ informed' = IF g \in Goals /\ Announced(g) THEN informed \cup {p}
                                                     ELSE informed
  /\ UNCHANGED <<up, sharedVars, stage, adopting, slotVars, workVars, ack,
                 loopVars>>

SendCancel(c) ==
  /\ up /\ target[c] = None
  /\ \E g \in Goals \cup {"malformed"} :
       /\ target' = [target EXCEPT ![c] = g]
       /\ informed' = IF g \in Goals /\ Announced(g) THEN informed \cup {c}
                                                     ELSE informed
  /\ UNCHANGED <<up, sharedVars, stage, adopting, slotVars, workVars, poll,
                 ack, loopVars>>

-----------------------------------------------------------------------------
(* The goal's own task: recv_next_goal, PendingGoal, GoalContext             *)

At(g, from, to) == stage[g] = from /\ stage' = [stage EXCEPT ![g] = to]

RecvNextGoal(g) ==
  /\ up /\ At(g, "absent", "received")
  /\ UNCHANGED <<up, sharedVars, adopting, slotVars, workVars, clientVars,
                 poll, loopVars>>

Reject(g) ==
  /\ At(g, "received", "rejected")
  /\ UNCHANGED <<up, sharedVars, adopting, slotVars, workVars, clientVars,
                 poll, loopVars>>

(* Slip: the slot is created but not registered.                             *)
AcceptRegisterForgets(g) ==
  /\ At(g, "received", "registered")
  /\ slot' = [slot EXCEPT ![g] = "pending"]
  /\ UNCHANGED <<up, sharedVars, adopting, waiters, terminal, cancelled,
                 outcome, window, workVars, clientVars, poll, loopVars>>

(* accept: a fresh slot enters the registry.                                 *)
AcceptRegister(g) ==
  /\ At(g, "received", "registered")
  /\ registry' = registry \cup {g}
  /\ slot' = [slot EXCEPT ![g] = "pending"]
  /\ UNCHANGED <<up, early, overdue, tombstones, adopting, waiters, terminal,
                 cancelled, outcome, window, workVars, clientVars, poll,
                 loopVars>>

(* The result loop holds the pending_waiters lock from its second look at    *)
(* the registry to the end of its decision.                                  *)
EarlyLocked == resultLoop.pc = "park"

(* Slip: a poll taken out leaves its deadline behind.                        *)
LeaveEarlyUndated(polls) == early' = early \ polls /\ UNCHANGED overdue

(* Slip: the polls are copied, not taken out.                                *)
LeaveEarlyCopied(polls) == UNCHANGED <<early, overdue>>

(* Polls leave PendingWaiters, and their deadlines with them.                *)
LeaveEarly(polls) == early' = early \ polls /\ overdue' = overdue \ polls

(* accept: take the polls that parked before the slot existed.               *)
AcceptAdopt(g) ==
  LET mine == {p \in early : target[p] = g} IN
  /\ ~EarlyLocked
  /\ At(g, "registered", IF mine = {} THEN "replying" ELSE "adopting")
  /\ adopting' = [adopting EXCEPT ![g] = mine]
  /\ LeaveEarly(mine)
  /\ UNCHANGED <<up, registry, tombstones, slotVars, workVars, clientVars,
                 poll, loopVars>>

(* accept: under the slot's lock, the adopted polls join its waiters.        *)
AcceptExtend(g) ==
  /\ At(g, "adopting", "replying")
  /\ waiters' = [waiters EXCEPT ![g] = @ \cup adopting[g]]
  /\ adopting' = [adopting EXCEPT ![g] = {}]
  /\ UNCHANGED <<up, sharedVars, slot, terminal, cancelled, outcome, window,
                 workVars, clientVars, poll, loopVars>>

(* accept: the goal response is sent and the GoalContext handed out.         *)
AcceptReply(g) ==
  /\ At(g, "replying", "running")
  /\ UNCHANGED <<up, sharedVars, adopting, slotVars, workVars, clientVars,
                 poll, loopVars>>

(* accept: the reply failed (client gone), so the slot is taken back.        *)
AcceptReplyFails(g) ==
  /\ At(g, "replying", "failing")
  /\ UNCHANGED <<up, sharedVars, adopting, slotVars, workVars, clientVars,
                 poll, loopVars>>

Drop(polls) == [p \in Polls |-> IF p \in polls THEN "dropped" ELSE poll[p]]

(* The result loop holds a clone of the slot, and soon its lock.             *)
Busy(g) == resultLoop.pc = "act" /\ target[resultLoop.poll] = g

(* The last clone of a slot goes: the polls parked in it close.              *)
FreeSlot(g, polls) ==
  /\ waiters' = [waiters EXCEPT ![g] = {}]
  /\ poll' = Drop(polls)

(* Slip: the slot leaves the registry, its polls stay open.                  *)
AcceptUnregisterKeeps(g) ==
  /\ At(g, "failing", "failed")
  /\ registry' = registry \ {g}
  /\ UNCHANGED <<up, early, overdue, tombstones, adopting, slotVars, workVars,
                 clientVars, poll, loopVars>>

(* accept: the slot is unregistered and dropped, and with it the polls it    *)
(* holds, unless the result loop has a clone that outlives it.               *)
AcceptUnregister(g) ==
  /\ At(g, "failing", "failed")
  /\ registry' = registry \ {g}
  /\ IF Busy(g) THEN UNCHANGED <<waiters, poll>> ELSE FreeSlot(g, waiters[g])
  /\ UNCHANGED <<up, early, overdue, tombstones, adopting, slot, terminal,
                 cancelled, outcome, window, workVars, clientVars, loopVars>>

(* The caller drops the accept future at one of its awaits (the slot's lock, *)
(* the reply); what the future owned goes with it, the slot stays behind.    *)
DropAccept(g) ==
  /\ DropsFutures
  /\ \/ At(g, "adopting", "leaked")
     \/ At(g, "replying", "leaked")
  /\ poll' = Drop(adopting[g])
  /\ adopting' = [adopting EXCEPT ![g] = {}]
  /\ UNCHANGED <<up, sharedVars, slotVars, workVars, clientVars, loopVars>>

(* Slip: the flag is set, not swapped, so the last delivery wins.            *)
SwapTerminalUnguarded(g, o) ==
  /\ terminal' = [terminal EXCEPT ![g] = TRUE]
  /\ outcome' = [outcome EXCEPT ![g] = o]
  /\ delivery' = [delivery EXCEPT ![g] = "swapped"]

(* transition_terminal: the swap of the `terminal` flag.  A delivery that    *)
(* finds it set returns without effect.                                      *)
SwapTerminal(g, o) ==
  /\ ~terminal[g]
  /\ terminal' = [terminal EXCEPT ![g] = TRUE]
  /\ outcome' = [outcome EXCEPT ![g] = o]
  /\ delivery' = [delivery EXCEPT ![g] = "swapped"]

(* complete / complete_cancelled.                                            *)
Deliver(g, o) ==
  /\ stage[g] = "running"
  /\ SwapTerminal(g, o)
  /\ UNCHANGED <<up, sharedVars, stage, adopting, slot, waiters, cancelled,
                 window, drain, sentinels, clientVars, poll, loopVars>>

(* The task GoalContext::drop spawned.                                       *)
Abandon(g) ==
  /\ stage[g] = "dropped"
  /\ SwapTerminal(g, "Abandoned")
  /\ UNCHANGED <<up, sharedVars, stage, adopting, slot, waiters, cancelled,
                 window, drain, sentinels, clientVars, poll, loopVars>>

(* Slip: the polls parked in the slot are overwritten with it.               *)
TakeWaitersLost(g) ==
  /\ waiters' = [waiters EXCEPT ![g] = {}]
  /\ UNCHANGED drain

TakeWaiters(g) ==
  /\ waiters' = [waiters EXCEPT ![g] = {}]
  /\ drain' = [drain EXCEPT ![g] = waiters[g]]

(* transition_terminal: under the slot's lock, Terminal replaces Pending and *)
(* the parked polls are taken out.                                           *)
ReplaceState(g) ==
  /\ delivery[g] = "swapped"
  /\ delivery' = [delivery EXCEPT ![g] = "draining"]
  /\ slot' = [slot EXCEPT ![g] = "terminal"]
  /\ window' = [window EXCEPT ![g] = "open"]
  /\ TakeWaiters(g)
  /\ UNCHANGED <<up, sharedVars, stage, adopting, terminal, cancelled,
                 outcome, sentinels, clientVars, poll, loopVars>>

(* Slip: the poll is answered and kept.                                      *)
WakeWaiterKeeps(g, p) ==
  /\ delivery[g] = "draining" /\ p \in drain[g]
  /\ poll' = [poll EXCEPT ![p] = outcome[g]]
  /\ UNCHANGED <<up, sharedVars, stage, adopting, slotVars, workVars,
                 clientVars, loopVars>>

(* transition_terminal: answer one of the parked polls.                      *)
WakeWaiter(g, p) ==
  /\ delivery[g] = "draining" /\ p \in drain[g]
  /\ drain' = [drain EXCEPT ![g] = @ \ {p}]
  /\ poll' = [poll EXCEPT ![p] = outcome[g]]
  /\ UNCHANGED <<up, sharedVars, stage, adopting, slotVars, delivery,
                 sentinels, clientVars, loopVars>>

(* Slip: an abandoned goal does not close its stream.                        *)
EndsStreamIfDelivered(g) == HasFeedback /\ outcome[g] # "Abandoned"

EndsStream(g) == HasFeedback

(* deliver / the drop task: close the feedback stream.                       *)
PublishEnd(g) ==
  /\ delivery[g] = "draining" /\ drain[g] = {}
  /\ delivery' = [delivery EXCEPT ![g] = "done"]
  /\ sentinels' = IF EndsStream(g) THEN [sentinels EXCEPT ![g] = @ + 1]
                                   ELSE sentinels
  /\ UNCHANGED <<up, sharedVars, stage, adopting, slotVars, drain, clientVars,
                 poll, loopVars>>

(* The caller drops a complete future at one of its awaits.                  *)
DropDelivery(g) ==
  /\ DropsFutures
  /\ stage[g] = "running" /\ delivery[g] \in {"swapped", "draining"}
  /\ delivery' = [delivery EXCEPT ![g] = "cut"]
  /\ poll' = Drop(drain[g])
  /\ drain' = [drain EXCEPT ![g] = {}]
  /\ UNCHANGED <<up, sharedVars, stage, adopting, slotVars, sentinels,
                 clientVars, loopVars>>

(* GoalContext::drop.  A complete future borrows the context, so none is in  *)
(* flight.  With `terminal` unset the drop spawns the task of Abandon.       *)
DropContext(g) ==
  /\ delivery[g] \in {None, "done", "cut"}
  /\ At(g, "running", "dropped")
  /\ UNCHANGED <<up, sharedVars, adopting, slotVars, workVars, clientVars,
                 poll, loopVars>>

(* evict_at passes.                                                          *)
CloseWindow(g) ==
  /\ window[g] = "open"
  /\ window' = [window EXCEPT ![g] = "closed"]
  /\ UNCHANGED <<up, sharedVars, stage, adopting, slot, waiters, terminal,
                 cancelled, outcome, workVars, clientVars, poll, loopVars>>

-----------------------------------------------------------------------------
(* run_result_loop                                                           *)

ResultIdle == [pc |-> "recv", poll |-> None, reply |-> None]

ResultAt(from, to) == resultLoop.pc = from /\ resultLoop' = [resultLoop EXCEPT !.pc = to]

(* A malformed payload gets an error reply; a goal id is looked up.          *)
ResultRecv(p) ==
  /\ resultLoop.pc = "recv" /\ poll[p] = "queued"
  /\ IF target[p] = "malformed"
     THEN /\ poll' = [poll EXCEPT ![p] = "malformed"]
          /\ UNCHANGED resultLoop
     ELSE /\ poll' = [poll EXCEPT ![p] = "taken"]
          /\ resultLoop' = [pc |-> "lookup", poll |-> p, reply |-> None]
  /\ UNCHANGED <<up, sharedVars, stage, adopting, slotVars, workVars,
                 clientVars, cancelLoop, sweeper>>

(* The slot is cloned out under the registry lock.                           *)
ResultLookup ==
  /\ ResultAt("lookup",
       IF target[resultLoop.poll] \in registry THEN "act" ELSE "recheck")
  /\ UNCHANGED <<up, sharedVars, stage, adopting, slotVars, workVars,
                 clientVars, poll, cancelLoop, sweeper>>

(* Slip: the first look is taken as final.                                   *)
RegisteredSinceNever(g) == FALSE

RegisteredSince(g) == g \in registry

(* No slot: look again, now holding pending_waiters.                         *)
ResultRecheck ==
  /\ ResultAt("recheck",
       IF RegisteredSince(target[resultLoop.poll]) THEN "act" ELSE "park")
  /\ UNCHANGED <<up, sharedVars, stage, adopting, slotVars, workVars,
                 clientVars, poll, cancelLoop, sweeper>>

(* The sweeper holds the tombstones lock while it inserts a batch.           *)
TombstonesLocked == sweeper.pc = "entombing"

EarlyFull == Cardinality(early) >= PendingCap

(* Still none: answer Expired for a tombstoned goal, drop the poll when too  *)
(* many are parked, park it otherwise.                                       *)
ResultPark ==
  LET p == resultLoop.poll
      g == target[p] IN
  /\ resultLoop.pc = "park" /\ ~TombstonesLocked
  /\ \/ /\ Tombstoned(g)
        /\ resultLoop' = [pc |-> "reply", poll |-> p, reply |-> "Expired"]
        /\ UNCHANGED <<early, poll>>
     \/ /\ ~Tombstoned(g) /\ EarlyFull
        /\ resultLoop' = ResultIdle
        /\ poll' = [poll EXCEPT ![p] = "dropped"]
        /\ UNCHANGED early
     \/ /\ ~Tombstoned(g) /\ ~EarlyFull
        /\ resultLoop' = ResultIdle
        /\ early' = early \cup {p}
        /\ UNCHANGED poll
  /\ UNCHANGED <<up, registry, overdue, tombstones, stage, adopting, slotVars,
                 workVars, clientVars, cancelLoop, sweeper>>

(* Slip: the comparison with the clock is the wrong way round.               *)
RetainedReplyInverted(g) == IF window[g] = "closed" THEN outcome[g] ELSE "Expired"

RetainedReply(g) == IF window[g] = "open" THEN outcome[g] ELSE "Expired"

(* Slip: the poll parks whatever the state it finds.                         *)
ParksAlways(g) == slot[g] # None

Parks(g) == slot[g] = "pending"

(* act_on_slot, under the slot's lock: reply with the outcome, or Expired    *)
(* once the window has closed; park in a pending slot.  If accept has taken  *)
(* the slot back meanwhile, the loop's clone is the last and goes with this. *)
ActOnSlot ==
  LET p == resultLoop.poll
      g == target[p] IN
  /\ resultLoop.pc = "act"
  /\ \/ /\ slot[g] = "terminal"
        /\ resultLoop' = [pc |-> "reply", poll |-> p, reply |-> RetainedReply(g)]
        /\ UNCHANGED <<waiters, poll>>
     \/ /\ Parks(g)
        /\ resultLoop' = ResultIdle
        /\ IF stage[g] = "failed"
           THEN FreeSlot(g, waiters[g] \cup {p})
           ELSE waiters' = [waiters EXCEPT ![g] = @ \cup {p}] /\ UNCHANGED poll
  /\ UNCHANGED <<up, sharedVars, stage, adopting, slot, terminal, cancelled,
                 outcome, window, workVars, clientVars, cancelLoop, sweeper>>

ResultReply ==
  /\ resultLoop.pc = "reply" /\ resultLoop' = ResultIdle
  /\ poll' = [poll EXCEPT ![resultLoop.poll] = resultLoop.reply]
  /\ UNCHANGED <<up, sharedVars, stage, adopting, slotVars, workVars,
                 clientVars, cancelLoop, sweeper>>

(* The engine was dropped: the loop ends at an await, its endpoint closes    *)
(* with what is queued, and the responder in its hands is dropped, as is its *)
(* clone of a slot.                                                          *)
ResultStop ==
  /\ ~up
  /\ resultLoop.pc \in {"recv", "act", "reply"}
  /\ resultLoop' = [ResultIdle EXCEPT !.pc = "stopped"]
  /\ LET held == {g \in Goals : Busy(g) /\ stage[g] = "failed"} IN
       /\ waiters' = [g \in Goals |-> IF g \in held THEN {} ELSE waiters[g]]
       /\ poll' = Drop({p \in Polls : \/ poll[p] = "queued" \/ p = resultLoop.poll
                                       \/ \E g \in held : p \in waiters[g]})
  /\ UNCHANGED <<up, sharedVars, stage, adopting, slot, terminal, cancelled,
                 outcome, window, workVars, clientVars, cancelLoop, sweeper>>

-----------------------------------------------------------------------------
(* run_cancel_loop                                                           *)

CancelIdle == [pc |-> "recv", cancel |-> None, reply |-> None]

CancelRecv(c) ==
  /\ cancelLoop.pc = "recv" /\ target[c] # None /\ ack[c] = None
  /\ IF target[c] = "malformed"
     THEN /\ ack' = [ack EXCEPT ![c] = "malformed"]
          /\ UNCHANGED cancelLoop
     ELSE /\ cancelLoop' = [pc |-> "lookup", cancel |-> c, reply |-> None]
          /\ UNCHANGED ack
  /\ UNCHANGED <<up, sharedVars, stage, adopting, slotVars, workVars, target,
                 informed, poll, resultLoop, sweeper>>

(* Under the registry lock: clone the token, read the terminal flag.         *)
CancelLookup ==
  LET g == target[cancelLoop.cancel] IN
  /\ cancelLoop.pc = "lookup"
  /\ cancelLoop' =
       IF g \notin registry  THEN [cancelLoop EXCEPT !.pc = "tombstones"]
       ELSE IF terminal[g]   THEN [cancelLoop EXCEPT !.pc = "ack", !.reply = "AlreadyTerminal"]
                             ELSE [cancelLoop EXCEPT !.pc = "signal"]
  /\ UNCHANGED <<up, sharedVars, stage, adopting, slotVars, workVars,
                 clientVars, poll, resultLoop, sweeper>>

CancelSignal ==
  /\ cancelLoop.pc = "signal"
  /\ cancelled' = [cancelled EXCEPT ![target[cancelLoop.cancel]] = TRUE]
  /\ cancelLoop' = [cancelLoop EXCEPT !.pc = "ack", !.reply = "Signalled"]
  /\ UNCHANGED <<up, sharedVars, stage, adopting, slot, waiters, terminal,
                 outcome, window, workVars, clientVars, poll, resultLoop,
                 sweeper>>

CancelTombstones ==
  /\ cancelLoop.pc = "tombstones" /\ ~TombstonesLocked
  /\ cancelLoop' = [cancelLoop EXCEPT !.pc = "ack",
       !.reply = IF Tombstoned(target[cancelLoop.cancel])
                 THEN "AlreadyTerminal" ELSE "Unknown"]
  /\ UNCHANGED <<up, sharedVars, stage, adopting, slotVars, workVars,
                 clientVars, poll, resultLoop, sweeper>>

CancelReply ==
  /\ cancelLoop.pc = "ack"
  /\ cancelLoop' = CancelIdle
  /\ ack' = [ack EXCEPT ![cancelLoop.cancel] = cancelLoop.reply]
  /\ UNCHANGED <<up, sharedVars, stage, adopting, slotVars, workVars, target,
                 informed, poll, resultLoop, sweeper>>

CancelStop ==
  /\ ~up /\ cancelLoop.pc \in {"recv", "ack"}
  /\ cancelLoop' = [CancelIdle EXCEPT !.pc = "stopped"]
  /\ UNCHANGED <<up, sharedVars, stage, adopting, slotVars, workVars,
                 clientVars, poll, resultLoop, sweeper>>

-----------------------------------------------------------------------------
(* run_retention_sweeper: sweep_once                                         *)

(* Slip: a slot is evicted as soon as it is terminal.                        *)
EvictableAtOnce == {g \in registry : slot[g] = "terminal"}

(* Slip: a slot is kept as long as its context lives.                        *)
EvictableOnceDropped ==
  {g \in registry : /\ slot[g] = "terminal" /\ window[g] = "closed"
                    /\ stage[g] = "dropped"}

Evictable == {g \in registry : slot[g] = "terminal" /\ window[g] = "closed"}

(* Under the registry lock: terminal slots past their window leave, except   *)
(* those whose state is momentarily locked (try_lock fails on the slot a     *)
(* result poll is reading).                                                  *)
SweepRegistry ==
  /\ sweeper.pc = "sleep"
  /\ \E skipped \in SUBSET {g \in Evictable : Busy(g)} :
       LET expired == Evictable \ skipped IN
       /\ registry' = registry \ expired
       /\ sweeper' = [pc |-> IF expired = {} THEN "unpark" ELSE "entomb",
                      expired |-> expired]
  /\ UNCHANGED <<up, early, overdue, tombstones, stage, adopting, slotVars,
                 workVars, clientVars, poll, resultLoop, cancelLoop>>

(* Under the tombstones lock: the evicted ids, in the map's arbitrary order. *)
SweepEntomb(g) ==
  /\ sweeper.pc \in {"entomb", "entombing"} /\ g \in sweeper.expired
  /\ tombstones' = Entomb(tombstones, g)
  /\ sweeper' = [pc |-> IF sweeper.expired = {g} THEN "unpark" ELSE "entombing",
                 expired |-> sweeper.expired \ {g}]
  /\ UNCHANGED <<up, registry, early, overdue, stage, adopting, slotVars,
                 workVars, clientVars, poll, resultLoop, cancelLoop>>

(* Under the pending_waiters lock: polls past their deadline are dropped.    *)
SweepEarly ==
  /\ sweeper.pc = "unpark" /\ ~EarlyLocked
  /\ poll' = Drop(overdue)
  /\ LeaveEarly(overdue)
  /\ sweeper' = [sweeper EXCEPT !.pc = "sleep"]
  /\ UNCHANGED <<up, registry, tombstones, stage, adopting, slotVars,
                 workVars, clientVars, resultLoop, cancelLoop>>

SweepStop ==
  /\ ~up /\ sweeper.pc = "sleep"
  /\ sweeper' = [sweeper EXCEPT !.pc = "stopped"]
  /\ UNCHANGED <<up, sharedVars, stage, adopting, slotVars, workVars,
                 clientVars, poll, resultLoop, cancelLoop>>

(* The deadline of a parked poll passes.                                     *)
PassDeadline(p) ==
  /\ p \in early \ overdue
  /\ overdue' = overdue \cup {p}
  /\ UNCHANGED <<up, registry, early, tombstones, stage, adopting, slotVars,
                 workVars, clientVars, poll, loopVars>>

(* ConcurrentAction::drop: the loops are told to stop; goals already         *)
(* received or running keep the registry and their slots.                    *)
DropEngine ==
  /\ up
  /\ up' = FALSE
  /\ UNCHANGED <<sharedVars, stage, adopting, slotVars, workVars, clientVars,
                 poll, loopVars>>

-----------------------------------------------------------------------------
Init ==
  /\ up = TRUE
  /\ registry = {} /\ early = {} /\ overdue = {} /\ tombstones = <<>>
  /\ stage = [g \in Goals |-> "absent"]
  /\ adopting = [g \in Goals |-> {}]
  /\ slot = [g \in Goals |-> None]
  /\ waiters = [g \in Goals |-> {}]
  /\ terminal = [g \in Goals |-> FALSE]
  /\ cancelled = [g \in Goals |-> FALSE]
  /\ outcome = [g \in Goals |-> None]
  /\ window = [g \in Goals |-> None]
  /\ delivery = [g \in Goals |-> None]
  /\ drain = [g \in Goals |-> {}]
  /\ sentinels = [g \in Goals |-> 0]
  /\ target = [r \in Requests |-> None]
  /\ poll = [p \in Polls |-> "idle"]
  /\ ack = [c \in Cancels |-> None]
  /\ informed = {}
  /\ resultLoop = ResultIdle
  /\ cancelLoop = CancelIdle
  /\ sweeper = [pc |-> "sleep", expired |-> {}]

ClientStep == \/ \E p \in Polls : SendPoll(p)
              \/ \E c \in Cancels : SendCancel(c)

(* What the user's code decides: nothing makes it happen.                    *)
UserStep(g) ==
  \/ RecvNextGoal(g)
  \/ Reject(g)
  \/ AcceptRegister(g)
  \/ \E o \in {"Completed", "Cancelled"} : Deliver(g, o)
  \/ DropContext(g)
  \/ DropAccept(g)
  \/ DropDelivery(g)

(* What the engine does on the goal's task once the user has called it.      *)
GoalStep(g) ==
  \/ AcceptAdopt(g)
  \/ AcceptExtend(g)
  \/ AcceptReply(g)
  \/ AcceptReplyFails(g)
  \/ AcceptUnregister(g)
  \/ Abandon(g)
  \/ ReplaceState(g)
  \/ \E p \in Polls : WakeWaiter(g, p)
  \/ PublishEnd(g)

ResultStep == \/ \E p \in Polls : ResultRecv(p)
              \/ ResultLookup
              \/ ResultRecheck
              \/ ResultPark
              \/ ActOnSlot
              \/ ResultReply
              \/ ResultStop

CancelStep == \/ \E c \in Cancels : CancelRecv(c)
              \/ CancelLookup
              \/ CancelSignal
              \/ CancelTombstones
              \/ CancelReply
              \/ CancelStop

SweepStep == \/ SweepRegistry
             \/ \E g \in Goals : SweepEntomb(g)
             \/ SweepEarly
             \/ SweepStop

TimeStep == \/ \E g \in Goals : CloseWindow(g)
            \/ \E p \in Polls : PassDeadline(p)

Next == \/ ClientStep
        \/ \E g \in Goals : UserStep(g) \/ GoalStep(g)
        \/ ResultStep
        \/ CancelStep
        \/ SweepStep
        \/ TimeStep
        \/ DropEngine

Spec == Init /\ [][Next]_vars

(* The runtime polls every ready task, and time passes.                      *)
Fairness ==
  /\ \A g \in Goals : WF_vars(GoalStep(g))
  /\ WF_vars(ResultStep)
  /\ WF_vars(CancelStep)
  /\ WF_vars(SweepStep)
  /\ \A g \in Goals : WF_vars(CloseWindow(g))
  /\ \A p \in Polls : WF_vars(PassDeadline(p))

FairSpec == Spec /\ Fairness

-----------------------------------------------------------------------------
(* What the engine promises its clients                                      *)

(* A goal is decided when the first delivery swaps `terminal`; a slot taken  *)
(* back by a failed accept is withdrawn.                                     *)
ClientView(g) ==
  CASE terminal[g]                        -> outcome[g]
    [] stage[g] = "failed"                -> "withdrawn"
    [] ~terminal[g] /\ slot[g] = None     -> "unknown"
    [] OTHER                              -> "live"

(* What the clients see of the goals, the retention windows and the answers. *)
View     == [g \in Goals |-> ClientView(g)]
Unserved == {g \in Goals : window[g] = "closed"}
Told     == [p \in Polls |-> IF poll[p] \in Consumed THEN poll[p] ELSE None]

Promise == INSTANCE ActionGoal WITH
  goal <- View, expired <- Unserved, about <- target, answer <- Told,
  verdict <- ack

(* The engine implements the goal lifecycle of ActionGoal.                   *)
KeepsPromise == Promise!Spec

-----------------------------------------------------------------------------
(* Type invariant                                                            *)

StoreTypes ==
  /\ registry \subseteq Goals
  /\ early \subseteq Polls /\ overdue \subseteq early
  /\ tombstones \in Seq(Goals)
  /\ stage \in [Goals -> Stages]
  /\ adopting \in [Goals -> SUBSET Polls]

SlotTypes ==
  /\ slot \in [Goals -> {None, "pending", "terminal"}]
  /\ waiters \in [Goals -> SUBSET Polls]
  /\ terminal \in [Goals -> BOOLEAN]
  /\ cancelled \in [Goals -> BOOLEAN]
  /\ outcome \in [Goals -> Outcomes \cup {None}]
  /\ window \in [Goals -> {None, "open", "closed"}]
  /\ delivery \in [Goals -> {None, "swapped", "draining", "done", "cut"}]
  /\ drain \in [Goals -> SUBSET Polls]
  /\ sentinels \in [Goals -> Nat]

RequestTypes ==
  /\ up \in BOOLEAN
  /\ target \in [Requests -> Goals \cup {None, "malformed"}]
  /\ poll \in [Polls -> {"idle", "queued", "taken"} \cup Consumed]
  /\ ack \in [Cancels -> CancelStates \cup {None, "malformed"}]
  /\ informed \subseteq Requests

LoopTypes ==
  /\ resultLoop \in
       [pc : {"recv", "lookup", "recheck", "park", "act", "reply", "stopped"},
        poll : Polls \cup {None}, reply : Outcomes \cup {"Expired", None}]
  /\ cancelLoop \in
       [pc : {"recv", "lookup", "signal", "tombstones", "ack", "stopped"},
        cancel : Cancels \cup {None}, reply : CancelStates \cup {None}]
  /\ sweeper \in
       [pc : {"sleep", "entomb", "entombing", "unpark", "stopped"},
        expired : SUBSET Goals]

TypeOK == StoreTypes /\ SlotTypes /\ RequestTypes /\ LoopTypes

-----------------------------------------------------------------------------
(* Safety                                                                    *)

(* Somebody is bound to answer, or close, what is parked in the slot.        *)
HasOwner(g) ==
  \/ stage[g] \in Accepting
  \/ ~terminal[g] /\ stage[g] \in {"running", "dropped"}
  \/ delivery[g] = "swapped"

(* "Park and drain serialize on the same per-slot mutex, so no wakeup is     *)
(* ever lost": a poll parked in a routable slot always has a task that will  *)
(* still reach it (accept, the context, its drop, or the winning transition  *)
(* before its drain).                                                        *)
WaiterHasOwner ==
  \A g \in registry : waiters[g] # {} => HasOwner(g)

(* An early poll is never orphaned by `accept`: once the adoption pass of a  *)
(* routable goal is over, none of its polls is left among the early ones.    *)
EarlyPollAdopted ==
  \A p \in early : target[p] \in registry => stage[target[p]] = "registered"

(* Every poll of a goal gets the one outcome the goal ended with, and        *)
(* Expired only once the retention window is over.                           *)
AnswerIsOutcome ==
  \A p \in Polls :
    /\ poll[p] \in Outcomes =>
         slot[target[p]] = "terminal" /\ poll[p] = outcome[target[p]]
    /\ poll[p] = "Expired" => window[target[p]] = "closed"

(* Where the responder of a poll can be while it is the engine's.            *)
Places(p) ==
  {<<"hand", x>> : x \in {resultLoop.poll} \cap {p}}
    \cup {<<"early", x>> : x \in early \cap {p}}
    \cup {<<"adopting", g>> : g \in {h \in Goals : p \in adopting[h]}}
    \cup {<<"waiting", g>> : g \in {h \in Goals : p \in waiters[h]}}
    \cup {<<"draining", g>> : g \in {h \in Goals : p \in drain[h]}}

(* "Each parked responder is consumed exactly once": a responder the engine  *)
(* has taken is in one place, one it has consumed in none, and a slot only   *)
(* holds its own goal's polls.                                               *)
ResponderInOnePlace ==
  \A p \in Polls :
    /\ Cardinality(Places(p)) = IF poll[p] = "taken" THEN 1 ELSE 0
    /\ \A g \in Goals :
         p \in adopting[g] \cup waiters[g] \cup drain[g] => target[p] = g

(* The slot is registered before the goal reply is sent, so a cancel or a    *)
(* result request sent after the reply finds the goal as long as its result  *)
(* is retained: the cancel is not Unknown, the poll not parked as early.     *)
InformedRequestFindsGoal ==
  \A r \in informed :
    \/ r \in Cancels /\ ack[r] = "Unknown"
    \/ r \in early
    => window[target[r]] = "closed"

(* The feedback stream is closed at most once, and after the outcome has     *)
(* been published to every poll that was parked.                             *)
SentinelOnceAfterResult ==
  \A g \in Goals :
    /\ sentinels[g] <= 1
    /\ sentinels[g] = 1 => /\ slot[g] = "terminal"
                           /\ waiters[g] \cup drain[g] = {}

(* Tombstones are bounded, name a goal once, and only goals whose retention  *)
(* is over and that the registry no longer routes.                           *)
TombstonedGone ==
  /\ Len(tombstones) <= TombstoneCap
  /\ \A i, j \in DOMAIN tombstones : tombstones[i] = tombstones[j] => i = j
  /\ \A i \in DOMAIN tombstones :
       tombstones[i] \notin registry /\ window[tombstones[i]] = "closed"

(* "Any adopted waiters are dropped with it (their polls close cleanly)": a  *)
(* goal that is not routable, because its accept failed or it was evicted,   *)
(* holds no open poll in its slot, save while the result loop still has the  *)
(* slot in its hands and will close what it finds there.                     *)
UnroutedSlotIsEmpty ==
  \A g \in Goals \ registry : waiters[g] # {} => Busy(g)

-----------------------------------------------------------------------------
(* Liveness                                                                  *)

(* Once a transition has won, or accept has taken the slot back, every poll  *)
(* parked in the slot is consumed; an early poll does not stay parked for    *)
(* ever while the engine lives.                                              *)
ParkedPollsSettled ==
  \A p \in Polls :
    /\ \A g \in Goals : (p \in waiters[g] /\ (terminal[g] \/ stage[g] = "failed"))
                         ~> (poll[p] \in Consumed)
    /\ (p \in early) ~> (p \notin early \/ ~up)

(* A terminal goal closes its feedback stream.                               *)
FeedbackCloses ==
  \A g \in Goals : terminal[g] ~> sentinels[g] = 1

(* A terminal goal is evicted while the engine lives.                        *)
TerminalGoalsEvicted ==
  \A g \in Goals : (slot[g] = "terminal") ~> (g \notin registry \/ ~up)

(* What a goal that has ended leaves behind goes: its stream is closed, and  *)
(* the sweeper takes its slot.                                               *)
GoalsWindDown == FeedbackCloses /\ TerminalGoalsEvicted

-----------------------------------------------------------------------------
(* What the comments of actions.rs say and the code does not do              *)

(* "A poll for an evicted goal replies Expired" (run_result_loop): it never  *)
(* parks as if its goal had yet to be accepted.                              *)
EvictedPollNeverParks ==
  \A p \in early :
    target[p] \in registry \/ slot[target[p]] # "terminal"
=============================================================================
