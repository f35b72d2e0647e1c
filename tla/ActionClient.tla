---------------------------- MODULE ActionClient ----------------------------
(***************************************************************************)
(* The client of an action (peppylib-rs/src/messaging/actions.rs):         *)
(* ActionMessenger::send_goal and request_result, the feedback stream of   *)
(* ActionGoalHandle, and the watch on the producer's liveliness token that *)
(* has to end the stream of a producer that died.                          *)
(*                                                                         *)
(* One goal is sent to one pinned producer, an instance that may die and   *)
(* be started again under the same identity.  Routing is external: the     *)
(* token appears and vanishes in the consumer's view some time after it    *)
(* was declared or lost, and a flap (a router bounce, a probe that runs    *)
(* into its timeout) hides it while the producer lives.  Delays are        *)
(* abstract: a step may come at any time.                                  *)
(*                                                                         *)
(* An operator introduced by "Slip" is a wrong version of the one after    *)
(* it; nothing uses it but the runs that show which property would notice. *)
(***************************************************************************)
EXTENDS Naturals, Sequences

CONSTANTS
  MaxLives,     \* bound of the model: starts of the producer instance
  MaxFlaps,     \* bound of the model: times its token vanishes while it lives
  MaxFeedback,  \* bound of the model: feedback messages of the goal
  FlapLimit     \* probes of one confirmation that may miss a live producer

ASSUME ClientAssumption ==
  /\ MaxLives \in Nat /\ MaxFlaps \in Nat /\ MaxFeedback \in Nat
  /\ FlapLimit \in Nat

VARIABLES
  life,      \* starts of the producer so far
  up,        \* is it running?
  announced, \* its liveliness token is in the consumer's view
  flaps,     \* times the token vanished while the producer ran
  owner,     \* the start of the producer that took the goal, 0 if none did
  sent,      \* feedback messages published for the goal
  ended,     \* the end-of-stream sentinel is published
  wire,      \* published, not delivered yet
  open,      \* the consumer's session
  phase,     \* of send_goal and of the ActionGoalHandle it returns
  buffer,    \* the feedback subscription
  events,    \* ActionLivelinessWatch.rx
  watcher,   \* the task run_producer_liveliness_watch
  absent,    \* probes in a row that found no token
  misled,    \* those of them the producer was running for (history)
  blamed,    \* owner when the confirmation began (history)
  gone,      \* the latch of ProducerGoneWatch
  reader,    \* the on_next_feedback or try_next_feedback call
  ready,     \* was there buffered feedback when it was called? (history)
  woken,     \* its Notified future is ready
  got,       \* feedback messages returned to the user
  told,      \* how the stream ended for the user
  abandoned  \* request_result said Abandoned

producerVars == <<life, up, announced, flaps>>
goalVars     == <<owner, sent, ended>>
watchVars    == <<watcher, absent, misled, blamed, gone>>
readVars     == <<reader, ready, woken, got, told>>
vars == <<producerVars, goalVars, wire, open, phase, buffer, events, watchVars,
          readVars, abandoned>>

PRODUCER_GONE_CONFIRM_PROBES == 2

(* The sentinel; feedback messages are numbered from 1.                      *)
End == 0

Messages == 0..MaxFeedback

Alive(i) == up /\ life = i

(* Slip: the subscription is made when the goal has been answered.           *)
SubscribedOnReply == phase = "held"

Subscribed == phase \in {"subscribed", "watched", "asked", "held"}

Watched == watcher \notin {"off", "ended"}

-----------------------------------------------------------------------------
(* The producer and the routing of its token                                 *)

StartProducer ==
  /\ ~up /\ life < MaxLives
  /\ up' = TRUE /\ life' = life + 1
  /\ UNCHANGED <<announced, flaps, goalVars, wire, open, phase, buffer, events,
                 watchVars, readVars, abandoned>>

(* The callback of the liveliness subscriber.                                *)
Notice(event) == events' = IF Watched /\ open THEN Append(events, event) ELSE events

Announce ==
  /\ up /\ ~announced
  /\ announced' = TRUE
  /\ Notice("alive")
  /\ UNCHANGED <<life, up, flaps, goalVars, wire, open, phase, buffer, watchVars,
                 readVars, abandoned>>

(* The token of a dead producer is removed, or that of a live one vanishes   *)
(* for a while.                                                              *)
Withdraw ==
  /\ announced
  /\ IF up THEN flaps < MaxFlaps /\ flaps' = flaps + 1 ELSE UNCHANGED flaps
  /\ announced' = FALSE
  /\ Notice("gone")
  /\ UNCHANGED <<life, up, goalVars, wire, open, phase, buffer, watchVars,
                 readVars, abandoned>>

(* A hard death: what it published last may be lost with it.                 *)
Crash ==
  /\ up
  /\ up' = FALSE
  /\ \E n \in 0..Len(wire) : wire' = SubSeq(wire, 1, n)
  /\ UNCHANGED <<life, announced, flaps, goalVars, open, phase, buffer, events,
                 watchVars, readVars, abandoned>>

(* The goal request that poll_service repeats until somebody takes it.       *)
TakeGoal ==
  /\ phase = "asked" /\ owner = 0 /\ up
  /\ owner' = life
  /\ UNCHANGED <<producerVars, sent, ended, wire, open, phase, buffer, events,
                 watchVars, readVars, abandoned>>

Publish(m) == wire' = IF Subscribed /\ open THEN Append(wire, m) ELSE wire

PublishFeedback ==
  /\ Alive(owner) /\ ~ended /\ sent < MaxFeedback
  /\ sent' = sent + 1
  /\ Publish(sent + 1)
  /\ UNCHANGED <<producerVars, owner, ended, open, phase, buffer, events,
                 watchVars, readVars, abandoned>>

PublishEnd ==
  /\ Alive(owner) /\ ~ended
  /\ ended' = TRUE
  /\ Publish(End)
  /\ UNCHANGED <<producerVars, owner, sent, open, phase, buffer, events,
                 watchVars, readVars, abandoned>>

DeliverMessage ==
  /\ wire # <<>>
  /\ wire' = Tail(wire)
  /\ buffer' = Append(buffer, Head(wire))
  /\ UNCHANGED <<producerVars, goalVars, open, phase, events, watchVars,
                 readVars, abandoned>>

(* stop_session on the consumer's side: nothing is delivered any more.       *)
CloseSession ==
  /\ open
  /\ open' = FALSE /\ wire' = <<>>
  /\ UNCHANGED <<producerVars, goalVars, phase, buffer, events, watchVars,
                 readVars, abandoned>>

-----------------------------------------------------------------------------
(* send_goal: subscribe, watch, then poll the goal service                   *)

Step(from, to) == phase = from /\ phase' = to

Subscribe ==
  /\ open /\ Step("idle", "subscribed")
  /\ UNCHANGED <<producerVars, goalVars, wire, open, buffer, events, watchVars,
                 readVars, abandoned>>

(* The watch replays a token that is there already.                          *)
Watch ==
  /\ open /\ Step("subscribed", "watched")
  /\ events' = IF announced THEN <<"alive">> ELSE <<>>
  /\ watcher' = "resolve"
  /\ UNCHANGED <<producerVars, goalVars, wire, open, buffer, absent, misled,
                 blamed, gone, readVars, abandoned>>

SendGoal ==
  /\ Step("watched", "asked")
  /\ UNCHANGED <<producerVars, goalVars, wire, open, buffer, events, watchVars,
                 readVars, abandoned>>

GoalReply ==
  /\ owner # 0 /\ Step("asked", "held")
  /\ UNCHANGED <<producerVars, goalVars, wire, open, buffer, events, watchVars,
                 readVars, abandoned>>

(* The subscription, the latch and what it told go with the handle; dropping *)
(* the latch aborts the watcher.                                             *)
Release(to) ==
  /\ phase' = to
  /\ buffer' = <<>> /\ events' = <<>> /\ wire' = <<>>
  /\ watcher' = "off" /\ absent' = 0 /\ misled' = 0 /\ blamed' = 0
  /\ gone' = FALSE
  /\ reader' = "idle" /\ ready' = FALSE /\ woken' = FALSE
  /\ got' = 0 /\ told' = "none" /\ abandoned' = FALSE
  /\ UNCHANGED <<producerVars, goalVars, open>>

(* No budget left, an error of a call, or the caller drops the future.       *)
FailGoal ==
  /\ phase \in {"subscribed", "watched", "asked"}
  /\ Release("failed")

DropHandle ==
  /\ phase = "held"
  /\ Release("dropped")

-----------------------------------------------------------------------------
(* run_producer_liveliness_watch                                             *)

(* confirm_producer_gone begins.                                             *)
Suspect ==
  /\ watcher' = "delay"
  /\ blamed' = owner
  /\ UNCHANGED <<absent, misled, gone>>

(* Slip: the next confirmation goes on counting where this one stopped.      *)
AcquitForNow ==
  /\ watcher' = "steady"
  /\ misled' = 0 /\ blamed' = 0
  /\ UNCHANGED <<absent, gone>>

(* It returns false: nothing of it is left.                                  *)
Acquit ==
  /\ watcher' = "steady"
  /\ absent' = 0 /\ misled' = 0 /\ blamed' = 0
  /\ UNCHANGED gone

WatchOn(to) == watcher' = to /\ UNCHANGED <<absent, misled, blamed, gone>>

(* recv_async of the watch, in the initial resolve and in the loop.          *)
WatcherReads ==
  /\ watcher \in {"resolve", "steady"} /\ events # <<>>
  /\ events' = Tail(events)
  /\ IF Head(events) = "gone" THEN Suspect ELSE WatchOn("steady")
  /\ UNCHANGED <<producerVars, goalVars, wire, open, phase, buffer, readVars, abandoned>>

(* Slip: no event within the resolve timeout is taken for a live producer.   *)
TrustOnTimeout == WatchOn("steady")

SuspectOnTimeout == Suspect

(* LIVELINESS_RESOLVE_TIMEOUT passes without an event.                       *)
ResolveTimesOut ==
  /\ watcher = "resolve" /\ events = <<>> /\ open
  /\ SuspectOnTimeout
  /\ UNCHANGED <<producerVars, goalVars, wire, open, phase, buffer, events,
                 readVars, abandoned>>

(* The watch channel closed with the session.                                *)
WatcherStops ==
  /\ watcher \in {"resolve", "steady"} /\ events = <<>> /\ ~open
  /\ WatchOn("ended")
  /\ UNCHANGED <<producerVars, goalVars, wire, open, phase, buffer, events,
                 readVars, abandoned>>

(* After the delay; a session that is gone cannot issue a probe.             *)
IssueProbe ==
  /\ watcher = "delay"
  /\ IF open THEN WatchOn("probe") ELSE Acquit
  /\ UNCHANGED <<producerVars, goalVars, wire, open, phase, buffer, events,
                 readVars, abandoned>>

ProbeSeesToken ==
  /\ watcher = "probe" /\ announced /\ open
  /\ Acquit
  /\ UNCHANGED <<producerVars, goalVars, wire, open, phase, buffer, events,
                 readVars, abandoned>>

Confirmed(n) == n = PRODUCER_GONE_CONFIRM_PROBES

(* The probe ends without a reply: no token, a timeout, or the session went  *)
(* away under it.  FlapLimit says how often that may happen to a live        *)
(* producer.                                                                 *)
ProbeFindsNone ==
  /\ watcher = "probe"
  /\ misled' = misled + (IF up THEN 1 ELSE 0)
  /\ misled' <= FlapLimit
  /\ absent' = absent + 1
  /\ watcher' = IF Confirmed(absent + 1) THEN "declare" ELSE "delay"
  /\ UNCHANGED <<producerVars, goalVars, wire, open, phase, buffer, events,
                 blamed, gone, readVars, abandoned>>

(* declare_gone: the latch first, then the waiter.                           *)
StoreLatch ==
  /\ watcher = "declare"
  /\ watcher' = "notify" /\ gone' = TRUE
  /\ UNCHANGED <<producerVars, goalVars, wire, open, phase, buffer, events,
                 absent, misled, blamed, readVars, abandoned>>

NotifyWaiters ==
  /\ watcher = "notify"
  /\ WatchOn("ended")
  /\ woken' = (woken \/ reader \in {"recheck", "parked"})
  /\ UNCHANGED <<producerVars, goalVars, wire, open, phase, buffer, events,
                 reader, ready, got, told, abandoned>>

-----------------------------------------------------------------------------
(* on_next_feedback and try_next_feedback                                    *)

Reading(to) ==
  /\ reader' = to
  /\ UNCHANGED <<producerVars, goalVars, wire, open, phase, events, watchVars,
                 abandoned>>

(* The user reads until the stream reports its end; a read that is parked is *)
(* polled again when it is woken.                                            *)
Polled == \/ reader = "idle" /\ phase = "held" /\ told = "none"
          \/ reader = "parked"

(* The select is biased: buffered feedback first.                            *)
TakeFeedback ==
  /\ Polled /\ buffer # <<>>
  /\ Reading("idle")
  /\ buffer' = Tail(buffer)
  /\ IF Head(buffer) = End
     THEN told' = "closed" /\ UNCHANGED got
     ELSE got' = got + 1 /\ UNCHANGED told
  /\ UNCHANGED <<ready, woken>>

(* The subscription's channel closed with the session.                       *)
SessionEnded ==
  /\ Polled /\ buffer = <<>> /\ ~open
  /\ Reading("idle")
  /\ told' = "closed"
  /\ UNCHANGED <<buffer, ready, woken, got>>

(* Slip: an unbiased select may look at the latch first.                     *)
LooksAtEither == open

LooksAtLatch == buffer = <<>> /\ open

(* Nothing is buffered; a parked read comes here when it was notified.       *)
NothingBuffered ==
  /\ Polled /\ LooksAtLatch
  /\ reader = "parked" => woken
  /\ Reading("check")
  /\ ready' = IF reader = "idle" THEN buffer # <<>> ELSE ready
  /\ woken' = FALSE
  /\ UNCHANGED <<buffer, got, told>>

ReportGone ==
  /\ reader \in {"check", "recheck"} /\ gone
  /\ Reading("idle")
  /\ told' = "gone"
  /\ UNCHANGED <<buffer, ready, woken, got>>

(* try_next_feedback returns Ok(None).                                       *)
NothingYet ==
  /\ reader = "check" /\ ~gone
  /\ Reading("idle")
  /\ UNCHANGED <<buffer, ready, woken, got, told>>

EnableNotified ==
  /\ reader = "check" /\ ~gone
  /\ Reading("recheck")
  /\ UNCHANGED <<buffer, ready, woken, got, told>>

Park ==
  /\ reader = "recheck" /\ ~gone
  /\ Reading("parked")
  /\ UNCHANGED <<buffer, ready, woken, got, told>>

-----------------------------------------------------------------------------
(* request_result                                                            *)

(* It resolves to Abandoned.  The poll and the other ways it returns are the *)
(* subject of ServiceCall and change nothing here.                           *)
Abandon ==
  /\ phase = "held" /\ ~abandoned /\ abandoned' = TRUE
  /\ UNCHANGED <<producerVars, goalVars, wire, open, phase, buffer, events,
                 watchVars, readVars>>

(* The fast path of a latched handle.                                        *)
ResultOfGone == gone /\ Abandon

(* The poll timed out or was unreachable, and one probe finds no token.      *)
ResultProbeFindsNone == ~announced /\ open /\ Abandon

-----------------------------------------------------------------------------
Init ==
  /\ life = 0 /\ up = FALSE /\ announced = FALSE /\ flaps = 0
  /\ owner = 0 /\ sent = 0 /\ ended = FALSE /\ wire = <<>>
  /\ open = TRUE /\ phase = "idle" /\ buffer = <<>> /\ events = <<>>
  /\ watcher = "off" /\ absent = 0 /\ misled = 0 /\ blamed = 0 /\ gone = FALSE
  /\ reader = "idle" /\ ready = FALSE /\ woken = FALSE /\ got = 0
  /\ told = "none" /\ abandoned = FALSE

Producer ==
  \/ StartProducer \/ Announce \/ Withdraw \/ Crash \/ TakeGoal
  \/ PublishFeedback \/ PublishEnd \/ DeliverMessage \/ CloseSession

Goal == \/ Subscribe \/ Watch \/ SendGoal \/ GoalReply \/ FailGoal \/ DropHandle

Watcher ==
  \/ WatcherReads \/ ResolveTimesOut \/ WatcherStops \/ IssueProbe
  \/ ProbeSeesToken \/ ProbeFindsNone \/ StoreLatch \/ NotifyWaiters

Reader ==
  \/ TakeFeedback \/ SessionEnded \/ NothingBuffered \/ ReportGone
  \/ NothingYet \/ EnableNotified \/ Park

Result == ResultOfGone \/ ResultProbeFindsNone

Next == Producer \/ Goal \/ Watcher \/ Reader \/ Result

Spec == Init /\ [][Next]_vars

(* The runtime polls the watcher and the user's read; what is published      *)
(* arrives, and the view of the token catches up with the producer.          *)
Fairness ==
  /\ WF_vars(Watcher) /\ WF_vars(Reader)
  /\ WF_vars(DeliverMessage) /\ WF_vars(Announce) /\ WF_vars(~up /\ Withdraw)

FairSpec == Spec /\ Fairness

-----------------------------------------------------------------------------
(* Safety                                                                    *)

(* "A flap or an inconclusive probe never fabricates a producer death"       *)
(* (confirm_producer_gone), as long as no confirmation meets more than       *)
(* FlapLimit of them: the latch says that the start of the producer that     *)
(* had the goal when the confirmation began is dead.                         *)
GoneIsTrue == gone /\ blamed # 0 => ~Alive(blamed)

(* A stream that the sentinel closes has returned every message of the goal: *)
(* the subscription is there before the goal is sent.  What was buffered     *)
(* when the user asked, a sentinel included, is returned before the producer *)
(* is reported gone (on_next_feedback).                                      *)
NothingMissed ==
  /\ told = "closed" /\ open => got = sent
  /\ told = "gone" => ~ready

-----------------------------------------------------------------------------
(* Liveness                                                                  *)

(* The stream of a producer whose token stays away ends for a user that goes *)
(* on reading ("instead of a feedback drain that blocks forever",            *)
(* send_goal).  A producer that comes back under its identity in time hides  *)
(* the death of the old one, so nothing is claimed then.                     *)
DeadProducerReported ==
  (phase = "held" /\ ~announced) ~> (announced \/ told # "none" \/ phase # "held")

-----------------------------------------------------------------------------
(* What comments say and the code does not do                                *)

(* ActionFeedbackProducerGone is returned "when the producer instance this   *)
(* goal is pinned to disappears" (on_next_feedback): the producer that took  *)
(* the goal does not run any more.                                           *)
ReportedGoneIsGone == told = "gone" => ~Alive(owner)
=============================================================================
