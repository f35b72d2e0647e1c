------------------------------- MODULE Transport -------------------------------
(***************************************************************************)
(* Messages on their way: the MessengerBackend of a process as its two     *)
(* adapters implement it (peppy-messaging-interface/src/adapters/mock.rs   *)
(* and zenoh.rs), behind the Messenger that all tasks of the process share *)
(* under one mutex (peppylib-rs/src/messaging.rs).                         *)
(*                                                                         *)
(* The mock adapter hands a message to the channel of each subscription    *)
(* itself, the zenoh adapter to a network that calls back: the network is  *)
(* external, a queue of samples that is at times full.  A payload is left  *)
(* out: a message is its number, who published it, its key expression (the *)
(* producer's link id on one topic, or the one feedback stream) and the    *)
(* attachment that marks the primary of an emission.                       *)
(*                                                                         *)
(* An operator introduced by "Slip" is a wrong version of the one after    *)
(* it; nothing uses it but the runs that show which property would notice. *)
(***************************************************************************)
EXTENDS Naturals, Sequences, FiniteSets, SequencesExt

CONSTANTS
  Sharers,    \* tasks of the process, sharing a MessengerHandle
  LinkIds,    \* of the producer
  Profiles,   \* QoSProfiles in use
  BufferSize, \* SubscriberBufferSizes.standard; high_throughput is one more
  LinkSize,   \* samples the network holds before it is congested
  MaxWork     \* bound of the model: subscriptions and messages published

Free == "free"

ASSUME TransportAssumption ==
  BufferSize \in Nat /\ LinkSize \in Nat /\ MaxWork \in Nat /\ Free \notin Sharers

VARIABLES
  adapter,    \* MessengerAdapter
  session,    \* of the adapter
  holder,     \* who holds the mutex of the messenger
  calling,    \* of each task: the call it is in
  publisher,  \* a MessengerPublisher, once one is bound; tasks clone it
  subs,       \* Subscriptions, in the order they were opened
  network,    \* samples that were put
  arriving,   \* the sample the reception callbacks are called with
  sent        \* messages published

linkVars == <<network, arriving>>
transportVars ==
  <<adapter, session, holder, calling, publisher, subs, linkVars, sent>>

AnyLink == "*"
Feedback == "feedback"
Idle == [call |-> "none"]
Unbound == [call |-> "unbound"]
NoSample == [to |-> {}]

-----------------------------------------------------------------------------
(* Quality of service                                                        *)

PublisherQoS(profile) ==
  CASE profile = "Standard"   -> "Standard"
    [] profile = "Reliable"   -> "Important"
    [] profile = "SensorData" -> "BestEffort"
    [] profile = "Critical"   -> "Critical"

SubscriberQoS(profile) ==
  IF profile = "SensorData" THEN "HighThroughput" ELSE "Standard"

SizeFor(qos) == IF qos = "HighThroughput" THEN BufferSize + 1 ELSE BufferSize

(* Slip: only the critical messages wait for a congested link.               *)
OnlyCriticalBlocks(qos) == IF qos = "Critical" THEN "Block" ELSE "Drop"

CongestionControl(qos) ==
  IF qos \in {"Important", "Critical"} THEN "Block" ELSE "Drop"

-----------------------------------------------------------------------------
(* Routing                                                                   *)

Message(t, key, primary, profile) ==
  [n |-> sent + 1, by |-> t, key |-> key, primary |-> primary,
   profile |-> profile]

Matches(sub, key) ==
  sub.key = key \/ (sub.key = AnyLink /\ key \in LinkIds)

(* Slip: the filter above is not asked.                                      *)
AnyLinkDrops(sub) == sub.key = AnyLink

(* A topic is subscribed to without a link id, and no filter above chooses.  *)
DropsSecondary(sub) == sub.key = AnyLink /\ ~sub.defers

Wants(sub, m) == Matches(sub, m.key) /\ ~(DropsSecondary(sub) /\ ~m.primary)

Receivers(m) ==
  {i \in DOMAIN subs : subs[i].state = "live" /\ Wants(subs[i], m)}

(* What the caller of publish may rely on: the profile keeps the sample on a *)
(* congested link, and one message of an emission suits the subscription.    *)
Due(sub, m) ==
  /\ sub.state = "live"
  /\ adapter = "mock" \/ m.profile \in {"Reliable", "Critical"}
  /\ sub.key = m.key \/ (sub.key = AnyLink /\ m.key # Feedback)
  /\ m.primary \/ sub.key # AnyLink \/ sub.defers

Expect(m) ==
  [i \in DOMAIN subs |->
     IF Due(subs[i], m) THEN [subs[i] EXCEPT !.due = @ \cup {m}] ELSE subs[i]]

(* send_async of the mock, send in the callback of zenoh: the sender waits   *)
(* for room, and an error says only that the receiver is gone.               *)
HasRoom(i) == subs[i].state = "gone" \/ Len(subs[i].queue) < subs[i].size

(* Slip: try_send, which loses what does not fit.                            *)
HasRoomOrLoses(i) == TRUE

Sendable(i) == HasRoom(i)

Enqueue(i, m) ==
  subs' = IF subs[i].state = "gone" \/ Len(subs[i].queue) = subs[i].size
          THEN subs ELSE [subs EXCEPT ![i].queue = Append(@, m)]

-----------------------------------------------------------------------------
(* The handle: whoever calls the messenger has locked it                     *)

Usable == session = "open"

MayCall(t) == holder = Free /\ calling[t] = Idle

(* Operations that are over when the lock is free again.                     *)
OpenSession(t) ==
  /\ MayCall(t) /\ session = "none" /\ session' = "open"
  /\ UNCHANGED <<adapter, holder, calling, publisher, subs, linkVars, sent>>

(* The channels of the subscriptions are closed; in zenoh the samples that   *)
(* were not delivered go with the session.                                   *)
CloseSession(t) ==
  /\ MayCall(t) /\ Usable /\ session' = "closed"
  /\ subs' = [i \in DOMAIN subs |->
                IF subs[i].state = "live"
                THEN [subs[i] EXCEPT !.state = "ended"] ELSE subs[i]]
  /\ network' = <<>> /\ arriving' = NoSample
  /\ UNCHANGED <<adapter, holder, calling, publisher, sent>>

(* subscribe_topic, and subscribe_action_feedback for the feedback stream:   *)
(* without a session an error.                                               *)
Subscribe(t, key, defers, profile) ==
  /\ MayCall(t) /\ Usable /\ Len(subs) + sent < MaxWork
  /\ subs' = Append(subs, [key |-> key, defers |-> defers, state |-> "live",
                           size |-> SizeFor(SubscriberQoS(profile)),
                           queue |-> <<>>, got |-> <<>>, due |-> {}])
  /\ UNCHANGED <<adapter, session, holder, calling, publisher, linkVars, sent>>

(* declare_topic_publisher, declare_action_feedback_publisher: zenoh clones  *)
(* its session, the mock its map of subscriptions.                           *)
DeclarePublisher(t, key, profile) ==
  /\ MayCall(t) /\ (adapter = "mock" \/ Usable) /\ publisher = Unbound
  /\ publisher' = [key |-> key, profile |-> profile]
  /\ UNCHANGED <<adapter, session, holder, calling, subs, linkVars, sent>>

SubscribeTopic(t, link) == Subscribe(t, link, FALSE, "Standard")

(* A slot that excludes what a sibling claims chooses above the adapter.     *)
SubscribeDeferring(t) == Subscribe(t, AnyLink, TRUE, "SensorData")

SubscribeActionFeedback(t) == Subscribe(t, Feedback, FALSE, "Standard")

DeclareTopicPublisher(t, link, profile) == DeclarePublisher(t, link, profile)

(* Feedback is published with PublisherQoS::Important.                       *)
DeclareActionFeedbackPublisher(t) == DeclarePublisher(t, Feedback, "Reliable")

(* The call is over when no channel is left to send to, or the sample is put.*)
Returns(t) ==
  /\ calling' = [calling EXCEPT ![t] = Idle]
  /\ holder' = IF holder = t THEN Free ELSE holder

Publishing(t, m, locked) ==
  LET to == IF adapter = "mock" THEN Receivers(m) ELSE {} IN
  /\ sent' = sent + 1 /\ subs' = Expect(m)
  /\ IF adapter = "mock" /\ to = {} THEN UNCHANGED <<calling, holder>>
     ELSE /\ calling' =
               [calling EXCEPT ![t] = [call |-> "publish", m |-> m, to |-> to]]
          /\ holder' = IF locked THEN t ELSE holder
  /\ UNCHANGED <<adapter, session, publisher, linkVars>>

(* publish_topic of the messenger: the lock is kept until it returns.        *)
PublishOnce(t, key, primary, profile) ==
  /\ MayCall(t) /\ Usable /\ Len(subs) + sent < MaxWork
  /\ Publishing(t, Message(t, key, primary, profile), TRUE)

(* MessengerPublisher::publish goes past the lock, and in the mock past the  *)
(* session as well; a session of zenoh that was closed returns an error.     *)
PublishBound(t) ==
  /\ calling[t] = Idle /\ publisher # Unbound /\ Len(subs) + sent < MaxWork
  /\ adapter = "mock" \/ Usable
  /\ Publishing(t, Message(t, publisher.key, TRUE, publisher.profile), FALSE)

(* route_publish, a channel after the other, in the order of a hash map.     *)
RouteTo(t, i) ==
  /\ calling[t].call = "publish" /\ i \in calling[t].to
  /\ Sendable(i) /\ Enqueue(i, calling[t].m)
  /\ IF calling[t].to = {i} THEN Returns(t)
     ELSE calling' = [calling EXCEPT ![t].to = @ \ {i}] /\ UNCHANGED holder
  /\ UNCHANGED <<adapter, session, publisher, linkVars, sent>>

(* session.put: it waits for the link, or the sample is dropped.             *)
Put(t) ==
  /\ adapter = "zenoh" /\ calling[t].call = "publish"
  /\ LET full == Len(network) = LinkSize
         qos  == PublisherQoS(calling[t].m.profile)
         lost == full /\ CongestionControl(qos) = "Drop"
     IN  /\ ~full \/ lost
         /\ network' = IF lost \/ ~Usable THEN network
                       ELSE Append(network, calling[t].m)
  /\ Returns(t)
  /\ UNCHANGED <<adapter, session, publisher, subs, arriving, sent>>

(* The callbacks of a session are called for one sample after the other.     *)
Arrive ==
  /\ arriving.to = {} /\ network # <<>>
  /\ arriving' = [m |-> Head(network), to |-> Receivers(Head(network))]
  /\ network' = Tail(network)
  /\ UNCHANGED <<adapter, session, holder, calling, publisher, subs, sent>>

Callback(i) ==
  /\ i \in arriving.to /\ Sendable(i)
  /\ Enqueue(i, arriving.m)
  /\ arriving' = [arriving EXCEPT !.to = @ \ {i}]
  /\ UNCHANGED <<adapter, session, holder, calling, publisher, network, sent>>

-----------------------------------------------------------------------------
(* The subscriber: on_next_message, and the drop of its Subscription         *)

(* Is a subscriber known, of this process or of another one?                 *)
Matched(elsewhere, all) ==
  \/ elsewhere
  \/ \E i \in DOMAIN all : all[i].state = "live" /\ all[i].key # Feedback

(* The listener of a task that waits for one is told when that changes.      *)
ListenerTold(t, elsewhere, all) ==
  LET now     == Matched(elsewhere, all)
      listens == calling[t].step \in {"recheck", "parked"}
      changes == now # Matched(calling[t].elsewhere, subs)
  IN  [calling[t] EXCEPT !.elsewhere = elsewhere,
         !.events = IF listens /\ changes THEN Append(@, now) ELSE @]

NextMessage(i) ==
  /\ subs[i].state # "gone" /\ subs[i].queue # <<>>
  /\ subs' = [subs EXCEPT ![i].queue = Tail(@),
                          ![i].got = Append(@, Head(subs[i].queue))]
  /\ UNCHANGED <<adapter, session, holder, calling, publisher, linkVars, sent>>

DropSubscription(i) ==
  /\ subs[i].state # "gone"
  /\ subs' = [subs EXCEPT ![i].state = "gone", ![i].queue = <<>>]
  /\ calling' = [t \in Sharers |->
                   IF calling[t].call = "wait"
                   THEN ListenerTold(t, calling[t].elsewhere, subs')
                   ELSE calling[t]]
  /\ UNCHANGED <<adapter, session, holder, publisher, linkVars, sent>>

-----------------------------------------------------------------------------
(* wait_for_matching_subscriber: check, listen, check again, wait            *)

(* For the sake of the first message.  The lock is kept for the whole wait;  *)
(* the mock returns true at once.                                            *)
WaitForSubscriber(t) ==
  /\ MayCall(t) /\ Usable /\ adapter = "zenoh" /\ sent = 0
  /\ holder' = t
  /\ \E b \in BOOLEAN :
       calling' = [calling EXCEPT ![t] = [call |-> "wait", step |-> "check",
                                      elsewhere |-> b, events |-> <<>>]]
  /\ UNCHANGED <<adapter, session, publisher, subs, linkVars, sent>>

(* A subscriber of another process comes or goes: external.                  *)
ElsewhereChanges(t) ==
  /\ calling[t].call = "wait" /\ Len(calling[t].events) < 2
  /\ calling' =
       [calling EXCEPT ![t] = ListenerTold(t, ~calling[t].elsewhere, subs)]
  /\ UNCHANGED <<adapter, session, holder, publisher, subs, linkVars, sent>>

CheckMatching(t, step, next) ==
  /\ calling[t].call = "wait" /\ calling[t].step = step
  /\ IF Matched(calling[t].elsewhere, subs) THEN Returns(t)
     ELSE calling' = [calling EXCEPT ![t].step = next] /\ UNCHANGED holder
  /\ UNCHANGED <<adapter, session, publisher, subs, linkVars, sent>>

(* Slip: the status is not asked again.                                      *)
StraightToWait == "parked"

OnceListening == "recheck"

InstallListener(t) ==
  /\ calling[t].call = "wait" /\ calling[t].step = "listen"
  /\ calling' = [calling EXCEPT ![t].step = OnceListening]
  /\ UNCHANGED <<adapter, session, holder, publisher, subs, linkVars, sent>>

(* The listener's event, or the timeout.                                     *)
EndWait(t) ==
  /\ calling[t].call = "wait" /\ calling[t].step = "parked"
  /\ IF calling[t].events # <<>> /\ ~Head(calling[t].events)
     THEN calling' = [calling EXCEPT ![t].events = Tail(@)] /\ UNCHANGED holder
     ELSE Returns(t)
  /\ UNCHANGED <<adapter, session, publisher, subs, linkVars, sent>>
-----------------------------------------------------------------------------
TransportInit ==
  /\ adapter \in {"mock", "zenoh"} /\ session = "none" /\ holder = Free
  /\ calling = [t \in Sharers |-> Idle] /\ publisher = Unbound
  /\ subs = <<>> /\ network = <<>> /\ arriving = NoSample
  /\ sent = 0

TaskStep(t) ==
  \/ OpenSession(t) \/ CloseSession(t)
  \/ \E k \in LinkIds \cup {AnyLink} : SubscribeTopic(t, k)
  \/ SubscribeDeferring(t) \/ SubscribeActionFeedback(t)
  \/ \E k \in LinkIds, p \in Profiles : DeclareTopicPublisher(t, k, p)
  \/ DeclareActionFeedbackPublisher(t)
  \/ \E k \in LinkIds, b \in BOOLEAN, p \in Profiles : PublishOnce(t, k, b, p)
  \/ PublishBound(t) \/ Put(t)
  \/ \E i \in DOMAIN subs : RouteTo(t, i)
  \/ WaitForSubscriber(t) \/ ElsewhereChanges(t)
  \/ CheckMatching(t, "check", "listen") \/ InstallListener(t)
  \/ CheckMatching(t, "recheck", "parked") \/ EndWait(t)

TransportNext ==
  \/ \E t \in Sharers : TaskStep(t)
  \/ Arrive
  \/ \E i \in DOMAIN subs : Callback(i) \/ NextMessage(i) \/ DropSubscription(i)

TransportSpec == TransportInit /\ [][TransportNext]_transportVars

-----------------------------------------------------------------------------
Underway(m, i) ==
  \/ \E t \in Sharers :
       /\ calling[t].call = "publish" /\ calling[t].m = m
       /\ adapter = "zenoh" \/ i \in calling[t].to
  \/ m \in Range(network) \/ (i \in arriving.to /\ arriving.m = m)

(* What a subscription was promised is read, waits in its channel or is on   *)
(* its way, whoever reads how slowly; the messages of a publisher come once, *)
(* in the order they were published, and of an emission one.  A task that    *)
(* waits for a subscriber with the messenger locked has been told of the one *)
(* there is (route_publish, the callbacks of zenoh.rs,                       *)
(* wait_for_matching_subscriber).                                            *)
MessagesArrive ==
  /\ \A i \in DOMAIN subs :
       LET s == subs[i]
           all == s.got \o s.queue
       IN  /\ s.state = "live" =>
                \A m \in s.due : m \in Range(all) \/ Underway(m, i)
           /\ \A j, k \in DOMAIN all :
                j < k /\ all[j].by = all[k].by => all[j].n < all[k].n
           /\ s.key = AnyLink /\ ~s.defers => \A m \in Range(all) : m.primary
  /\ \A t \in Sharers :
       calling[t].call = "wait" =>
         (calling[t].step = "parked" /\ Matched(calling[t].elsewhere, subs) =>
            TRUE \in Range(calling[t].events))
=============================================================================
