----------------------------- MODULE WireRouting -----------------------------
(***************************************************************************)
(* Who receives what: the key expressions of WireFormat against the        *)
(* addresses they stand for.  The state is one message under way, from any *)
(* sender the constructors accept (peppy-messaging-interface/src/wire.rs); *)
(* the invariants range over everybody who could receive it.               *)
(***************************************************************************)
EXTENDS WireFormat

VARIABLE wire  \* the message under way

-----------------------------------------------------------------------------
(* One message under way.                                                    *)

WireInit == wire = [shape |-> "none"]

SendTopic ==
  \E s \in TopicSenders : wire' = [shape |-> "topic", from |-> s]

SendRequest ==
  \E s \in ServiceSenders : wire' = [shape |-> "request", from |-> s]

SendFeedback ==
  \E r \in ActionReceivers, g \in Segment :
    wire' = [shape |-> "feedback", from |-> r, goal |-> g]

DeclareToken ==
  \E r \in ActionReceivers : wire' = [shape |-> "token", from |-> r]

WireNext ==
  wire.shape = "none" /\ (SendTopic \/ SendRequest \/ SendFeedback \/ DeclareToken)

WireSpec == WireInit /\ [][WireNext]_wire

-----------------------------------------------------------------------------
(* Who is meant, without key expressions                                     *)

Pins(given, value) == given \in {NotGiven, value}

TopicMeans(s, r) ==
  /\ Pins(r.fromCore, s.core) /\ Pins(r.fromInst, s.inst)
  /\ r.target \in {AnyTarget, s.target}
  /\ Pins(r.link, s.link) /\ r.topic = s.topic

ProducerMeant(s, r) ==
  Pins(s.to[1], r.core) /\ Pins(s.to[2], r.inst) /\ s.target = r.target

(* A receiver's own name does not matter to what it subscribes to, nor the   *)
(* caller's own name to whom it reaches: one of each is enough.              *)
Me == CHOOSE w \in Segment : TRUE
IsMe(a) == a.core = Me /\ a.inst = Me

TopicsRouted ==
  wire.shape = "topic" =>
    /\ \A r \in TopicReceivers : IsMe(r) =>
         (KeyExprsIntersect(TopicPublish(wire.from), TopicSubscribe(r))
            <=> TopicMeans(wire.from, r))
    /\ \A s \in ActionSenders, g \in Segment : IsMe(s) =>
         ~KeyExprsIntersect(TopicPublish(wire.from), ActionFeedbackSubscribe(s, g))

(* A probe and a request are told apart, and neither is taken for a reply.   *)
LanesApart(r, key) ==
  /\ \A k \in RequestKinds :
       /\ Dispatches(r, key, QueryAttachment(k)) /\ QueryKind(QueryAttachment(k)) = k
       /\ ~DecodesReply(QueryAttachment(k))
  /\ \A k \in DOMAIN ReplyKinds :
       LET bytes == ReplyAttachment(k - 1)
       IN  /\ DecodesReply(bytes) /\ ReplyKind(bytes) = ReplyKinds[k]
           /\ ~Dispatches(r, key, bytes)

RequestsRouted ==
  wire.shape = "request" =>
    \A r \in ServiceReceivers :
      LET key == ServiceGetSelector(wire.from)
          meant == /\ ProducerMeant(wire.from, r)
                   /\ wire.from.name = r.name /\ wire.from.kind = r.kind
      IN  /\ KeyExprsIntersect(key, ServiceQueryableDeclare(r)) <=> meant
          /\ meant => LanesApart(r, key)

FeedbackRouted ==
  wire.shape = "feedback" =>
    LET key == ActionFeedbackPublish(wire.from, DEFAULT_LINK_ID, wire.goal) IN
    /\ \A s \in ActionSenders, g \in Segment : IsMe(s) =>
         (KeyExprsIntersect(key, ActionFeedbackSubscribe(s, g))
            <=> ProducerMeant(s, wire.from) /\ s.name = wire.from.name /\ g = wire.goal)
    /\ \A r \in TopicReceivers : IsMe(r) => ~KeyExprsIntersect(key, TopicSubscribe(r))

TokensRouted ==
  wire.shape = "token" =>
    \A s \in ActionSenders : IsMe(s) =>
      (KeyExprsIntersect(ActionLivelinessToken(wire.from), ActionLivelinessWatch(s))
         <=> ProducerMeant(s, wire.from) /\ s.name = wire.from.name)

(* Whoever reads a message knows the producer: a subscriber from what was    *)
(* published, a caller from the reply.  A queryable that is handed a         *)
(* selector meant for another producer refuses it, and learns who calls      *)
(* (parse_topic_keyexpr, parse_inbound_query, service_reply_keyexpr).        *)
ProducerIsKnown ==
  /\ wire.shape = "topic" =>
       ParseTopicKeyexpr(TopicPublish(wire.from))
         = [ok |-> TRUE, core |-> wire.from.core, inst |-> wire.from.inst,
            link |-> wire.from.link]
  /\ wire.shape = "feedback" =>
       LET p == ParseTopicKeyexpr(
                  ActionFeedbackPublish(wire.from, DEFAULT_LINK_ID, wire.goal))
       IN  p.ok /\ p.core = wire.from.core /\ p.inst = wire.from.inst
  /\ wire.shape = "request" =>
       \A r \in ServiceReceivers :
         LET key   == ServiceGetSelector(wire.from)
             q     == ParseInboundQuery(r, key, QueryAttachment("UserRequest"))
             reply == ServiceReplyKeyexpr(r, DEFAULT_LINK_ID, q.core, q.inst)
         IN  q.ok => /\ ProducerMeant(wire.from, r)
                     /\ q.core = wire.from.core /\ q.inst = wire.from.inst
                     /\ ParseTopicKeyexpr(reply)
                          = [ok |-> TRUE, core |-> r.core, inst |-> r.inst,
                             link |-> DEFAULT_LINK_ID]

(* A message meets exactly the subscriptions, queryables, feedback streams   *)
(* and watches that its address means, whatever names users choose: no two   *)
(* slots and no two kinds of message can be taken for each other, and who    *)
(* reads it knows who sent it (zenoh_format.rs).                             *)
RoutedAsAddressed ==
  TopicsRouted /\ RequestsRouted /\ FeedbackRouted /\ TokensRouted /\ ProducerIsKnown
=============================================================================
