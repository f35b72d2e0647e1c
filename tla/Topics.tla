-------------------------------- MODULE Topics --------------------------------
(***************************************************************************)
(* Topics as a node consumes them: the slots its manifest declares under   *)
(* depends_on, the producers the daemon binds to them, the filter          *)
(* resolve_consumer_filter derives from both (peppylib-rs/src/messaging/   *)
(* filter.rs), and the subscriptions TopicMessenger::subscribe opens under *)
(* that filter, with their reservation (messaging/topics.rs,               *)
(* messaging.rs).                                                          *)
(*                                                                         *)
(* A slot asks for the producers of a type, its (name, tag).  A producer   *)
(* is the pair of its core node and its instance id.  A transport that     *)
(* matches key expressions as WireFormat has it hands each publish to the  *)
(* subscriptions that match, in order.                                     *)
(*                                                                         *)
(* An operator introduced by "Slip" is a wrong version of the one after    *)
(* it; nothing uses it but the runs that show which property would notice. *)
(***************************************************************************)
EXTENDS Naturals, Sequences, FiniteSets, FiniteSetsExt, SequencesExt

CONSTANTS
  CoreNodes, InstanceIds,  \* of the producers
  Types,                   \* (name, tag) of nodes or interfaces
  Slots,                   \* link ids of the consumer's slots
  TopicNames,
  PythonNode,              \* is the consumer a Python node?
  MaxSubscriptions,        \* bound of the model: subscriptions opened
  MaxPublishes             \* bound of the model: messages published

ASSUME TopicsAssumption ==
  PythonNode \in BOOLEAN /\ MaxSubscriptions \in Nat /\ MaxPublishes \in Nat

VARIABLES
  manifest,     \* of the consumer: the type and the kind of each slot
  bindings,     \* slot_bindings of the RuntimeConfig
  reserved,     \* active_from_any_topics
  subscriptions, \* opened or refused, in the order of the calls
  published     \* messages published so far

topicVars == <<manifest, bindings, reserved, subscriptions, published>>

Producers == CoreNodes \X InstanceIds

-----------------------------------------------------------------------------
(* Slots                                                                     *)

NotRead == [s \in {} |-> TRUE]

(* validate_depends_on: one from_any slot for a type; link ids are unique.   *)
ConsumerManifests ==
  {m \in [Slots -> [type : Types, fromAny : BOOLEAN]] :
     \A s, t \in Slots :
       s # t /\ m[s].fromAny /\ m[t].fromAny => m[s].type # m[t].type}

Pinned == [kind : {"Pinned"}, producers : {{p} : p \in Producers}]
Bound == [kind : {"FromAnyBound"}, producers : SUBSET Producers]
Unbound == [kind : {"FromAnyUnbound"}, producers : {{}}]

BindingsOf(m) ==
  {b \in [Slots -> Pinned \cup Bound \cup Unbound] :
     \A s \in Slots : m[s].fromAny <=> b[s].kind # "Pinned"}

SlotsOf(type) == {s \in Slots : manifest[s].type = type}

(* pinned_claims_for_name_tag and all_sibling_claims_for_name_tag.           *)
PinnedClaims(type) ==
  UNION {bindings[s].producers : s \in {t \in SlotsOf(type) : ~manifest[t].fromAny}}

AllClaims(type) == UNION {bindings[s].producers : s \in SlotsOf(type)}

Filter(kind, producers) == [kind |-> kind, producers |-> producers]

(* Slip: what a pinned sibling claims stays with the from_any slot as well.  *)
KeepsAll(slot) == bindings[slot].producers

Effective(slot) == bindings[slot].producers \ PinnedClaims(manifest[slot].type)

(* resolve_consumer_filter; the processor keeps its answer.                  *)
ConsumerFilter(slot) ==
  CASE bindings[slot].kind = "Pinned" -> Filter("Pin", bindings[slot].producers)
    [] bindings[slot].kind = "FromAnyBound" ->
         Filter(IF Cardinality(Effective(slot)) = 1 THEN "Pin" ELSE "OnlyFrom",
                Effective(slot))
    [] bindings[slot].kind = "FromAnyUnbound" ->
         LET claimed == AllClaims(manifest[slot].type)
         IN  Filter(IF claimed = {} THEN "Any" ELSE "AnyExcept", claimed)

(* What a subscription is opened with: a Python node passes the pinned       *)
(* producer of its slot, or none.                                            *)
FilterUsed(slot) ==
  IF PythonNode /\ ConsumerFilter(slot).kind # "Pin" THEN Filter("Any", {})
  ELSE ConsumerFilter(slot)

-----------------------------------------------------------------------------
(* Subscriptions                                                             *)

(* The producers the key expression pins, and those the filter above it      *)
(* accepts.                                                                  *)
OnTheWire(f) == IF f.kind = "Pin" THEN f.producers ELSE Producers

Accepts(f, p) ==
  CASE f.kind = "OnlyFrom"  -> p \in f.producers
    [] f.kind = "AnyExcept" -> p \notin f.producers
    [] OTHER                -> TRUE

Open(s) == s.state \in {"opening", "live"}

(* The key of reserve_from_any_topic: the pin, if there is one, and the type.*)
ReservationKey(slot) ==
  <<IF FilterUsed(slot).kind = "Pin" THEN FilterUsed(slot).producers ELSE {},
    manifest[slot].type>>

(* The manifest is validated and the daemon's bindings are read.             *)
Configure ==
  /\ manifest = NotRead
  /\ \E m \in ConsumerManifests : manifest' = m /\ bindings' \in BindingsOf(m)
  /\ UNCHANGED <<reserved, subscriptions, published>>

NewSubscription(slot, topic, state) ==
  [slot |-> slot, topic |-> topic, state |-> state, queue |-> <<>>,
   given |-> <<>>, meant |-> <<>>]

(* Slip: the guard is made before the insertion, and dropped with the error. *)
GuardFirst(key) == reserved \ {key}

AfterRefusal(key) == reserved

(* The reservation comes before the declaration is awaited.                  *)
SubscribeTo(slot, topic) ==
  /\ manifest # NotRead /\ Len(subscriptions) < MaxSubscriptions
  /\ LET key     == ReservationKey(slot)
         refused == manifest[slot].fromAny /\ key \in reserved
     IN  /\ reserved' = IF refused THEN AfterRefusal(key)
                        ELSE IF manifest[slot].fromAny THEN reserved \cup {key}
                        ELSE reserved
         /\ subscriptions' = Append(subscriptions,
              NewSubscription(slot, topic, IF refused THEN "refused" ELSE "opening"))
  /\ UNCHANGED <<manifest, bindings, published>>

Declared(i) ==
  /\ subscriptions[i].state = "opening"
  /\ subscriptions' = [subscriptions EXCEPT ![i].state = "live"]
  /\ UNCHANGED <<manifest, bindings, reserved, published>>

(* The subscription is dropped, its declaration fails, or the caller drops   *)
(* the future of subscribe: the guard is dropped with it.                    *)
Dropped(i) ==
  /\ Open(subscriptions[i])
  /\ subscriptions' =
       [subscriptions EXCEPT ![i] = NewSubscription(@.slot, @.topic, "closed")]
  /\ reserved' = IF manifest[subscriptions[i].slot].fromAny
                 THEN reserved \ {ReservationKey(subscriptions[i].slot)}
                 ELSE reserved
  /\ UNCHANGED <<manifest, bindings, published>>

(* Whom the slot is for, by the rules of resolve_consumer_filter's comment.  *)
MeantFor(slot, p) ==
  LET mine     == manifest[slot]
      siblings == {s \in Slots \ {slot} : manifest[s].type = mine.type}
      claimed(s) == p \in bindings[s].producers
  IN  CASE bindings[slot].kind = "Pinned" -> claimed(slot)
        [] bindings[slot].kind = "FromAnyBound" ->
             claimed(slot) /\ ~\E s \in siblings : ~manifest[s].fromAny /\ claimed(s)
        [] bindings[slot].kind = "FromAnyUnbound" -> ~\E s \in siblings : claimed(s)

(* A producer publishes on a topic of a type it is of.                       *)
PublishTopic(p, type, topic) ==
  /\ manifest # NotRead /\ published < MaxPublishes
  /\ published' = published + 1
  /\ subscriptions' =
       [i \in DOMAIN subscriptions |->
          LET s   == subscriptions[i]
              msg == <<published + 1, p>>
          IN  IF s.state # "live" \/ s.topic # topic \/ manifest[s.slot].type # type
              THEN s
              ELSE [s EXCEPT !.queue = IF p \in OnTheWire(FilterUsed(s.slot))
                                       THEN Append(@, msg) ELSE @,
                             !.meant = IF MeantFor(s.slot, p)
                                       THEN Append(@, msg) ELSE @]]
  /\ UNCHANGED <<manifest, bindings, reserved>>

(* on_next_message: one turn of its loop, also try_on_next_message.          *)
NextMessage(i) ==
  LET s   == subscriptions[i]
      msg == Head(s.queue)
  IN  /\ s.state = "live" /\ s.queue # <<>>
      /\ subscriptions' = [subscriptions EXCEPT
           ![i].queue = Tail(@),
           ![i].given = IF Accepts(FilterUsed(s.slot), msg[2]) THEN Append(@, msg) ELSE @]
      /\ UNCHANGED <<manifest, bindings, reserved, published>>

-----------------------------------------------------------------------------
TopicsInit ==
  /\ manifest = NotRead /\ bindings = NotRead
  /\ reserved = {} /\ subscriptions = <<>> /\ published = 0

TopicsNext ==
  \/ Configure
  \/ \E slot \in Slots, topic \in TopicNames : SubscribeTo(slot, topic)
  \/ \E i \in DOMAIN subscriptions : Declared(i) \/ Dropped(i) \/ NextMessage(i)
  \/ \E p \in Producers, type \in Types, topic \in TopicNames :
       PublishTopic(p, type, topic)

TopicsSpec == TopicsInit /\ [][TopicsNext]_topicVars

-----------------------------------------------------------------------------
(* In the order in which the messages were published: they are numbered.     *)
Ascends(q) == \A k, l \in DOMAIN q : k < l => q[k][1] < q[l][1]

(* "Pinned-bound preempts from_any" and "explicit bindings replace the       *)
(* wildcard fallback" (resolve_consumer_filter): a live subscription has     *)
(* handed over, or still holds, exactly the messages published since it went *)
(* live by the producers its slot is for, in order.  Producers that share an *)
(* instance id on two core nodes are told apart.                             *)
SlotGetsItsOwn ==
  \A i \in DOMAIN subscriptions :
    LET s == subscriptions[i]
        waiting == {m \in ToSet(s.queue) : Accepts(FilterUsed(s.slot), m[2])}
    IN  /\ ToSet(s.given) \cup waiting = ToSet(s.meant)
        /\ Ascends(s.given \o s.queue) /\ Ascends(s.meant)

(* A from_any reservation is held while its subscription is opening or live, *)
(* by that one only, and is free again afterwards, however the subscription  *)
(* ended: no two live ones see the same publish (reserve_from_any_topic,     *)
(* FromAnyTopicGuard).                                                       *)
ReservationIsLive ==
  LET holders == {i \in DOMAIN subscriptions :
                    Open(subscriptions[i]) /\ manifest[subscriptions[i].slot].fromAny}
  IN  /\ reserved = {ReservationKey(subscriptions[i].slot) : i \in holders}
      /\ \A i, j \in holders :
           i # j => ToSet(subscriptions[i].meant) \cap ToSet(subscriptions[j].meant) = {}
=============================================================================
