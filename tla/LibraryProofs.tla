----------------------------- MODULE LibraryProofs -----------------------------
(***************************************************************************)
(* Proofs about the parts of the node library that Topics, RouterSession,  *)
(* ClockSync, Pacer and SimBridge model: for every set of slots, producers, *)
(* topics and organizations, every clock value and offset, every period,   *)
(* and every number of arms and ticks.                                     *)
(***************************************************************************)
EXTENDS Topics, RouterSession, ClockSync, Pacer, SimBridge, TLAPS

-----------------------------------------------------------------------------
(* Topics                                                                    *)

Messages == Nat \X Producers

Subscriptions ==
  [slot : Slots, topic : TopicNames, state : {"opening", "live", "refused", "closed"},
   queue : Seq(Messages), given : Seq(Messages), meant : Seq(Messages)]

Numbered(q) == \A k \in DOMAIN q : q[k][1] <= published

TopicTypes ==
  /\ published \in Nat /\ subscriptions \in Seq(Subscriptions)
  /\ manifest = NotRead => subscriptions = <<>> /\ reserved = {}
  /\ manifest # NotRead => manifest \in ConsumerManifests /\ bindings \in BindingsOf(manifest)
  /\ \A i \in DOMAIN subscriptions :
       /\ Numbered(subscriptions[i].queue) /\ Numbered(subscriptions[i].given)
       /\ Numbered(subscriptions[i].meant)

(* A message is of one type, and so was meant for the slots of one type.     *)
TypesApart ==
  \A i, j \in DOMAIN subscriptions :
    manifest[subscriptions[i].slot].type # manifest[subscriptions[j].slot].type =>
      \A k \in DOMAIN subscriptions[i].meant, l \in DOMAIN subscriptions[j].meant :
        subscriptions[i].meant[k] # subscriptions[j].meant[l]

Holds(s) == Open(s) /\ manifest[s.slot].fromAny

(* What a slot reserves, and the filter its subscriptions are opened with.   *)
Keys == [slot \in Slots |-> ReservationKey(slot)]
Filters == [slot \in Slots |-> FilterUsed(slot)]

(* A reservation is of one subscription, and every holder has one.           *)
ReservedOnce ==
  /\ \A key \in reserved :
       \E i \in DOMAIN subscriptions :
         Holds(subscriptions[i]) /\ key = Keys[subscriptions[i].slot]
  /\ \A i \in DOMAIN subscriptions :
       Holds(subscriptions[i]) => Keys[subscriptions[i].slot] \in reserved
  /\ \A i, j \in DOMAIN subscriptions :
       i # j /\ Holds(subscriptions[i]) /\ Holds(subscriptions[j]) =>
         Keys[subscriptions[i].slot] # Keys[subscriptions[j].slot]

TopicInv == TopicTypes /\ TypesApart /\ ReservedOnce

LEMMA SlotsStay ==
  ASSUME UNCHANGED <<manifest, bindings>>
  PROVE  Keys' = Keys /\ Filters' = Filters
  BY DEF Keys, Filters, ReservationKey, FilterUsed, ConsumerFilter, Effective, PinnedClaims,
     AllClaims, SlotsOf, Filter

LEMMA SubscriptionIsTyped ==
  ASSUME TopicTypes, NEW i \in DOMAIN subscriptions
  PROVE  /\ subscriptions[i] \in Subscriptions /\ subscriptions[i].slot \in Slots
         /\ subscriptions[i].queue \in Seq(Messages)
         /\ subscriptions[i].given \in Seq(Messages)
         /\ subscriptions[i].meant \in Seq(Messages)
  <1>1. subscriptions \in Seq(Subscriptions)
    BY DEF TopicTypes
  <1>2. subscriptions[i] \in Subscriptions
    BY <1>1
  <1> QED BY <1>2 DEF Subscriptions

LEMMA MessageIsLast ==
  ASSUME NEW q \in Seq(Messages), NEW m \in Messages
  PROVE  /\ Append(q, m) \in Seq(Messages) /\ Len(Append(q, m)) = Len(q) + 1
         /\ Len(q) \in Nat /\ DOMAIN q = 1..Len(q)
         /\ \A k \in DOMAIN q : Append(q, m)[k] = q[k]
         /\ Len(q) + 1 \in DOMAIN Append(q, m) /\ Append(q, m)[Len(q) + 1] = m
         /\ \A k \in DOMAIN q : k \in DOMAIN Append(q, m)
         /\ \A k \in DOMAIN Append(q, m) : k \in DOMAIN q \/ k = Len(q) + 1
  OBVIOUS

LEMMA MessagesLeft ==
  ASSUME NEW q \in Seq(Messages), q # <<>>
  PROVE  /\ Tail(q) \in Seq(Messages) /\ 1 \in DOMAIN q /\ Head(q) = q[1]
         /\ q[1] \in Messages /\ DOMAIN q = 1..Len(q) /\ Len(q) \in Nat
         /\ Len(Tail(q)) = Len(q) - 1
         /\ \A k \in DOMAIN Tail(q) : k + 1 \in DOMAIN q /\ Tail(q)[k] = q[k + 1]
  OBVIOUS

LEMMA SubscriptionIsLast ==
  ASSUME NEW q \in Seq(Subscriptions), NEW s \in Subscriptions
  PROVE  /\ Append(q, s) \in Seq(Subscriptions)
         /\ Len(q) \in Nat /\ DOMAIN q = 1..Len(q) /\ Len(q) + 1 \notin DOMAIN q
         /\ \A k \in DOMAIN q : k \in DOMAIN Append(q, s) /\ Append(q, s)[k] = q[k]
         /\ Len(q) + 1 \in DOMAIN Append(q, s) /\ Append(q, s)[Len(q) + 1] = s
         /\ \A k \in DOMAIN Append(q, s) : k \in DOMAIN q \/ k = Len(q) + 1
  OBVIOUS

(* The steps of a subscription that neither open it nor end it.              *)
LEMMA HoldersStay ==
  ASSUME TopicInv, DOMAIN subscriptions' = DOMAIN subscriptions,
         UNCHANGED <<manifest, bindings, reserved>>,
         \A i \in DOMAIN subscriptions :
           /\ subscriptions'[i].slot = subscriptions[i].slot
           /\ Open(subscriptions'[i]) = Open(subscriptions[i])
  PROVE  ReservedOnce'
  <1>1. \A i \in DOMAIN subscriptions : Holds(subscriptions[i])' = Holds(subscriptions[i])
    BY DEF Holds
  <1> QED BY <1>1, SlotsStay DEF TopicInv, ReservedOnce

LEMMA TypesStay ==
  ASSUME TypesApart, UNCHANGED manifest,
         \A i \in DOMAIN subscriptions' :
           \/ /\ i \in DOMAIN subscriptions
              /\ subscriptions'[i].slot = subscriptions[i].slot
              /\ subscriptions'[i].meant = subscriptions[i].meant
           \/ subscriptions'[i].meant = <<>>
  PROVE  TypesApart'
  <1>1. DOMAIN <<>> = {}
    OBVIOUS
  <1> QED BY <1>1 DEF TypesApart

LEMMA NothingNumbered == Numbered(<<>>) /\ Numbered(<<>>)' /\ <<>> \in Seq(Messages)
  BY DEF Numbered

LEMMA NewIsTyped ==
  ASSUME NEW slot \in Slots, NEW topic \in TopicNames,
         NEW state \in {"opening", "live", "refused", "closed"}
  PROVE  LET s == NewSubscription(slot, topic, state)
         IN  /\ s \in Subscriptions /\ s.slot = slot /\ s.state = state
             /\ s.queue = <<>> /\ s.given = <<>> /\ s.meant = <<>>
  <1>1. <<>> \in Seq(Messages)
    OBVIOUS
  <1> QED BY <1>1 DEF NewSubscription, Subscriptions

LEMMA SubscribeStep ==
  ASSUME TopicInv, NEW slot \in Slots, NEW topic \in TopicNames, SubscribeTo(slot, topic)
  PROVE  TopicInv'
  <1> DEFINE key     == Keys[slot]
             refused == manifest[slot].fromAny /\ key \in reserved
             new     == NewSubscription(slot, topic, IF refused THEN "refused" ELSE "opening")
             n       == Len(subscriptions) + 1
  <1>0. key = ReservationKey(slot)
    BY DEF Keys
  <1>1. /\ manifest # NotRead /\ UNCHANGED <<manifest, bindings, published>>
        /\ subscriptions' = Append(subscriptions, new)
        /\ reserved' = IF refused THEN reserved
                       ELSE IF manifest[slot].fromAny THEN reserved \cup {key} ELSE reserved
    BY <1>0 DEF SubscribeTo, AfterRefusal
  <1>2. /\ new \in Subscriptions /\ new.slot = slot /\ new.queue = <<>>
        /\ new.state = IF refused THEN "refused" ELSE "opening"
        /\ new.given = <<>> /\ new.meant = <<>>
    BY NewIsTyped
  <1>3. subscriptions \in Seq(Subscriptions)
    BY DEF TopicInv, TopicTypes
  <1> HIDE DEF new, n, key
  <1>4. /\ subscriptions' \in Seq(Subscriptions)
        /\ n \notin DOMAIN subscriptions /\ n \in DOMAIN subscriptions'
        /\ subscriptions'[n] = new
        /\ \A i \in DOMAIN subscriptions :
             i \in DOMAIN subscriptions' /\ subscriptions'[i] = subscriptions[i]
        /\ \A i \in DOMAIN subscriptions' : i \in DOMAIN subscriptions \/ i = n
    BY <1>1, <1>2, <1>3, SubscriptionIsLast DEF n
  <1>5. TopicTypes'
    <2>1. ASSUME NEW i \in DOMAIN subscriptions'
          PROVE  /\ Numbered(subscriptions[i].queue)' /\ Numbered(subscriptions[i].given)'
                 /\ Numbered(subscriptions[i].meant)'
      <3>1. DOMAIN <<>> = {}
        OBVIOUS
      <3> QED BY <1>1, <1>2, <1>4, <3>1 DEF TopicInv, TopicTypes, Numbered
    <2> QED BY <1>1, <1>4, <2>1 DEF TopicInv, TopicTypes
  <1>6. TypesApart'
    BY <1>1, <1>2, <1>4, TypesStay DEF TopicInv
  <1>7. ReservedOnce'
    <2>1. Keys' = Keys
      BY <1>1, SlotsStay
    <2>2. \A i \in DOMAIN subscriptions' :
            Holds(subscriptions[i])' =
              IF i = n THEN manifest[slot].fromAny /\ ~refused ELSE Holds(subscriptions[i])
      BY <1>1, <1>2, <1>4 DEF Holds, Open
    <2>3. ReservedOnce /\ Keys[new.slot] = key
      BY <1>2 DEF TopicInv, key
    <2>4. ASSUME NEW k \in reserved'
          PROVE  \E i \in DOMAIN subscriptions' :
                   Holds(subscriptions[i])' /\ k = Keys[subscriptions'[i].slot]
      <3>1. CASE k \in reserved
        BY <1>4, <2>2, <2>3, <3>1 DEF ReservedOnce
      <3>2. CASE k \notin reserved
        <4>1. k = key /\ manifest[slot].fromAny /\ ~refused
          BY <1>1, <2>4, <3>2
        <4> QED BY <1>4, <2>2, <2>3, <4>1
      <3> QED BY <3>1, <3>2
    <2>5. ASSUME NEW i \in DOMAIN subscriptions', Holds(subscriptions[i])'
          PROVE  Keys[subscriptions'[i].slot] \in reserved'
      BY <1>1, <1>4, <2>2, <2>3, <2>5 DEF ReservedOnce
    <2>6. ASSUME NEW i \in DOMAIN subscriptions', NEW j \in DOMAIN subscriptions', i # j,
                 Holds(subscriptions[i])', Holds(subscriptions[j])'
          PROVE  Keys[subscriptions'[i].slot] # Keys[subscriptions'[j].slot]
      <3>1. CASE i # n /\ j # n
        <4>1. /\ i \in DOMAIN subscriptions /\ j \in DOMAIN subscriptions
              /\ Holds(subscriptions[i]) /\ Holds(subscriptions[j])
              /\ subscriptions'[i] = subscriptions[i] /\ subscriptions'[j] = subscriptions[j]
          BY <1>4, <2>2, <2>6, <3>1
        <4> QED BY <2>3, <2>6, <4>1 DEF ReservedOnce
      <3>2. ASSUME NEW l \in DOMAIN subscriptions, Holds(subscriptions[l]),
                   manifest[slot].fromAny, ~refused
            PROVE  Keys[subscriptions[l].slot] # key
        BY <2>3, <3>2 DEF ReservedOnce
      <3>3. CASE i = n
        BY <1>4, <2>2, <2>3, <2>6, <3>2, <3>3
      <3>4. CASE j = n
        BY <1>4, <2>2, <2>3, <2>6, <3>2, <3>4
      <3> QED BY <3>1, <3>3, <3>4
    <2> QED BY <2>1, <2>4, <2>5, <2>6 DEF ReservedOnce
  <1> QED BY <1>5, <1>6, <1>7 DEF TopicInv

LEMMA OneChanges ==
  ASSUME TopicTypes, NEW i \in DOMAIN subscriptions, NEW s \in Subscriptions,
         subscriptions' = [subscriptions EXCEPT ![i] = s]
  PROVE  /\ subscriptions' \in Seq(Subscriptions)
         /\ DOMAIN subscriptions' = DOMAIN subscriptions /\ subscriptions'[i] = s
         /\ \A j \in DOMAIN subscriptions : j # i => subscriptions'[j] = subscriptions[j]
  <1>1. /\ subscriptions \in Seq(Subscriptions) /\ Len(subscriptions) \in Nat
        /\ DOMAIN subscriptions = 1..Len(subscriptions)
    BY DEF TopicTypes
  <1> QED BY <1>1

LEMMA DeclaredStep ==
  ASSUME TopicInv, NEW i \in DOMAIN subscriptions, Declared(i)
  PROVE  TopicInv'
  <1> DEFINE s == [subscriptions[i] EXCEPT !.state = "live"]
  <1>1. /\ subscriptions[i].state = "opening" /\ subscriptions' = [subscriptions EXCEPT ![i] = s]
        /\ UNCHANGED <<manifest, bindings, reserved, published>>
    BY DEF Declared
  <1>2. TopicTypes /\ TypesApart /\ subscriptions[i] \in Subscriptions
    BY SubscriptionIsTyped DEF TopicInv
  <1>3. /\ s \in Subscriptions /\ s.slot = subscriptions[i].slot /\ s.state = "live"
        /\ s.queue = subscriptions[i].queue /\ s.given = subscriptions[i].given
        /\ s.meant = subscriptions[i].meant
    BY <1>2 DEF Subscriptions
  <1> HIDE DEF s
  <1>4. /\ subscriptions' \in Seq(Subscriptions)
        /\ DOMAIN subscriptions' = DOMAIN subscriptions /\ subscriptions'[i] = s
        /\ \A j \in DOMAIN subscriptions : j # i => subscriptions'[j] = subscriptions[j]
    BY <1>1, <1>2, <1>3, OneChanges
  <1>5. \A j \in DOMAIN subscriptions :
          /\ subscriptions'[j].slot = subscriptions[j].slot
          /\ subscriptions'[j].queue = subscriptions[j].queue
          /\ subscriptions'[j].given = subscriptions[j].given
          /\ subscriptions'[j].meant = subscriptions[j].meant
          /\ Open(subscriptions'[j]) = Open(subscriptions[j])
    BY <1>1, <1>3, <1>4 DEF Open
  <1>6. TopicTypes'
    <2>1. subscriptions # <<>>
      BY <1>2 DEF TopicTypes
    <2> QED BY <1>1, <1>2, <1>4, <1>5, <2>1 DEF TopicTypes, Numbered
  <1>7. TypesApart'
    BY <1>1, <1>2, <1>4, <1>5, TypesStay
  <1>8. ReservedOnce'
    BY <1>1, <1>4, <1>5, HoldersStay
  <1> QED BY <1>6, <1>7, <1>8 DEF TopicInv

LEMMA DroppedStep ==
  ASSUME TopicInv, NEW i \in DOMAIN subscriptions, Dropped(i)
  PROVE  TopicInv'
  <1> DEFINE old == subscriptions[i]
             s   == NewSubscription(old.slot, old.topic, "closed")
             key == Keys[old.slot]
  <1>1. TopicTypes /\ TypesApart /\ old \in Subscriptions /\ old.slot \in Slots
        /\ old.topic \in TopicNames
    BY SubscriptionIsTyped DEF TopicInv, Subscriptions
  <1>2. /\ Open(old) /\ subscriptions' = [subscriptions EXCEPT ![i] = s]
        /\ UNCHANGED <<manifest, bindings, published>>
        /\ reserved' = IF manifest[old.slot].fromAny THEN reserved \ {key} ELSE reserved
    BY <1>1 DEF Dropped, Keys
  <1>3. /\ s \in Subscriptions /\ s.slot = old.slot /\ s.state = "closed"
        /\ s.queue = <<>> /\ s.given = <<>> /\ s.meant = <<>>
    BY <1>1, NewIsTyped
  <1> HIDE DEF s
  <1>4. /\ subscriptions' \in Seq(Subscriptions)
        /\ DOMAIN subscriptions' = DOMAIN subscriptions /\ subscriptions'[i] = s
        /\ \A j \in DOMAIN subscriptions : j # i => subscriptions'[j] = subscriptions[j]
    BY <1>1, <1>2, <1>3, OneChanges
  <1>6. TopicTypes'
    <2>1. subscriptions # <<>> /\ DOMAIN <<>> = {}
      BY <1>1 DEF TopicTypes
    <2>2. ASSUME NEW j \in DOMAIN subscriptions'
          PROVE  /\ Numbered(subscriptions[j].queue)' /\ Numbered(subscriptions[j].given)'
                 /\ Numbered(subscriptions[j].meant)'
      BY <1>1, <1>2, <1>3, <1>4, <2>1 DEF TopicTypes, Numbered
    <2> QED BY <1>1, <1>2, <1>4, <2>1, <2>2 DEF TopicTypes
  <1>7. TypesApart'
    BY <1>1, <1>2, <1>3, <1>4, TypesStay
  <1>8. ReservedOnce'
    <2>1. Keys' = Keys /\ ReservedOnce
      BY <1>2, SlotsStay DEF TopicInv
    <2>2. \A j \in DOMAIN subscriptions :
            Holds(subscriptions[j])' = IF j = i THEN FALSE ELSE Holds(subscriptions[j])
      BY <1>2, <1>3, <1>4 DEF Holds, Open
    <2>3. \A j \in DOMAIN subscriptions : j # i /\ Holds(subscriptions[j]) =>
            Keys[subscriptions[j].slot] \in reserved'
      <3> SUFFICES ASSUME NEW j \in DOMAIN subscriptions, j # i, Holds(subscriptions[j])
                   PROVE  Keys[subscriptions[j].slot] \in reserved'
        OBVIOUS
      <3>1. Keys[subscriptions[j].slot] \in reserved
        BY <2>1 DEF ReservedOnce
      <3>2. manifest[old.slot].fromAny => Keys[subscriptions[j].slot] # key
        BY <1>2, <2>1 DEF ReservedOnce, Holds
      <3> QED BY <1>2, <3>1, <3>2
    <2>4. ASSUME NEW k \in reserved'
          PROVE  \E j \in DOMAIN subscriptions :
                   j # i /\ Holds(subscriptions[j]) /\ k = Keys[subscriptions[j].slot]
      <3>1. k \in reserved
        BY <1>2, <2>4
      <3>2. PICK j \in DOMAIN subscriptions :
              Holds(subscriptions[j]) /\ k = Keys[subscriptions[j].slot]
        BY <2>1, <3>1 DEF ReservedOnce
      <3>3. j # i
        BY <1>2, <2>4, <3>2 DEF Holds
      <3> QED BY <3>2, <3>3
    <2>5. ASSUME NEW k \in reserved'
          PROVE  \E j \in DOMAIN subscriptions' :
                   Holds(subscriptions[j])' /\ k = Keys'[subscriptions'[j].slot]
      <3>1. PICK j \in DOMAIN subscriptions :
              j # i /\ Holds(subscriptions[j]) /\ k = Keys[subscriptions[j].slot]
        BY <2>4
      <3> QED BY <1>4, <2>1, <2>2, <3>1
    <2>6. ASSUME NEW j \in DOMAIN subscriptions', Holds(subscriptions[j])'
          PROVE  /\ j # i /\ Holds(subscriptions[j]) /\ j \in DOMAIN subscriptions
                 /\ subscriptions'[j] = subscriptions[j]
                 /\ Keys'[subscriptions'[j].slot] \in reserved'
      BY <1>4, <2>1, <2>2, <2>3, <2>6
    <2> QED BY <2>1, <2>5, <2>6 DEF ReservedOnce
  <1> QED BY <1>6, <1>7, <1>8 DEF TopicInv

LEMMA NextMessageStep ==
  ASSUME TopicInv, NEW i \in DOMAIN subscriptions, NextMessage(i)
  PROVE  TopicInv'
  <1> DEFINE old   == subscriptions[i]
             msg   == Head(old.queue)
             takes == Accepts(FilterUsed(old.slot), msg[2])
             given == IF takes THEN Append(old.given, msg) ELSE old.given
             s     == [old EXCEPT !.queue = Tail(old.queue), !.given = given]
  <1>1. /\ TopicTypes /\ TypesApart /\ old \in Subscriptions
        /\ old.queue \in Seq(Messages) /\ old.given \in Seq(Messages)
    BY SubscriptionIsTyped DEF TopicInv
  <1>2. /\ old.state = "live" /\ old.queue # <<>>
        /\ subscriptions' = [subscriptions EXCEPT ![i] = s]
        /\ UNCHANGED <<manifest, bindings, reserved, published>>
    BY DEF NextMessage
  <1>3. /\ Tail(old.queue) \in Seq(Messages) /\ msg \in Messages
        /\ \A k \in DOMAIN Tail(old.queue) :
             k + 1 \in DOMAIN old.queue /\ Tail(old.queue)[k] = old.queue[k + 1]
        /\ 1 \in DOMAIN old.queue /\ msg = old.queue[1]
    BY <1>1, <1>2, MessagesLeft
  <1>4. /\ given \in Seq(Messages)
        /\ \A k \in DOMAIN given :
             (k \in DOMAIN old.given /\ given[k] = old.given[k]) \/ given[k] = msg
    BY <1>1, <1>3, MessageIsLast
  <1>5. /\ s \in Subscriptions /\ s.slot = old.slot /\ s.state = old.state
        /\ s.queue = Tail(old.queue) /\ s.given = given /\ s.meant = old.meant
    BY <1>1, <1>3, <1>4 DEF Subscriptions
  <1> HIDE DEF s, given, takes
  <1>6. /\ subscriptions' \in Seq(Subscriptions)
        /\ DOMAIN subscriptions' = DOMAIN subscriptions /\ subscriptions'[i] = s
        /\ \A j \in DOMAIN subscriptions : j # i => subscriptions'[j] = subscriptions[j]
    BY <1>1, <1>2, <1>5, OneChanges
  <1>7. TopicTypes'
    <2>1. subscriptions # <<>>
      BY <1>1 DEF TopicTypes
    <2>2. Numbered(old.queue) /\ Numbered(old.given) /\ Numbered(old.meant)
      BY <1>1 DEF TopicTypes
    <2>3. Numbered(s.queue) /\ Numbered(s.given) /\ Numbered(s.meant)
      BY <1>3, <1>4, <1>5, <2>2 DEF Numbered
    <2>4. ASSUME NEW j \in DOMAIN subscriptions
          PROVE  /\ Numbered(subscriptions[j].queue)' /\ Numbered(subscriptions[j].given)'
                 /\ Numbered(subscriptions[j].meant)'
      <3>1. CASE j = i
        BY <1>2, <1>6, <2>3, <3>1 DEF Numbered
      <3>2. CASE j # i
        BY <1>1, <1>2, <1>6, <3>2 DEF TopicTypes, Numbered
      <3> QED BY <3>1, <3>2
    <2> QED BY <1>1, <1>2, <1>6, <2>1, <2>4 DEF TopicTypes
  <1>8. \A j \in DOMAIN subscriptions :
          /\ subscriptions'[j].slot = subscriptions[j].slot
          /\ subscriptions'[j].meant = subscriptions[j].meant
          /\ Open(subscriptions'[j]) = Open(subscriptions[j])
    BY <1>2, <1>5, <1>6 DEF Open
  <1>9. TypesApart'
    BY <1>1, <1>2, <1>6, <1>8, TypesStay
  <1>10. ReservedOnce'
    BY <1>2, <1>6, <1>8, HoldersStay
  <1> QED BY <1>7, <1>9, <1>10 DEF TopicInv

(* What a publish does to a subscription.                                    *)
Reaches(p, type, topic, s) ==
  ~(s.state # "live" \/ s.topic # topic \/ manifest[s.slot].type # type)

LEMMA PublishReaches ==
  ASSUME TopicTypes, NEW p \in Producers, NEW type, NEW topic, PublishTopic(p, type, topic),
         NEW i \in DOMAIN subscriptions
  PROVE  LET s   == subscriptions[i]
             msg == <<published + 1, p>>
         IN  /\ msg \in Messages /\ i \in DOMAIN subscriptions'
             /\ subscriptions'[i] \in Subscriptions
             /\ subscriptions'[i].slot = s.slot /\ subscriptions'[i].state = s.state
             /\ subscriptions'[i].given = s.given
             /\ subscriptions'[i].queue =
                  IF Reaches(p, type, topic, s) /\ p \in OnTheWire(FilterUsed(s.slot))
                  THEN Append(s.queue, msg) ELSE s.queue
             /\ subscriptions'[i].meant =
                  IF Reaches(p, type, topic, s) /\ MeantFor(s.slot, p)
                  THEN Append(s.meant, msg) ELSE s.meant
  <1> DEFINE s     == subscriptions[i]
             msg   == <<published + 1, p>>
             queue == IF p \in OnTheWire(FilterUsed(s.slot)) THEN Append(s.queue, msg) ELSE s.queue
             meant == IF MeantFor(s.slot, p) THEN Append(s.meant, msg) ELSE s.meant
  <1>1. msg \in Messages
    BY DEF TopicTypes, Messages
  <1>2. s \in Subscriptions /\ s.queue \in Seq(Messages) /\ s.meant \in Seq(Messages)
    BY SubscriptionIsTyped
  <1>3. queue \in Seq(Messages) /\ meant \in Seq(Messages)
    BY <1>1, <1>2
  <1>4. /\ i \in DOMAIN subscriptions'
        /\ subscriptions'[i] = IF Reaches(p, type, topic, s)
                               THEN [s EXCEPT !.queue = queue, !.meant = meant] ELSE s
    BY DEF PublishTopic, Reaches
  <1> HIDE DEF queue, meant
  <1>5. /\ subscriptions'[i] \in Subscriptions
        /\ subscriptions'[i].slot = s.slot /\ subscriptions'[i].state = s.state
        /\ subscriptions'[i].given = s.given
        /\ subscriptions'[i].queue = IF Reaches(p, type, topic, s) THEN queue ELSE s.queue
        /\ subscriptions'[i].meant = IF Reaches(p, type, topic, s) THEN meant ELSE s.meant
    BY <1>2, <1>3, <1>4 DEF Subscriptions
  <1> QED BY <1>1, <1>4, <1>5 DEF queue, meant

LEMMA PublishStep ==
  ASSUME TopicInv, NEW p \in Producers, NEW type, NEW topic, PublishTopic(p, type, topic)
  PROVE  TopicInv'
  <1> DEFINE msg == <<published + 1, p>>
  <1>1. /\ TopicTypes /\ TypesApart /\ published \in Nat /\ published' = published + 1
        /\ UNCHANGED <<manifest, bindings, reserved>> /\ manifest # NotRead
        /\ subscriptions \in Seq(Subscriptions)
        /\ DOMAIN subscriptions' = DOMAIN subscriptions
    BY DEF TopicInv, TopicTypes, PublishTopic
  <1>2. \A i \in DOMAIN subscriptions :
          /\ subscriptions'[i] \in Subscriptions
          /\ subscriptions'[i].slot = subscriptions[i].slot
          /\ subscriptions'[i].state = subscriptions[i].state
          /\ subscriptions'[i].given = subscriptions[i].given
          /\ \/ subscriptions'[i].queue = subscriptions[i].queue
             \/ subscriptions'[i].queue = Append(subscriptions[i].queue, msg)
          /\ \/ subscriptions'[i].meant = subscriptions[i].meant
             \/ /\ subscriptions'[i].meant = Append(subscriptions[i].meant, msg)
                /\ manifest[subscriptions[i].slot].type = type
    BY <1>1, PublishReaches DEF Reaches
  <1>3. subscriptions' \in Seq(Subscriptions)
    <2>1. /\ DOMAIN subscriptions = 1..Len(subscriptions) /\ Len(subscriptions) \in Nat
      BY <1>1
    <2>2. \E f : subscriptions' = [i \in DOMAIN subscriptions |-> f[i]]
      <3>1. subscriptions' = [i \in DOMAIN subscriptions |-> subscriptions'[i]]
        BY DEF PublishTopic
      <3> QED BY <3>1
    <2> QED BY <1>2, <2>1, <2>2
  <1>4. msg \in Messages /\ msg[1] = published + 1
    BY <1>1 DEF Messages
  <1>5. ASSUME NEW q \in Seq(Messages), Numbered(q)
        PROVE  /\ \A k \in DOMAIN q : q[k][1] <= published + 1 /\ q[k] # msg
               /\ \A k \in DOMAIN Append(q, msg) :
                    /\ Append(q, msg)[k][1] <= published + 1
                    /\ \/ k \in DOMAIN q /\ Append(q, msg)[k] = q[k]
                       \/ Append(q, msg)[k] = msg
    <2>1. \A k \in DOMAIN q : q[k] \in Messages /\ q[k][1] \in Nat /\ q[k][1] <= published
      BY <1>5 DEF Numbered, Messages
    <2>2. \A k \in DOMAIN q : q[k][1] <= published + 1 /\ q[k] # msg
      BY <1>1, <1>4, <2>1
    <2> QED BY <1>1, <1>4, <2>2, MessageIsLast
  <1>6. \A i \in DOMAIN subscriptions :
          /\ subscriptions[i].queue \in Seq(Messages) /\ Numbered(subscriptions[i].queue)
          /\ subscriptions[i].given \in Seq(Messages) /\ Numbered(subscriptions[i].given)
          /\ subscriptions[i].meant \in Seq(Messages) /\ Numbered(subscriptions[i].meant)
    BY <1>1, SubscriptionIsTyped DEF TopicTypes
  <1> HIDE DEF msg
  <1>7. TopicTypes'
    <2>1. ASSUME NEW i \in DOMAIN subscriptions
          PROVE  /\ Numbered(subscriptions[i].queue)' /\ Numbered(subscriptions[i].given)'
                 /\ Numbered(subscriptions[i].meant)'
      BY <1>1, <1>2, <1>5, <1>6 DEF Numbered
    <2>2. manifest \in ConsumerManifests /\ bindings \in BindingsOf(manifest)
      BY <1>1 DEF TopicTypes
    <2> QED BY <1>1, <1>3, <2>1, <2>2 DEF TopicTypes
  <1>8. TypesApart'
    <2> SUFFICES ASSUME NEW i \in DOMAIN subscriptions, NEW j \in DOMAIN subscriptions,
                        manifest[subscriptions[i].slot].type # manifest[subscriptions[j].slot].type,
                        NEW k \in DOMAIN subscriptions'[i].meant,
                        NEW l \in DOMAIN subscriptions'[j].meant
                 PROVE  subscriptions'[i].meant[k] # subscriptions'[j].meant[l]
      BY <1>1, <1>2 DEF TypesApart
    <2>1. ASSUME NEW h \in DOMAIN subscriptions, NEW m \in DOMAIN subscriptions'[h].meant
          PROVE  \/ /\ m \in DOMAIN subscriptions[h].meant
                    /\ subscriptions'[h].meant[m] = subscriptions[h].meant[m]
                    /\ subscriptions'[h].meant[m] # msg
                 \/ /\ subscriptions'[h].meant[m] = msg
                    /\ manifest[subscriptions[h].slot].type = type
      <3>1. subscriptions[h].meant \in Seq(Messages) /\ Numbered(subscriptions[h].meant)
        BY <1>6
      <3>2. CASE subscriptions'[h].meant = subscriptions[h].meant
        BY <1>5, <3>1, <3>2
      <3>3. CASE subscriptions'[h].meant = Append(subscriptions[h].meant, msg)
                   /\ manifest[subscriptions[h].slot].type = type
        BY <1>5, <3>1, <3>3
      <3> QED BY <1>2, <3>2, <3>3
    <2> QED BY <1>1, <2>1 DEF TypesApart
  <1>9. ReservedOnce'
    <2>1. \A i \in DOMAIN subscriptions : Open(subscriptions'[i]) = Open(subscriptions[i])
      BY <1>2 DEF Open
    <2> QED BY <1>1, <1>2, <2>1, HoldersStay
  <1> QED BY <1>7, <1>8, <1>9 DEF TopicInv

LEMMA TopicStep == TopicInv /\ [TopicsNext]_topicVars => TopicInv'
  <1> SUFFICES ASSUME TopicInv, [TopicsNext]_topicVars PROVE TopicInv'
    OBVIOUS
  <1>1. ASSUME Configure PROVE TopicInv'
    <2>1. /\ subscriptions = <<>> /\ reserved = {} /\ DOMAIN <<>> = {}
          /\ UNCHANGED <<reserved, subscriptions, published>>
          /\ manifest' \in ConsumerManifests /\ bindings' \in BindingsOf(manifest')
          /\ published \in Nat /\ subscriptions \in Seq(Subscriptions)
      BY <1>1 DEF Configure, TopicInv, TopicTypes
    <2>2. TopicTypes'
      BY <2>1 DEF TopicTypes
    <2>3. TypesApart' /\ ReservedOnce'
      BY <2>1 DEF TypesApart, ReservedOnce
    <2> QED BY <2>2, <2>3 DEF TopicInv
  <1>2. CASE UNCHANGED topicVars
    BY <1>2, SlotsStay DEF topicVars, TopicInv, TopicTypes, TypesApart, ReservedOnce, Numbered, Holds
  <1> QED BY <1>1, <1>2, SubscribeStep, DeclaredStep, DroppedStep, NextMessageStep, PublishStep
          DEF TopicsNext

(***************************************************************************)
(* A from_any reservation belongs to one open subscription and is free     *)
(* again when that ends, for any slots, bindings and subscriptions; two    *)
(* that hold one are never meant the same message (reserve_from_any_topic, *)
(* FromAnyTopicGuard).                                                     *)
(***************************************************************************)
THEOREM ReservationCorrect == TopicsSpec => []ReservationIsLive
  <1>1. TopicsInit => TopicInv
    <2>1. <<>> \in Seq(Subscriptions) /\ DOMAIN <<>> = {}
      OBVIOUS
    <2> QED BY <2>1 DEF TopicsInit, TopicInv, TopicTypes, TypesApart, ReservedOnce
  <1>2. TopicInv /\ [TopicsNext]_topicVars => TopicInv'
    BY TopicStep
  <1>3. TopicInv => ReservationIsLive
    <2> SUFFICES ASSUME TopicInv PROVE ReservationIsLive
      OBVIOUS
    <2> DEFINE holders == {i \in DOMAIN subscriptions :
                             /\ Open(subscriptions[i])
                             /\ manifest[subscriptions[i].slot].fromAny}
    <2>1. \A i \in DOMAIN subscriptions :
            /\ subscriptions[i].slot \in Slots
            /\ Keys[subscriptions[i].slot] = ReservationKey(subscriptions[i].slot)
            /\ subscriptions[i].meant \in Seq(Messages)
      BY SubscriptionIsTyped DEF TopicInv, Keys
    <2>2. reserved = {ReservationKey(subscriptions[i].slot) : i \in holders}
      BY <2>1 DEF TopicInv, ReservedOnce, Holds
    <2>3. ASSUME NEW i \in holders, NEW j \in holders, i # j
          PROVE  manifest[subscriptions[i].slot].type # manifest[subscriptions[j].slot].type
      <3>1. subscriptions[i].slot # subscriptions[j].slot
        BY <2>3 DEF TopicInv, ReservedOnce, Holds
      <3>2. manifest \in ConsumerManifests
        <4>1. DOMAIN <<>> = {}
          OBVIOUS
        <4> QED BY <2>3, <4>1 DEF TopicInv, TopicTypes
      <3> QED BY <2>1, <3>1, <3>2 DEF ConsumerManifests
    <2>4. ASSUME NEW i \in holders, NEW j \in holders, i # j
          PROVE  ToSet(subscriptions[i].meant) \cap ToSet(subscriptions[j].meant) = {}
      BY <2>3, <2>4 DEF TopicInv, TypesApart, ToSet
    <2> QED BY <2>2, <2>4 DEF ReservationIsLive
  <1> QED BY <1>1, <1>2, <1>3, PTL DEF TopicsSpec

(* What a subscription has handed over and what it still holds and will hand *)
(* over is what was meant for it; the messages it has come in order.         *)
Waiting(s) == {m \in ToSet(s.queue) : Accepts(Filters[s.slot], m[2])}

Own(s) ==
  /\ ToSet(s.given) \cup Waiting(s) = ToSet(s.meant)
  /\ Ascends(s.given) /\ Ascends(s.queue) /\ Ascends(s.meant)
  /\ \A k \in DOMAIN s.given, l \in DOMAIN s.queue : s.given[k][1] < s.queue[l][1]

OwnInv == \A i \in DOMAIN subscriptions : Own(subscriptions[i])

LEMMA AppendToSet ==
  ASSUME NEW q \in Seq(Messages), NEW m \in Messages
  PROVE  ToSet(Append(q, m)) = ToSet(q) \cup {m}
  BY MessageIsLast DEF ToSet

LEMMA RestToSet ==
  ASSUME NEW q \in Seq(Messages), q # <<>>
  PROVE  ToSet(q) = {Head(q)} \cup ToSet(Tail(q))
  <1>1. \A x \in ToSet(Tail(q)) : x \in ToSet(q)
    BY MessagesLeft DEF ToSet
  <1>2. Head(q) \in ToSet(q)
    BY MessagesLeft DEF ToSet
  <1>3. ASSUME NEW x \in ToSet(q), x # Head(q) PROVE x \in ToSet(Tail(q))
    <2>1. PICK k \in DOMAIN q : q[k] = x
      BY <1>3 DEF ToSet
    <2>2. k \in 1..Len(q) /\ k # 1 /\ Len(q) \in Nat
      BY <1>3, <2>1, MessagesLeft
    <2>3. k - 1 \in DOMAIN Tail(q) /\ Tail(q)[k - 1] = q[k]
      BY <2>2
    <2> QED BY <2>1, <2>3 DEF ToSet
  <1> QED BY <1>1, <1>2, <1>3

LEMMA AppendAscends ==
  ASSUME NEW q \in Seq(Messages), NEW m \in Messages, Ascends(q),
         \A k \in DOMAIN q : q[k][1] < m[1]
  PROVE  Ascends(Append(q, m))
  <1> SUFFICES ASSUME NEW k \in DOMAIN Append(q, m), NEW l \in DOMAIN Append(q, m), k < l
               PROVE  Append(q, m)[k][1] < Append(q, m)[l][1]
    BY DEF Ascends
  <1>1. k \in DOMAIN q
    BY MessageIsLast
  <1>2. CASE l \in DOMAIN q
    BY <1>1, <1>2, MessageIsLast DEF Ascends
  <1>3. CASE l = Len(q) + 1
    BY <1>1, <1>3, MessageIsLast
  <1> QED BY <1>2, <1>3, MessageIsLast

LEMMA RestAscends ==
  ASSUME NEW q \in Seq(Messages), q # <<>>, Ascends(q)
  PROVE  /\ Ascends(Tail(q))
         /\ \A l \in DOMAIN Tail(q) : q[1][1] < Tail(q)[l][1]
  <1>1. \A k \in DOMAIN Tail(q) : k \in Nat /\ k > 0
    BY MessagesLeft
  <1> QED BY <1>1, MessagesLeft DEF Ascends

LEMMA ConcatAscends ==
  ASSUME NEW p \in Seq(Messages), NEW q \in Seq(Messages), Ascends(p), Ascends(q),
         \A k \in DOMAIN p, l \in DOMAIN q : p[k][1] < q[l][1]
  PROVE  Ascends(p \o q)
  <1> SUFFICES ASSUME NEW k \in DOMAIN (p \o q), NEW l \in DOMAIN (p \o q), k < l
               PROVE  (p \o q)[k][1] < (p \o q)[l][1]
    BY DEF Ascends
  <1>1. /\ k \in Nat /\ l \in Nat /\ Len(p) \in Nat /\ Len(q) \in Nat
        /\ 1 <= k /\ l <= Len(p) + Len(q)
    OBVIOUS
  <1>2. \A n \in 1..Len(p) + Len(q) :
          (p \o q)[n] = IF n <= Len(p) THEN p[n] ELSE q[n - Len(p)]
    OBVIOUS
  <1>3. CASE l <= Len(p)
    BY <1>1, <1>2, <1>3 DEF Ascends
  <1>4. CASE k <= Len(p) /\ ~(l <= Len(p))
    <2>1. k \in DOMAIN p /\ l - Len(p) \in DOMAIN q
      BY <1>1, <1>4
    <2> QED BY <1>1, <1>2, <1>4, <2>1
  <1>5. CASE ~(k <= Len(p))
    <2>1. k - Len(p) \in DOMAIN q /\ l - Len(p) \in DOMAIN q /\ k - Len(p) < l - Len(p)
      BY <1>1, <1>5
    <2> QED BY <1>1, <1>2, <1>5, <2>1 DEF Ascends
  <1> QED BY <1>3, <1>4, <1>5

(* resolve_consumer_filter against the rules of its comment: what the filter *)
(* lets through, on the wire and above it, is whom the slot is meant for.    *)
LEMMA FilterIsMeant ==
  ASSUME ~PythonNode, manifest \in ConsumerManifests, bindings \in BindingsOf(manifest),
         NEW slot \in Slots, NEW p \in Producers
  PROVE  MeantFor(slot, p) <=>
           /\ p \in OnTheWire(FilterUsed(slot))
           /\ Accepts(FilterUsed(slot), p)
  <1> DEFINE f == ConsumerFilter(slot)
  <1>0. FilterUsed(slot) = f
    BY DEF FilterUsed
  <1>1. \A s \in Slots :
          /\ bindings[s].kind \in {"Pinned", "FromAnyBound", "FromAnyUnbound"}
          /\ bindings[s].kind = "FromAnyUnbound" => bindings[s].producers = {}
          /\ manifest[s].fromAny <=> bindings[s].kind # "Pinned"
    <2> TAKE s \in Slots
    <2>1. bindings[s] \in Pinned \cup Bound \cup Unbound
      BY DEF BindingsOf
    <2>2. manifest[s].fromAny <=> bindings[s].kind # "Pinned"
      BY DEF BindingsOf
    <2> QED BY <2>1, <2>2 DEF Pinned, Bound, Unbound
  <1>2. CASE bindings[slot].kind = "Pinned"
    <2>1. f.kind = "Pin" /\ f.producers = bindings[slot].producers
      BY <1>2 DEF ConsumerFilter, Filter
    <2>2. MeantFor(slot, p) <=> p \in bindings[slot].producers
      BY <1>2 DEF MeantFor
    <2> QED BY <1>0, <2>1, <2>2 DEF OnTheWire, Accepts
  <1>3. CASE bindings[slot].kind = "FromAnyBound"
    <2>1. f.kind \in {"Pin", "OnlyFrom"} /\ f.producers = Effective(slot)
      BY <1>3 DEF ConsumerFilter, Filter
    <2>2. /\ p \in OnTheWire(f) /\ Accepts(f, p) <=> p \in Effective(slot)
      BY <2>1 DEF OnTheWire, Accepts
    <2>3. MeantFor(slot, p) <=> p \in Effective(slot)
      BY <1>1, <1>3 DEF MeantFor, Effective, PinnedClaims, SlotsOf
    <2> QED BY <1>0, <2>2, <2>3
  <1>4. CASE bindings[slot].kind = "FromAnyUnbound"
    <2> DEFINE claimed == AllClaims(manifest[slot].type)
    <2>1. f.kind = (IF claimed = {} THEN "Any" ELSE "AnyExcept") /\ f.producers = claimed
      BY <1>4 DEF ConsumerFilter, Filter
    <2>2. p \in OnTheWire(f) /\ Accepts(f, p) <=> p \notin claimed
      <3> HIDE DEF claimed, f
      <3> QED BY <2>1 DEF OnTheWire, Accepts
    <2>3. MeantFor(slot, p) <=> p \notin claimed
      BY <1>1, <1>4 DEF MeantFor, AllClaims, SlotsOf
    <2> QED BY <1>0, <2>2, <2>3
  <1> QED BY <1>1, <1>2, <1>3, <1>4

LEMMA NothingIsOwn ==
  ASSUME NEW s, s.queue = <<>>, s.given = <<>>, s.meant = <<>>
  PROVE  Own(s)
  <1>1. DOMAIN <<>> = {} /\ ToSet(<<>>) = {}
    BY DEF ToSet
  <1> QED BY <1>1 DEF Own, Waiting, Ascends

LEMMA OwnNextMessage ==
  ASSUME TopicInv, OwnInv, NEW i \in DOMAIN subscriptions, NextMessage(i)
  PROVE  OwnInv'
  <1> DEFINE old   == subscriptions[i]
             msg   == Head(old.queue)
             takes == Accepts(FilterUsed(old.slot), msg[2])
             given == IF takes THEN Append(old.given, msg) ELSE old.given
             s     == [old EXCEPT !.queue = Tail(old.queue), !.given = given]
  <1>1. /\ TopicTypes /\ old \in Subscriptions /\ old.slot \in Slots
        /\ old.queue \in Seq(Messages) /\ old.given \in Seq(Messages)
        /\ old.meant \in Seq(Messages) /\ Own(old)
    BY SubscriptionIsTyped DEF TopicInv, OwnInv
  <1>2. /\ old.queue # <<>>
        /\ subscriptions' = [subscriptions EXCEPT ![i] = s]
        /\ UNCHANGED <<manifest, bindings>> /\ Filters' = Filters
    BY SlotsStay DEF NextMessage
  <1>3. /\ Tail(old.queue) \in Seq(Messages) /\ msg \in Messages /\ msg = old.queue[1]
        /\ 1 \in DOMAIN old.queue
        /\ \A k \in DOMAIN Tail(old.queue) :
             k + 1 \in DOMAIN old.queue /\ Tail(old.queue)[k] = old.queue[k + 1]
        /\ Ascends(Tail(old.queue))
        /\ \A l \in DOMAIN Tail(old.queue) : msg[1] < Tail(old.queue)[l][1]
        /\ ToSet(old.queue) = {msg} \cup ToSet(Tail(old.queue))
    BY <1>1, <1>2, MessagesLeft, RestAscends, RestToSet DEF Own
  <1>4. takes <=> Accepts(Filters[old.slot], msg[2])
    BY <1>1 DEF Filters
  <1> HIDE DEF takes, msg
  <1>5. /\ given \in Seq(Messages) /\ Ascends(given)
        /\ \A k \in DOMAIN given :
             (k \in DOMAIN old.given /\ given[k] = old.given[k]) \/ given[k] = msg
        /\ ToSet(given) = IF takes THEN ToSet(old.given) \cup {msg} ELSE ToSet(old.given)
    <2>1. Ascends(old.given) /\ \A k \in DOMAIN old.given : old.given[k][1] < msg[1]
      BY <1>1, <1>3 DEF Own
    <2>2. CASE takes
      BY <1>1, <1>3, <2>1, <2>2, AppendAscends, AppendToSet, MessageIsLast
    <2>3. CASE ~takes
      BY <1>1, <2>1, <2>3
    <2> QED BY <2>2, <2>3
  <1>6. /\ s \in Subscriptions /\ s.slot = old.slot
        /\ s.queue = Tail(old.queue) /\ s.given = given /\ s.meant = old.meant
    BY <1>1, <1>3, <1>5 DEF Subscriptions
  <1> HIDE DEF s, given
  <1>7. /\ DOMAIN subscriptions' = DOMAIN subscriptions /\ subscriptions'[i] = s
        /\ \A j \in DOMAIN subscriptions : j # i => subscriptions'[j] = subscriptions[j]
    BY <1>1, <1>2, <1>6, OneChanges
  <1>8. Own(s)
    <2>1. ToSet(s.given) \cup Waiting(s) = ToSet(s.meant)
      BY <1>1, <1>3, <1>4, <1>5, <1>6 DEF Own, Waiting
    <2>2. \A k \in DOMAIN s.given, l \in DOMAIN s.queue : s.given[k][1] < s.queue[l][1]
      BY <1>1, <1>3, <1>5, <1>6 DEF Own
    <2> QED BY <1>1, <1>3, <1>5, <1>6, <2>1, <2>2 DEF Own
  <1>9. ASSUME NEW j \in DOMAIN subscriptions PROVE Own(subscriptions[j])'
    BY <1>2, <1>7, <1>8, <1>9 DEF OwnInv, Own, Waiting, Accepts
  <1> QED BY <1>7, <1>9 DEF OwnInv

LEMMA OwnPublish ==
  ASSUME ~PythonNode, TopicInv, OwnInv, NEW p \in Producers, NEW type, NEW topic,
         PublishTopic(p, type, topic)
  PROVE  OwnInv'
  <1> DEFINE msg == <<published + 1, p>>
  <1>1. /\ TopicTypes /\ published \in Nat /\ UNCHANGED <<manifest, bindings>>
        /\ Filters' = Filters /\ manifest \in ConsumerManifests
        /\ bindings \in BindingsOf(manifest)
        /\ DOMAIN subscriptions' = DOMAIN subscriptions
    BY SlotsStay DEF TopicInv, TopicTypes, PublishTopic
  <1> SUFFICES ASSUME NEW i \in DOMAIN subscriptions PROVE Own(subscriptions[i])'
    BY <1>1 DEF OwnInv
  <1> DEFINE old  == subscriptions[i]
             new  == subscriptions'[i]
             hit  == Reaches(p, type, topic, old)
             wire == p \in OnTheWire(Filters[old.slot])
             mine == MeantFor(old.slot, p)
  <1>2. /\ old.slot \in Slots /\ Own(old) /\ Filters[old.slot] = FilterUsed(old.slot)
        /\ old.queue \in Seq(Messages) /\ old.given \in Seq(Messages)
        /\ old.meant \in Seq(Messages)
    BY <1>1, SubscriptionIsTyped DEF OwnInv, Filters
  <1>3. /\ msg \in Messages /\ msg[1] = published + 1 /\ msg[2] = p
        /\ new.slot = old.slot /\ new.given = old.given
        /\ new.queue = IF hit /\ wire THEN Append(old.queue, msg) ELSE old.queue
        /\ new.meant = IF hit /\ mine THEN Append(old.meant, msg) ELSE old.meant
    BY <1>1, <1>2, PublishReaches
  <1>4. mine <=> wire /\ Accepts(Filters[old.slot], p)
    BY <1>1, <1>2, FilterIsMeant
  <1>5. /\ \A k \in DOMAIN old.queue : old.queue[k][1] < msg[1]
        /\ \A k \in DOMAIN old.given : old.given[k][1] < msg[1]
        /\ \A k \in DOMAIN old.meant : old.meant[k][1] < msg[1]
    <2>1. Numbered(old.queue) /\ Numbered(old.given) /\ Numbered(old.meant)
      BY <1>1 DEF TopicTypes
    <2>2. ASSUME NEW q \in Seq(Messages), Numbered(q), NEW k \in DOMAIN q
          PROVE  q[k][1] < msg[1]
      <3>1. q[k] \in Messages
        OBVIOUS
      <3> QED BY <1>1, <1>3, <2>2, <3>1 DEF Numbered, Messages
    <2> QED BY <1>2, <2>1, <2>2
  <1> HIDE DEF msg, hit, wire, mine, new
  <1>6. /\ Ascends(new.queue) /\ new.queue \in Seq(Messages)
        /\ \A l \in DOMAIN new.queue :
             (l \in DOMAIN old.queue /\ new.queue[l] = old.queue[l]) \/ new.queue[l] = msg
        /\ ToSet(new.queue) = IF hit /\ wire THEN ToSet(old.queue) \cup {msg}
                              ELSE ToSet(old.queue)
    <2>1. CASE hit /\ wire
      BY <1>2, <1>3, <1>5, <2>1, AppendAscends, AppendToSet, MessageIsLast DEF Own
    <2>2. CASE ~(hit /\ wire)
      BY <1>2, <1>3, <2>2 DEF Own
    <2> QED BY <2>1, <2>2
  <1>7. /\ Ascends(new.meant)
        /\ ToSet(new.meant) = IF hit /\ mine THEN ToSet(old.meant) \cup {msg}
                              ELSE ToSet(old.meant)
    <2>1. CASE hit /\ mine
      BY <1>2, <1>3, <1>5, <2>1, AppendAscends, AppendToSet DEF Own
    <2>2. CASE ~(hit /\ mine)
      BY <1>2, <1>3, <2>2 DEF Own
    <2> QED BY <2>1, <2>2
  <1>8. ToSet(new.given) \cup Waiting(new) = ToSet(new.meant)
    BY <1>2, <1>3, <1>4, <1>6, <1>7 DEF Own, Waiting
  <1>9. \A k \in DOMAIN new.given, l \in DOMAIN new.queue : new.given[k][1] < new.queue[l][1]
    BY <1>2, <1>3, <1>5, <1>6 DEF Own
  <1>10. Own(new)
    BY <1>2, <1>3, <1>6, <1>7, <1>8, <1>9 DEF Own
  <1> QED BY <1>1, <1>10 DEF Own, Waiting, Accepts, new

LEMMA OwnStep ==
  ASSUME ~PythonNode, TopicInv, OwnInv, [TopicsNext]_topicVars
  PROVE  OwnInv'
  <1>1. ASSUME NEW i \in DOMAIN subscriptions', UNCHANGED <<manifest, bindings>>,
               \/ /\ i \in DOMAIN subscriptions
                  /\ subscriptions'[i].slot = subscriptions[i].slot
                  /\ subscriptions'[i].queue = subscriptions[i].queue
                  /\ subscriptions'[i].given = subscriptions[i].given
                  /\ subscriptions'[i].meant = subscriptions[i].meant
               \/ /\ subscriptions'[i].queue = <<>> /\ subscriptions'[i].given = <<>>
                  /\ subscriptions'[i].meant = <<>>
        PROVE  Own(subscriptions[i])'
    <2>1. Filters' = Filters
      BY <1>1, SlotsStay
    <2>2. CASE /\ i \in DOMAIN subscriptions
               /\ subscriptions'[i].slot = subscriptions[i].slot
               /\ subscriptions'[i].queue = subscriptions[i].queue
               /\ subscriptions'[i].given = subscriptions[i].given
               /\ subscriptions'[i].meant = subscriptions[i].meant
      BY <2>1, <2>2 DEF OwnInv, Own, Waiting, Accepts
    <2>3. CASE /\ subscriptions'[i].queue = <<>> /\ subscriptions'[i].given = <<>>
               /\ subscriptions'[i].meant = <<>>
      <3>1. DOMAIN <<>> = {} /\ ToSet(<<>>) = {}
        BY DEF ToSet
      <3> QED BY <2>3, <3>1 DEF Own, Waiting, Ascends
    <2> QED BY <1>1, <2>2, <2>3
  <1>2. subscriptions \in Seq(Subscriptions)
    BY DEF TopicInv, TopicTypes
  <1>3. ASSUME Configure PROVE OwnInv'
    <2>1. subscriptions' = <<>> /\ DOMAIN <<>> = {}
      BY <1>3 DEF Configure, TopicInv, TopicTypes
    <2> QED BY <2>1 DEF OwnInv
  <1>4. ASSUME NEW slot \in Slots, NEW topic \in TopicNames, SubscribeTo(slot, topic)
        PROVE  OwnInv'
    <2>1. PICK state \in {"opening", "refused"} :
            subscriptions' = Append(subscriptions, NewSubscription(slot, topic, state))
      BY <1>4 DEF SubscribeTo
    <2> DEFINE new == NewSubscription(slot, topic, state)
    <2>2. new \in Subscriptions /\ new.queue = <<>> /\ new.given = <<>> /\ new.meant = <<>>
      BY NewIsTyped
    <2> HIDE DEF new
    <2>3. \A i \in DOMAIN subscriptions' :
            \/ i \in DOMAIN subscriptions /\ subscriptions'[i] = subscriptions[i]
            \/ subscriptions'[i] = new
      BY <1>2, <2>1, <2>2, SubscriptionIsLast DEF new
    <2>4. UNCHANGED <<manifest, bindings>>
      BY <1>4 DEF SubscribeTo
    <2> QED BY <1>1, <2>2, <2>3, <2>4 DEF OwnInv
  <1>5. ASSUME NEW i \in DOMAIN subscriptions, NEW s \in Subscriptions,
               subscriptions' = [subscriptions EXCEPT ![i] = s],
               UNCHANGED <<manifest, bindings>>,
               \/ /\ s.slot = subscriptions[i].slot /\ s.queue = subscriptions[i].queue
                  /\ s.given = subscriptions[i].given /\ s.meant = subscriptions[i].meant
               \/ s.queue = <<>> /\ s.given = <<>> /\ s.meant = <<>>
        PROVE  OwnInv'
    <2>1. /\ DOMAIN subscriptions' = DOMAIN subscriptions /\ subscriptions'[i] = s
          /\ \A j \in DOMAIN subscriptions : j # i => subscriptions'[j] = subscriptions[j]
      BY <1>5, OneChanges DEF TopicInv
    <2> QED BY <1>1, <1>5, <2>1 DEF OwnInv
  <1>6. ASSUME NEW i \in DOMAIN subscriptions, Declared(i) PROVE OwnInv'
    <2> DEFINE s == [subscriptions[i] EXCEPT !.state = "live"]
    <2>1. subscriptions[i] \in Subscriptions
      BY <1>2
    <2>2. /\ s \in Subscriptions /\ s.slot = subscriptions[i].slot
          /\ s.queue = subscriptions[i].queue /\ s.given = subscriptions[i].given
          /\ s.meant = subscriptions[i].meant
      BY <2>1 DEF Subscriptions
    <2>3. subscriptions' = [subscriptions EXCEPT ![i] = s] /\ UNCHANGED <<manifest, bindings>>
      BY <1>6 DEF Declared
    <2> HIDE DEF s
    <2> QED BY <1>5, <2>2, <2>3
  <1>7. ASSUME NEW i \in DOMAIN subscriptions, Dropped(i) PROVE OwnInv'
    <2> DEFINE s == NewSubscription(subscriptions[i].slot, subscriptions[i].topic, "closed")
    <2>0. subscriptions[i] \in Subscriptions
      BY <1>2
    <2>1. subscriptions[i].slot \in Slots /\ subscriptions[i].topic \in TopicNames
      BY <2>0 DEF Subscriptions
    <2>2. s \in Subscriptions /\ s.queue = <<>> /\ s.given = <<>> /\ s.meant = <<>>
      BY <2>1, NewIsTyped
    <2>3. subscriptions' = [subscriptions EXCEPT ![i] = s] /\ UNCHANGED <<manifest, bindings>>
      BY <1>7 DEF Dropped
    <2> HIDE DEF s
    <2> QED BY <1>5, <2>2, <2>3
  <1>8. CASE UNCHANGED topicVars
    BY <1>1, <1>8 DEF topicVars, OwnInv
  <1> QED BY <1>3, <1>4, <1>6, <1>7, <1>8, OwnNextMessage, OwnPublish DEF TopicsNext

(***************************************************************************)
(* A slot gets what it is for, of any slots, siblings, bindings, producers *)
(* and messages: what its live subscription has handed over or holds is    *)
(* what the producers it is meant for published, in order                  *)
(* (resolve_consumer_filter, on_next_message).  Of the consumer it is      *)
(* assumed that it is no Python node, which is opened without the filter.  *)
(***************************************************************************)
THEOREM SlotsCorrect ==
  ASSUME ~PythonNode
  PROVE  TopicsSpec => []SlotGetsItsOwn
  <1>1. TopicsInit => TopicInv /\ OwnInv
    <2>1. <<>> \in Seq(Subscriptions) /\ DOMAIN <<>> = {}
      OBVIOUS
    <2> QED BY <2>1 DEF TopicsInit, TopicInv, TopicTypes, TypesApart, ReservedOnce, OwnInv
  <1>2. TopicInv /\ OwnInv /\ [TopicsNext]_topicVars => TopicInv' /\ OwnInv'
    BY TopicStep, OwnStep
  <1>3. TopicInv /\ OwnInv => SlotGetsItsOwn
    <2> SUFFICES ASSUME TopicInv, OwnInv, NEW i \in DOMAIN subscriptions
                 PROVE  LET s == subscriptions[i]
                            waiting == {m \in ToSet(s.queue) : Accepts(FilterUsed(s.slot), m[2])}
                        IN  /\ ToSet(s.given) \cup waiting = ToSet(s.meant)
                            /\ Ascends(s.given \o s.queue) /\ Ascends(s.meant)
      BY DEF SlotGetsItsOwn
    <2> DEFINE s == subscriptions[i]
    <2>1. /\ s.slot \in Slots /\ s.queue \in Seq(Messages) /\ s.given \in Seq(Messages)
          /\ Own(s) /\ Filters[s.slot] = FilterUsed(s.slot)
      BY SubscriptionIsTyped DEF TopicInv, OwnInv, Filters
    <2>2. Ascends(s.given \o s.queue)
      BY <2>1, ConcatAscends DEF Own
    <2> QED BY <2>1, <2>2 DEF Own, Waiting
  <1> QED BY <1>1, <1>2, <1>3, PTL DEF TopicsSpec

-----------------------------------------------------------------------------
(* RouterSession                                                             *)

Namespaces == Organizations \cup {NoNamespace, LOCAL_NAMESPACE, NotPinned}

Configurations ==
  [mode : {"peer", "client", "operator"}, reconnect : BOOLEAN, ns : Namespaces]

Adapters ==
  [ns : Namespaces, gossip : BOOLEAN, override : Overrides, rendered : Configurations,
   reconnecting : BOOLEAN, hosts : BOOLEAN, pinned : BOOLEAN]

Rendered(reconnect) ==
  CreateClientConfig(zenohAdapter.gossip, reconnect, zenohAdapter.override, zenohAdapter.ns)

(* An adapter that has a namespace has that of its owner's organization, and *)
(* whatever is opened is what its configuration renders to, in every order   *)
(* of the builder's calls.                                                   *)
SessionInv ==
  /\ owner \in {"none", "building", "running", "dropped"} /\ operatorFile \in BOOLEAN
  /\ owner \in {"building", "running"} =>
       /\ zenohAdapter \in Adapters
       /\ zenohAdapter.ns # NoNamespace => zenohAdapter.ns = ResolveSessionNamespace(organization)
       /\ zenohAdapter.rendered = Rendered(FALSE)
  /\ owner = "running" => zenohAdapter.ns # NoNamespace
  /\ openSession # NoSession =>
       /\ owner = "running" /\ OverridePreservesNamespace
       /\ openSession = Rendered(zenohAdapter.reconnecting)

LEMMA ConfigurationsAreRendered ==
  ASSUME NEW gossip \in BOOLEAN, NEW reconnect \in BOOLEAN, NEW o \in Overrides,
         NEW ns \in Namespaces
  PROVE  CreateClientConfig(gossip, reconnect, o, ns) \in Configurations
  BY DEF CreateClientConfig, RenderConfig, Configurations, Overrides, Namespaces

LEMMA NewAdapterIsPlain ==
  ASSUME NEW gossip \in BOOLEAN, NEW o \in Overrides, NEW hosts \in BOOLEAN,
         NEW pinned \in BOOLEAN, zenohAdapter' = NewAdapter(gossip, o, hosts, pinned)
  PROVE  /\ zenohAdapter' \in Adapters /\ zenohAdapter'.ns = NoNamespace
         /\ zenohAdapter'.rendered = Rendered(FALSE)'
         /\ zenohAdapter'.hosts = hosts /\ zenohAdapter'.pinned = pinned
  <1>1. CreateClientConfig(gossip, FALSE, o, NoNamespace) \in Configurations
    BY ConfigurationsAreRendered DEF Namespaces
  <1>2. NoNamespace \in Namespaces
    BY DEF Namespaces
  <1> QED BY <1>1, <1>2 DEF NewAdapter, Adapters, Rendered

LEMMA SessionStep == SessionInv /\ [RouterNext]_routerVars => SessionInv'
  <1> SUFFICES ASSUME SessionInv, [RouterNext]_routerVars PROVE SessionInv'
    OBVIOUS
  <1>1. ASSUME NEW gossip \in BOOLEAN, NEW o \in Overrides, NEW hosts \in BOOLEAN,
               NEW pinned \in BOOLEAN, zenohAdapter' = NewAdapter(gossip, o, hosts, pinned),
               owner = "none", owner' = "building", UNCHANGED <<openSession, operatorFile>>
        PROVE  SessionInv'
    <2>1. /\ zenohAdapter' \in Adapters /\ zenohAdapter'.ns = NoNamespace
          /\ zenohAdapter'.rendered = Rendered(FALSE)'
      BY <1>1, NewAdapterIsPlain
    <2> QED BY <1>1, <2>1 DEF SessionInv
  <1>2. ASSUME NEW gossip \in BOOLEAN, NEW o \in Overrides, ConnectTo(gossip, o)
        PROVE  SessionInv'
    BY <1>1, <1>2 DEF ConnectTo
  <1>3. ASSUME NEW gossip \in BOOLEAN, NEW o \in Overrides, NEW u, WithRouter(gossip, o, u)
        PROVE  SessionInv'
    BY <1>1, <1>3 DEF WithRouter, SessionInv
  <1>4. ASSUME WithSessionReconnect PROVE SessionInv'
    <2>1. /\ owner = "building" /\ zenohAdapter \in Adapters
          /\ zenohAdapter' = [zenohAdapter EXCEPT !.reconnecting = TRUE]
          /\ UNCHANGED <<owner, organization, openSession, operatorFile>> /\ openSession = NoSession
      BY <1>4 DEF WithSessionReconnect, SessionInv
    <2>2. /\ zenohAdapter' \in Adapters /\ zenohAdapter'.ns = zenohAdapter.ns
          /\ zenohAdapter'.rendered = zenohAdapter.rendered
          /\ zenohAdapter'.gossip = zenohAdapter.gossip /\ zenohAdapter'.override = zenohAdapter.override
      BY <2>1 DEF Adapters
    <2> QED BY <2>1, <2>2 DEF SessionInv, Rendered, ResolveSessionNamespace, ParsesAsNamespace
  <1>5. ASSUME NEW raw \in RawIds, WithNamespace(raw) PROVE SessionInv'
    <2> DEFINE ns == ResolveSessionNamespace(raw)
               rendered == CreateClientConfig(zenohAdapter.gossip, FALSE, zenohAdapter.override, ns)
    <2>1. /\ owner = "building" /\ zenohAdapter \in Adapters
          /\ zenohAdapter' = [zenohAdapter EXCEPT !.ns = ns, !.rendered = rendered]
          /\ organization' = raw
          /\ UNCHANGED <<owner, openSession, operatorFile>> /\ openSession = NoSession
      BY <1>5 DEF WithNamespace, SessionInv
    <2>2. ns \in Namespaces
      BY DEF ResolveSessionNamespace, ParsesAsNamespace, RawIds, Namespaces
    <2>3. rendered \in Configurations
      BY <2>1, <2>2, ConfigurationsAreRendered DEF Adapters
    <2> HIDE DEF ns, rendered
    <2>4. /\ zenohAdapter' \in Adapters /\ zenohAdapter'.ns = ns
          /\ zenohAdapter'.rendered = rendered
          /\ zenohAdapter'.gossip = zenohAdapter.gossip /\ zenohAdapter'.override = zenohAdapter.override
      BY <2>1, <2>2, <2>3 DEF Adapters
    <2>5. ns = ResolveSessionNamespace(organization)'
      BY <2>1 DEF ns, ResolveSessionNamespace, ParsesAsNamespace
    <2>6. zenohAdapter'.rendered = Rendered(FALSE)'
      BY <2>4 DEF rendered, Rendered
    <2> QED BY <2>1, <2>4, <2>5, <2>6 DEF SessionInv
  <1>6. ASSUME StartZenohSession PROVE SessionInv'
    <2>1. /\ owner = "running" /\ OverridePreservesNamespace
          /\ UNCHANGED <<owner, organization, zenohAdapter, operatorFile>>
          /\ openSession' = ConfigToOpen(zenohAdapter.reconnecting)
      BY <1>6 DEF StartZenohSession
    <2>2. zenohAdapter.rendered = Rendered(FALSE) /\ zenohAdapter.reconnecting \in BOOLEAN
      BY <2>1 DEF SessionInv, Adapters
    <2>3. openSession' = Rendered(zenohAdapter.reconnecting)
      BY <2>1, <2>2 DEF ConfigToOpen, Rendered
    <2> QED BY <2>1, <2>3 DEF SessionInv, Rendered, OverridePreservesNamespace,
               ResolveSessionNamespace, ParsesAsNamespace
  <1>7. ASSUME TakeAdapter \/ StopZenohSession PROVE SessionInv'
    BY <1>7 DEF TakeAdapter, StopZenohSession, SessionInv, Rendered,
       OverridePreservesNamespace, ResolveSessionNamespace, ParsesAsNamespace
  <1>8. ASSUME DropAdapter PROVE SessionInv'
    BY <1>8 DEF DropAdapter, SessionInv
  <1>9. ASSUME UNCHANGED <<owner, organization, zenohAdapter, openSession>>,
               operatorFile' \in BOOLEAN
        PROVE  SessionInv'
    BY <1>9 DEF SessionInv, Rendered, OverridePreservesNamespace,
       ResolveSessionNamespace, ParsesAsNamespace
  <1>10. ASSUME NEW u, \/ Refederate(u) \/ StopZenohd \/ RouterReady \/ RouterExitsEarly
                       \/ RouterTimesOut \/ Surroundings
         PROVE  SessionInv'
    BY <1>9, <1>10 DEF Refederate, StopZenohd, RouterReady, RouterExitsEarly,
       RouterTimesOut, Surroundings, OperatorSets, ZenohdDies, SessionInv
  <1>11. CASE UNCHANGED routerVars
    BY <1>9, <1>11 DEF routerVars, SessionInv
  <1> QED BY <1>2, <1>3, <1>4, <1>5, <1>6, <1>7, <1>8, <1>10, <1>11
          DEF RouterNext, Build, Drive

LEMMA SessionIsTenants == SessionInv => TenantsApart
  <1> SUFFICES ASSUME SessionInv, openSession # NoSession
               PROVE  /\ ShouldFederate(organization) => openSession.ns = organization
                      /\ ~ShouldFederate(organization) =>
                           \/ openSession.ns = LOCAL_NAMESPACE
                           \/ zenohAdapter.override = openSession.ns
                      /\ zenohAdapter.override = NotPinned =>
                           openSession.reconnect = zenohAdapter.reconnecting
    BY DEF TenantsApart
  <1>1. /\ zenohAdapter.ns = ResolveSessionNamespace(organization)
        /\ OverridePreservesNamespace /\ openSession = Rendered(zenohAdapter.reconnecting)
    BY DEF SessionInv
  <1>2. /\ openSession.ns = IF zenohAdapter.override = NotPinned THEN zenohAdapter.ns
                            ELSE zenohAdapter.override
        /\ zenohAdapter.override = NotPinned => openSession.reconnect = zenohAdapter.reconnecting
    BY <1>1 DEF Rendered, CreateClientConfig, RenderConfig
  <1> QED BY <1>1, <1>2 DEF OverridePreservesNamespace, ShouldFederate,
             ResolveSessionNamespace, LOCAL_NAMESPACE

(***************************************************************************)
(* Tenants are apart, for any organizations, overrides, protocol and       *)
(* number of routers: a session carries the namespace of its owner's       *)
(* organization, however the adapter was built and started again           *)
(* (OrgNamespace, ensure_override_preserves_namespace).                    *)
(***************************************************************************)
THEOREM TenantsCorrect == RouterSpec => []TenantsApart
  <1>1. RouterInit => SessionInv
    BY DEF RouterInit, SessionInv
  <1>2. SessionInv /\ [RouterNext]_routerVars => SessionInv'
    BY SessionStep
  <1> QED BY <1>1, <1>2, SessionIsTenants, PTL DEF RouterSpec

Routers == [alive : BOOLEAN, lost : BOOLEAN, refederated : BOOLEAN,
            upstream : Upstreams \cup {Standalone, OperatorOwned}]

(* A zenohd that runs is the adapter's, which has one only while it is       *)
(* running, or was lost as it started; and what the adapter would start one  *)
(* with is what its owner was told last.                                     *)
RouterInv ==
  /\ zenohds \in Seq(Routers) /\ handle \in Nat
  /\ configFile \in Upstreams \cup {Standalone, OperatorOwned}
  /\ owner # "running" => handle = 0
  /\ \A i \in DOMAIN zenohds : zenohds[i].alive /\ ~zenohds[i].lost => i = handle
  /\ handle # 0 => handle \in DOMAIN zenohds /\ ~zenohds[handle].lost
  /\ owner \in {"building", "running"} /\ zenohAdapter.hosts => told = FileRead
  /\ \A i \in DOMAIN zenohds :
       zenohds[i].alive /\ ~zenohds[i].lost /\ ~zenohds[i].refederated =>
         zenohds[i].upstream = told
  /\ handle # 0 => zenohAdapter.hosts

LEMMA RouterEnds ==
  ASSUME zenohds \in Seq(Routers), NEW n \in DOMAIN zenohds,
         zenohds' = [zenohds EXCEPT ![n].alive = FALSE]
  PROVE  /\ zenohds' \in Seq(Routers) /\ DOMAIN zenohds' = DOMAIN zenohds
         /\ ~zenohds'[n].alive
         /\ \A i \in DOMAIN zenohds :
              /\ zenohds'[i].alive => zenohds[i].alive
              /\ zenohds'[i].lost = zenohds[i].lost
              /\ zenohds'[i].refederated = zenohds[i].refederated
              /\ zenohds'[i].upstream = zenohds[i].upstream
  <1>1. zenohds[n] \in Routers /\ DOMAIN zenohds = 1..Len(zenohds) /\ Len(zenohds) \in Nat
    OBVIOUS
  <1>2. [zenohds[n] EXCEPT !.alive = FALSE] \in Routers
    BY <1>1 DEF Routers
  <1>3. zenohds' = [zenohds EXCEPT ![n] = [zenohds[n] EXCEPT !.alive = FALSE]]
    OBVIOUS
  <1>4. zenohds' \in Seq(Routers) /\ DOMAIN zenohds' = DOMAIN zenohds
    BY <1>1, <1>2, <1>3
  <1>5. /\ zenohds'[n] = [zenohds[n] EXCEPT !.alive = FALSE]
        /\ \A i \in DOMAIN zenohds : i # n => zenohds'[i] = zenohds[i]
    BY <1>1, <1>3
  <1>6. /\ ~zenohds'[n].alive /\ zenohds'[n].lost = zenohds[n].lost
        /\ zenohds'[n].refederated = zenohds[n].refederated
        /\ zenohds'[n].upstream = zenohds[n].upstream
    BY <1>1, <1>5 DEF Routers
  <1> QED BY <1>4, <1>5, <1>6

LEMMA RouterStarts ==
  ASSUME RouterInv, owner = "running", zenohAdapter.hosts, NEW alive \in BOOLEAN,
         NEW lost \in BOOLEAN, zenohds' = Spawned(alive, lost)
  PROVE  LET n == Len(zenohds) + 1
         IN  /\ zenohds' \in Seq(Routers) /\ n \in Nat /\ n \in DOMAIN zenohds'
             /\ zenohds'[n].alive = alive /\ zenohds'[n].lost = lost
             /\ zenohds'[n].upstream = told
             /\ \A i \in DOMAIN zenohds : i \in DOMAIN zenohds' /\ zenohds'[i] = zenohds[i]
             /\ \A i \in DOMAIN zenohds' : i \in DOMAIN zenohds \/ i = n
  <1> DEFINE new == [alive |-> alive, lost |-> lost, upstream |-> FileRead,
                     refederated |-> FALSE]
  <1>1. zenohds \in Seq(Routers) /\ FileRead = told
    BY DEF RouterInv
  <1>2. FileRead \in Upstreams \cup {Standalone, OperatorOwned}
    BY DEF RouterInv, FileRead
  <1>3. new \in Routers /\ new.alive = alive /\ new.lost = lost /\ new.upstream = told
    BY <1>1, <1>2 DEF Routers
  <1>4. zenohds' = Append(zenohds, new)
    BY DEF Spawned
  <1> HIDE DEF new
  <1> QED BY <1>1, <1>3, <1>4

LEMMA RouterStep ==
  ASSUME TcpBased, SessionInv, RouterInv, [RouterNext]_routerVars
  PROVE  RouterInv'
  <1>0. /\ zenohds \in Seq(Routers) /\ handle \in Nat
        /\ DOMAIN zenohds = 1..Len(zenohds) /\ Len(zenohds) \in Nat
    BY DEF RouterInv
  <1>1. ASSUME UNCHANGED <<owner, zenohAdapter, configFile, zenohds, handle, told>>
        PROVE  RouterInv'
    BY <1>1 DEF RouterInv, FileRead
  <1>2. ASSUME NEW gossip \in BOOLEAN, NEW o \in Overrides, ConnectTo(gossip, o)
        PROVE  RouterInv'
    <2>1. /\ owner = "none" /\ owner' = "building" /\ ~zenohAdapter'.hosts
          /\ UNCHANGED <<configFile, zenohds, handle, told>>
      BY <1>2, NewAdapterIsPlain DEF ConnectTo
    <2> QED BY <2>1 DEF RouterInv
  <1>3. ASSUME NEW gossip \in BOOLEAN, NEW o \in Overrides,
               NEW u \in Upstreams \cup {Standalone}, WithRouter(gossip, o, u)
        PROVE  RouterInv'
    <2>1. /\ owner = "none" /\ owner' = "building"
          /\ zenohAdapter' = NewAdapter(gossip, o, TRUE, operatorFile)
          /\ configFile' = IF operatorFile THEN configFile ELSE u
          /\ told' = IF operatorFile THEN OperatorOwned ELSE u
          /\ UNCHANGED <<zenohds, handle>> /\ operatorFile \in BOOLEAN
      BY <1>3 DEF WithRouter, SessionInv
    <2>2. zenohAdapter'.hosts /\ zenohAdapter'.pinned = operatorFile
      BY <2>1, NewAdapterIsPlain
    <2>3. handle = 0 /\ \A i \in DOMAIN zenohds : ~(zenohds[i].alive /\ ~zenohds[i].lost)
      BY <1>0, <2>1 DEF RouterInv
    <2> QED BY <2>1, <2>2, <2>3 DEF RouterInv, FileRead
  <1>4. ASSUME \/ WithSessionReconnect \/ \E raw \in RawIds : WithNamespace(raw)
        PROVE  RouterInv'
    <2>1. owner = "building" /\ zenohAdapter \in Adapters
      BY <1>4 DEF WithSessionReconnect, WithNamespace, SessionInv
    <2>2. zenohAdapter'.hosts = zenohAdapter.hosts /\ zenohAdapter'.pinned = zenohAdapter.pinned
      BY <1>4, <2>1 DEF WithSessionReconnect, WithNamespace, Adapters
    <2>3. UNCHANGED <<owner, configFile, zenohds, handle, told>>
      BY <1>4 DEF WithSessionReconnect, WithNamespace
    <2> QED BY <2>2, <2>3 DEF RouterInv, FileRead
  <1>5. ASSUME TakeAdapter PROVE RouterInv'
    BY <1>5 DEF TakeAdapter, RouterInv, FileRead
  <1>6. ASSUME StartZenohSession \/ StopZenohSession \/ OperatorSets PROVE RouterInv'
    BY <1>1, <1>6 DEF StartZenohSession, StopZenohSession, OperatorSets
  <1>7. ASSUME NEW alive \in BOOLEAN, NEW lost \in BOOLEAN, zenohds' = Spawned(alive, lost),
               MayStart, UNCHANGED <<owner, zenohAdapter, configFile, told>>,
               IF alive /\ ~lost THEN handle' = Len(zenohds) + 1 ELSE handle' = handle
        PROVE  RouterInv'
    <2> DEFINE n == Len(zenohds) + 1
    <2>1. /\ owner = "running" /\ zenohAdapter.hosts
          /\ \A i \in DOMAIN zenohds : ~zenohds[i].alive
      BY <1>7 DEF MayStart, Listening, Alive
    <2>2. /\ zenohds' \in Seq(Routers) /\ n \in Nat /\ n \in DOMAIN zenohds'
          /\ zenohds'[n].alive = alive /\ zenohds'[n].lost = lost
          /\ zenohds'[n].upstream = told
          /\ \A i \in DOMAIN zenohds : i \in DOMAIN zenohds' /\ zenohds'[i] = zenohds[i]
          /\ \A i \in DOMAIN zenohds' : i \in DOMAIN zenohds \/ i = n
      BY <1>7, <2>1, RouterStarts
    <2>3. \A i \in DOMAIN zenohds' : zenohds'[i].alive => i = n
      BY <2>1, <2>2
    <2> HIDE DEF n
    <2>4. FileRead' = FileRead
      BY <1>7 DEF FileRead
    <2>5. IF alive /\ ~lost THEN handle' = n ELSE handle' = handle
      BY <1>7 DEF n
    <2> QED BY <1>7, <2>1, <2>2, <2>3, <2>4, <2>5 DEF RouterInv
  <1>8. ASSUME RouterReady \/ RouterExitsEarly \/ RouterTimesOut PROVE RouterInv'
    <2>1. CASE RouterReady
      BY <1>7, <2>1 DEF RouterReady
    <2>2. CASE RouterExitsEarly
      BY <1>7, <2>2 DEF RouterExitsEarly
    <2>3. CASE RouterTimesOut
      BY <1>7, <2>3 DEF RouterTimesOut
    <2> QED BY <1>8, <2>1, <2>2, <2>3
  <1>9. ASSUME KillHandle, UNCHANGED <<zenohAdapter, configFile, told>>,
               owner' \in {owner, "dropped"}
        PROVE  RouterInv'
    <2>1. CASE handle = 0
      BY <1>9, <2>1 DEF KillHandle, RouterInv, FileRead
    <2>2. CASE handle # 0
      <3>1. /\ handle \in DOMAIN zenohds /\ handle' = 0
            /\ zenohds' = [zenohds EXCEPT ![handle].alive = FALSE]
        BY <1>9, <2>2 DEF KillHandle, RouterInv
      <3>2. /\ zenohds' \in Seq(Routers) /\ DOMAIN zenohds' = DOMAIN zenohds
            /\ ~zenohds'[handle].alive
            /\ \A i \in DOMAIN zenohds :
                 /\ zenohds'[i].alive => zenohds[i].alive
                 /\ zenohds'[i].lost = zenohds[i].lost
        BY <1>0, <3>1, RouterEnds
      <3>3. \A i \in DOMAIN zenohds' : ~(zenohds'[i].alive /\ ~zenohds'[i].lost)
        BY <3>2 DEF RouterInv
      <3> QED BY <1>9, <3>1, <3>2, <3>3 DEF RouterInv, FileRead
    <2> QED BY <2>1, <2>2
  <1>10. ASSUME StopZenohd \/ DropAdapter PROVE RouterInv'
    BY <1>9, <1>10 DEF StopZenohd, DropAdapter
  <1>11. ASSUME NEW i \in DOMAIN zenohds, ZenohdDies(i) PROVE RouterInv'
    <2>1. /\ zenohds' = [zenohds EXCEPT ![i].alive = FALSE]
          /\ UNCHANGED <<owner, zenohAdapter, configFile, handle, told>>
      BY <1>11 DEF ZenohdDies
    <2>2. /\ zenohds' \in Seq(Routers) /\ DOMAIN zenohds' = DOMAIN zenohds
          /\ \A j \in DOMAIN zenohds :
               /\ zenohds'[j].alive => zenohds[j].alive
               /\ zenohds'[j].lost = zenohds[j].lost
               /\ zenohds'[j].refederated = zenohds[j].refederated
               /\ zenohds'[j].upstream = zenohds[j].upstream
      BY <1>0, <2>1, RouterEnds
    <2> QED BY <2>1, <2>2 DEF RouterInv, FileRead
  <1>12. ASSUME NEW u \in Upstreams \cup {Standalone}, Refederate(u) PROVE RouterInv'
    <2>1. /\ owner = "running" /\ ~zenohAdapter.pinned /\ configFile' = u /\ told' = u
          /\ zenohds' = [i \in DOMAIN zenohds |-> [zenohds[i] EXCEPT !.refederated = TRUE]]
          /\ UNCHANGED <<owner, zenohAdapter, handle>>
      BY <1>12 DEF Refederate, FileWritten
    <2>2. \A i \in DOMAIN zenohds :
            /\ zenohds'[i] \in Routers /\ zenohds'[i].refederated
            /\ zenohds'[i].alive = zenohds[i].alive /\ zenohds'[i].lost = zenohds[i].lost
      <3> TAKE i \in DOMAIN zenohds
      <3>1. zenohds[i] \in Routers /\ zenohds'[i] = [zenohds[i] EXCEPT !.refederated = TRUE]
        BY <1>0, <2>1
      <3> QED BY <3>1 DEF Routers
    <2>3. zenohds' \in Seq(Routers) /\ DOMAIN zenohds' = DOMAIN zenohds
      BY <1>0, <2>1, <2>2
    <2>4. FileRead' = told'
      BY <2>1 DEF FileRead
    <2> QED BY <2>1, <2>2, <2>3, <2>4 DEF RouterInv
  <1>13. CASE UNCHANGED routerVars
    BY <1>1, <1>13 DEF routerVars
  <1> QED BY <1>2, <1>3, <1>4, <1>5, <1>6, <1>8, <1>10, <1>11, <1>12, <1>13
          DEF RouterNext, Build, Drive, Surroundings

(***************************************************************************)
(* Sessions and routers are what their owners were told, for any number of *)
(* routers started and any order of starts, stops, crashes and             *)
(* refederations (start_router, refederate).  Of the protocol it is        *)
(* assumed that a port can be probed: start_router looks at nothing else   *)
(* to find the router it started before.                                   *)
(***************************************************************************)
THEOREM SessionsCorrect ==
  ASSUME TcpBased
  PROVE  RouterSpec => []SessionsAsTold
  <1>1. RouterInit => SessionInv /\ RouterInv
    <2>1. <<>> \in Seq(Routers) /\ DOMAIN <<>> = {}
      OBVIOUS
    <2>2. RouterInit => SessionInv
      BY DEF RouterInit, SessionInv
    <2>3. RouterInit => RouterInv
      BY <2>1 DEF RouterInit, RouterInv
    <2> QED BY <2>2, <2>3
  <1>2. SessionInv /\ RouterInv /\ [RouterNext]_routerVars => SessionInv' /\ RouterInv'
    BY SessionStep, RouterStep
  <1>3. SessionInv /\ RouterInv => SessionsAsTold
    <2> SUFFICES ASSUME SessionInv, RouterInv PROVE SessionsAsTold
      OBVIOUS
    <2>1. RouterAsTold
      <3>1. \A i \in DOMAIN zenohds : i # 0
        BY DEF RouterInv
      <3> QED BY <3>1 DEF RouterInv, RouterAsTold, Listening, Alive
    <2> QED BY <2>1, SessionIsTenants DEF SessionsAsTold
  <1> QED BY <1>1, <1>2, <1>3, PTL DEF RouterSpec

-----------------------------------------------------------------------------
(* ClockSync                                                                 *)

(* What an exchange has stamped so far.                                      *)
ClockTypes ==
  /\ localNow \in Int /\ skew \in Int /\ honest \in BOOLEAN
  /\ stamps \in Seq(Int)
  /\ syncAt \in {"idle", "asked", "received", "answered", "done", "failed"}
  /\ syncAt = "idle" => Len(stamps) = 0
  /\ syncAt = "asked" => Len(stamps) = 1
  /\ syncAt = "received" => Len(stamps) = 2
  /\ syncAt = "answered" => Len(stamps) = 3
  /\ syncAt = "done" =>
       /\ Len(stamps) = 4
       /\ sync = ComputeSync(stamps[1], stamps[2], stamps[3], stamps[4])

(* With clocks nobody sets and true stamps, each stamp was read after the    *)
(* one before it: the core node's is skew ahead of a local time in between.  *)
StampsAscend ==
  honest =>
    /\ \A i \in DOMAIN stamps : stamps[i] \in Nat
    /\ syncAt = "asked" => stamps[1] <= localNow
    /\ syncAt = "received" =>
         /\ stamps[1] <= stamps[2] - skew /\ stamps[2] - skew <= localNow
    /\ syncAt \in {"answered", "done"} =>
         /\ stamps[1] <= stamps[2] - skew /\ stamps[2] <= stamps[3]
         /\ syncAt = "answered" => stamps[3] - skew <= localNow
         /\ syncAt = "done" => stamps[3] - skew <= stamps[4] /\ stamps[4] <= StampMax

TicksTold ==
  /\ simTicks \in Seq(Nat)
  /\ simCache \in Nat /\ lastTick \in Nat \cup {NoTick}
  /\ simCache = 0 <=> lastTick = NoTick
  /\ lastTick > 0 => simCache = lastTick

ClockInv == ClockTypes /\ StampsAscend /\ TicksTold

LEMMA HalfIsClose ==
  ASSUME NEW n \in Int
  PROVE  /\ HalfOf(n) \in Int
         /\ 2 * HalfOf(n) <= n + 1 /\ n <= 2 * HalfOf(n) + 1
         /\ n > 1 => HalfOf(n) > 0
         /\ n < -1 => HalfOf(n) < 0
  BY DEF HalfOf

LEMMA ExchangeIsClose ==
  ASSUME NEW t0 \in Nat, NEW t1 \in Int, NEW t2 \in Int, NEW t3 \in Nat, NEW d \in Int,
         t0 <= t1 - d, t1 <= t2, t2 - d <= t3, t3 <= StampMax,
         d \in (-OffsetMax - 1)..OffsetMax
  PROVE  LET s == ComputeSync(t0, t1, t2, t3)
         IN  2 * Distance(s.offset, d) <= s.delay + 1
  <1> DEFINE n == (t1 - t0) + (t2 - t3)
             delay == (t3 - t0) - (t2 - t1)
             s == ComputeSync(t0, t1, t2, t3)
  <1>0. StampMax \in Nat /\ OffsetMax \in Nat
    BY ClockAssumption
  <1>1. n \in Int /\ delay \in Nat /\ delay <= StampMax
    BY <1>0
  <1>2. n - 2 * d <= delay /\ 2 * d - n <= delay
    OBVIOUS
  <1>3. s.delay = delay
    BY <1>0, <1>1 DEF ComputeSync, Saturated
  <1>4. s.offset = Saturated(HalfOf(n), -OffsetMax - 1, OffsetMax)
    BY DEF ComputeSync
  <1>5. /\ HalfOf(n) \in Int /\ 2 * HalfOf(n) <= n + 1 /\ n <= 2 * HalfOf(n) + 1
    BY <1>1, HalfIsClose
  <1> HIDE DEF n, delay, s
  <1>6. 2 * HalfOf(n) - 2 * d <= delay + 1 /\ 2 * d - 2 * HalfOf(n) <= delay + 1
    BY <1>1, <1>2, <1>5
  <1>7. 2 * Distance(s.offset, d) <= delay + 1
    BY <1>0, <1>1, <1>4, <1>5, <1>6 DEF Saturated, Distance
  <1> QED BY <1>3, <1>7 DEF s

LEMMA SignsAreKept ==
  ASSUME NEW t0 \in Int, NEW t1 \in Int, NEW t2 \in Int, NEW t3 \in Int
  PROVE  LET s     == ComputeSync(t0, t1, t2, t3)
             ahead == (t1 - t0) + (t2 - t3)
         IN  /\ ahead > 1 => s.offset > 0 \/ OffsetMax = 0
             /\ ahead < -1 => s.offset < 0
             /\ s.delay > 0 => t3 - t0 > t2 - t1
  <1> DEFINE n == (t1 - t0) + (t2 - t3)
             s == ComputeSync(t0, t1, t2, t3)
  <1>0. StampMax \in Nat /\ OffsetMax \in Nat
    BY ClockAssumption
  <1>1. n \in Int /\ s.offset = Saturated(HalfOf(n), -OffsetMax - 1, OffsetMax)
    BY DEF ComputeSync
  <1>2. s.delay > 0 => t3 - t0 > t2 - t1
    BY <1>0 DEF ComputeSync, Saturated
  <1> HIDE DEF n
  <1>3. /\ HalfOf(n) \in Int
        /\ n > 1 => HalfOf(n) > 0
        /\ n < -1 => HalfOf(n) < 0
    BY <1>1, HalfIsClose
  <1>4. /\ n > 1 => s.offset > 0 \/ OffsetMax = 0
        /\ n < -1 => s.offset < 0
    BY <1>0, <1>1, <1>3 DEF Saturated
  <1> QED BY <1>2, <1>4 DEF n

LEMMA StampIsAppended ==
  ASSUME NEW q \in Seq(Int), NEW t \in Int
  PROVE  /\ Append(q, t) \in Seq(Int) /\ Len(Append(q, t)) = Len(q) + 1
         /\ \A i \in DOMAIN q : Append(q, t)[i] = q[i]
         /\ Append(q, t)[Len(q) + 1] = t
         /\ \A i \in DOMAIN Append(q, t) : i \in DOMAIN q \/ i = Len(q) + 1
         /\ Len(q) = 1 => Append(q, t)[1] = q[1]
         /\ Len(q) = 2 => Append(q, t)[1] = q[1] /\ Append(q, t)[2] = q[2]
         /\ Len(q) = 3 => /\ Append(q, t)[1] = q[1] /\ Append(q, t)[2] = q[2]
                          /\ Append(q, t)[3] = q[3]
  OBVIOUS

LEMMA SyncStep == ClockInv /\ Synchronize => ClockInv'
  <1> SUFFICES ASSUME ClockInv, Synchronize PROVE ClockInv'
    OBVIOUS
  <1>0. /\ StampMax \in Nat /\ localNow \in Int /\ skew \in Int /\ honest \in BOOLEAN
        /\ stamps \in Seq(Int) /\ TicksTold
    BY ClockAssumption DEF ClockInv, ClockTypes
  <1>1. UNCHANGED simVars
    BY DEF Synchronize, SendClockRequest, CoreReceives, CoreAnswers, CoreInvents, SyncDone,
       SyncFails, Elapse, SetClock, Stamp
  <1>2. TicksTold'
    BY <1>0, <1>1 DEF TicksTold, simVars
  <1>3. ASSUME SendClockRequest PROVE ClockInv'
    <2>1. /\ syncAt = "idle" /\ syncAt' = "asked" /\ stamps' = Append(stamps, localNow)
          /\ localNow \in Stamps /\ UNCHANGED <<localNow, skew, honest, sync>>
      BY <1>3 DEF SendClockRequest, Stamp, Reads
    <2>2. Len(stamps) = 0 /\ DOMAIN stamps = {} /\ Len(stamps) \in Nat
      BY <1>0, <2>1 DEF ClockInv, ClockTypes
    <2>3. /\ stamps' \in Seq(Int) /\ Len(stamps') = 1 /\ stamps'[1] = localNow
          /\ \A i \in DOMAIN stamps' : i = 1
      BY <1>0, <2>1, <2>2, StampIsAppended
    <2>4. ClockTypes'
      BY <1>0, <2>1, <2>3 DEF ClockTypes
    <2>5. StampsAscend'
      BY <1>0, <2>1, <2>3 DEF StampsAscend, Stamps
    <2> QED BY <1>2, <2>4, <2>5 DEF ClockInv
  <1>4. ASSUME CoreReceives PROVE ClockInv'
    <2>1. /\ syncAt = "asked" /\ syncAt' = "received"
          /\ stamps' = Append(stamps, localNow + skew)
          /\ localNow + skew \in Stamps /\ UNCHANGED <<localNow, skew, honest, sync>>
      BY <1>4 DEF CoreReceives, Stamp, Reads
    <2>2. Len(stamps) = 1 /\ 1 \in DOMAIN stamps /\ stamps[1] \in Int
      BY <1>0, <2>1 DEF ClockInv, ClockTypes
    <2>3. /\ stamps' \in Seq(Int) /\ Len(stamps') = 2
          /\ stamps'[1] = stamps[1] /\ stamps'[2] = localNow + skew
          /\ \A i \in DOMAIN stamps : stamps'[i] = stamps[i]
          /\ \A i \in DOMAIN stamps' : i \in DOMAIN stamps \/ i = 2
      BY <1>0, <2>1, <2>2, StampIsAppended
    <2>4. ClockTypes'
      BY <1>0, <2>1, <2>3 DEF ClockTypes
    <2>5. StampsAscend'
      BY <1>0, <2>1, <2>2, <2>3 DEF ClockInv, StampsAscend, Stamps
    <2> QED BY <1>2, <2>4, <2>5 DEF ClockInv
  <1>5. ASSUME CoreAnswers PROVE ClockInv'
    <2>1. /\ syncAt = "received" /\ syncAt' = "answered"
          /\ stamps' = Append(stamps, localNow + skew)
          /\ localNow + skew \in Stamps /\ UNCHANGED <<localNow, skew, honest, sync>>
      BY <1>5 DEF CoreAnswers, Stamp, Reads
    <2>2. /\ Len(stamps) = 2 /\ stamps[1] \in Int /\ stamps[2] \in Int
          /\ stamps \in Seq(Int) /\ localNow + skew \in Int
      BY <1>0, <2>1 DEF ClockInv, ClockTypes
    <2>3. /\ stamps' \in Seq(Int) /\ Len(stamps') = 3
          /\ stamps'[1] = stamps[1] /\ stamps'[2] = stamps[2] /\ stamps'[3] = localNow + skew
          /\ \A i \in DOMAIN stamps : stamps'[i] = stamps[i]
          /\ \A i \in DOMAIN stamps' : i \in DOMAIN stamps \/ i = 3
      BY <2>1, <2>2, StampIsAppended
    <2>4. ClockTypes'
      BY <1>0, <2>1, <2>3 DEF ClockTypes
    <2>5. StampsAscend'
      BY <1>0, <2>1, <2>2, <2>3 DEF ClockInv, StampsAscend, Stamps
    <2> QED BY <1>2, <2>4, <2>5 DEF ClockInv
  <1>6. ASSUME CoreInvents PROVE ClockInv'
    <2>1. /\ syncAt \in {"asked", "received"} /\ syncAt' = "answered" /\ honest' = FALSE
          /\ UNCHANGED <<localNow, skew, sync>>
      BY <1>6 DEF CoreInvents
    <2>2. PICK t1, t2 \in Stamps : stamps' = <<stamps[1], t1, t2>>
      BY <1>6 DEF CoreInvents
    <2>3. stamps[1] \in Int /\ t1 \in Int /\ t2 \in Int
      BY <1>0, <2>1 DEF ClockInv, ClockTypes, Stamps
    <2>4. stamps' \in Seq(Int) /\ Len(stamps') = 3
      BY <2>2, <2>3
    <2>5. ClockTypes'
      BY <1>0, <2>1, <2>4 DEF ClockTypes
    <2> QED BY <1>2, <2>1, <2>5 DEF ClockInv, StampsAscend
  <1>7. ASSUME SyncDone PROVE ClockInv'
    <2>1. /\ syncAt = "answered" /\ syncAt' = "done" /\ stamps' = Append(stamps, localNow)
          /\ localNow \in Stamps /\ UNCHANGED <<localNow, skew, honest>>
          /\ sync' = ComputeSync(stamps[1], stamps[2], stamps[3], localNow)
      BY <1>7 DEF SyncDone, Reads
    <2>2. /\ Len(stamps) = 3
          /\ stamps[1] \in Int /\ stamps[2] \in Int /\ stamps[3] \in Int
      BY <1>0, <2>1 DEF ClockInv, ClockTypes
    <2>3. /\ stamps' \in Seq(Int) /\ Len(stamps') = 4
          /\ stamps'[1] = stamps[1] /\ stamps'[2] = stamps[2]
          /\ stamps'[3] = stamps[3] /\ stamps'[4] = localNow
          /\ \A i \in DOMAIN stamps : stamps'[i] = stamps[i]
          /\ \A i \in DOMAIN stamps' : i \in DOMAIN stamps \/ i = 4
      BY <1>0, <2>1, <2>2, StampIsAppended
    <2>4. ClockTypes'
      BY <1>0, <2>1, <2>3 DEF ClockTypes
    <2>5. StampsAscend'
      BY <1>0, <2>1, <2>2, <2>3 DEF ClockInv, StampsAscend, Stamps
    <2> QED BY <1>2, <2>4, <2>5 DEF ClockInv
  <1>8. ASSUME SyncFails \/ Elapse \/ SetClock PROVE ClockInv'
    <2>1. UNCHANGED <<stamps, sync>>
      BY <1>8 DEF SyncFails, Elapse, SetClock
    <2>2. ASSUME SyncFails PROVE ClockInv'
      BY <1>0, <1>2, <2>1, <2>2 DEF SyncFails, ClockInv, ClockTypes, StampsAscend
    <2>3. ASSUME Elapse PROVE ClockInv'
      BY <1>0, <1>2, <2>1, <2>3 DEF Elapse, ClockInv, ClockTypes, StampsAscend
    <2>4. ASSUME SetClock PROVE ClockInv'
      <3>1. /\ honest' = FALSE /\ syncAt' = syncAt
            /\ localNow' \in Int /\ skew' \in Int
        BY <1>0, <2>4 DEF SetClock
      <3>2. ClockTypes'
        BY <1>0, <2>1, <3>1 DEF ClockInv, ClockTypes
      <3> QED BY <1>2, <3>1, <3>2 DEF ClockInv, StampsAscend
    <2> QED BY <1>8, <2>2, <2>3, <2>4
  <1> QED BY <1>3, <1>4, <1>5, <1>6, <1>7, <1>8 DEF Synchronize

LEMMA TickStep ==
  ClockInv /\ (FeedTick \/ \E time \in TickTimes : PublishTick(time)) => ClockInv'
  <1> SUFFICES ASSUME ClockInv, FeedTick \/ \E time \in TickTimes : PublishTick(time)
               PROVE  ClockInv'
    OBVIOUS
  <1>1. UNCHANGED syncVars
    BY DEF FeedTick, PublishTick, SimAlone
  <1>2. ClockTypes' /\ StampsAscend'
    BY <1>1 DEF syncVars, ClockInv, ClockTypes, StampsAscend
  <1>3. simTicks \in Seq(Nat) /\ TicksTold
    BY DEF ClockInv, TicksTold
  <1>4. ASSUME NEW time \in TickTimes, PublishTick(time) PROVE TicksTold'
    <2>1. time \in Nat
      BY ClockAssumption
    <2> QED BY <1>3, <1>4, <2>1 DEF PublishTick, TicksTold
  <1>5. ASSUME FeedTick PROVE TicksTold'
    <2>1. simTicks # <<>> /\ simTicks' = Tail(simTicks)
      BY <1>5 DEF FeedTick
    <2>2. simTicks' \in Seq(Nat) /\ Head(simTicks) \in Nat
      BY <1>3, <2>1
    <2> QED BY <1>3, <1>5, <2>2 DEF FeedTick, Stored, TicksTold, NoTick
  <1> QED BY <1>2, <1>4, <1>5 DEF ClockInv

(***************************************************************************)
(* A node's clock is as true as what it is told, for any width of stamps   *)
(* and offsets, any skew and any delay: without a set clock or a false     *)
(* stamp the offset is off by half of the delay at most; with them neither *)
(* the offset nor the delay changes sides (compute_sync).  A simulated     *)
(* clock is ready from its first tick on and tells the last one.           *)
(***************************************************************************)
THEOREM ClockCorrect == ClockSpec => []ClockIsTrue
  <1>1. ClockInit => ClockInv
    <2> SUFFICES ASSUME ClockInit PROVE ClockInv
      OBVIOUS
    <2>1. <<>> \in Seq(Int) /\ <<>> \in Seq(Nat) /\ Len(<<>>) = 0 /\ DOMAIN <<>> = {}
      OBVIOUS
    <2>2. localNow \in Int /\ skew \in Int /\ honest \in BOOLEAN
      BY ClockAssumption DEF ClockInit, Stamps
    <2> QED BY <2>1, <2>2 DEF ClockInit, ClockInv, ClockTypes, StampsAscend, TicksTold, NoTick
  <1>2. ClockInv /\ [ClockNext]_clockVars => ClockInv'
    <2>1. ClockInv /\ UNCHANGED clockVars => ClockInv'
      BY DEF clockVars, syncVars, simVars, ClockInv, ClockTypes, StampsAscend, TicksTold
    <2> QED BY <2>1, SyncStep, TickStep DEF ClockNext
  <1>3. ClockInv => ClockIsTrue
    <2> SUFFICES ASSUME ClockInv PROVE ClockIsTrue
      OBVIOUS
    <2>1. ASSUME syncAt = "done"
          PROVE  /\ stamps[1] \in Int /\ stamps[2] \in Int /\ stamps[3] \in Int
                 /\ stamps[4] \in Int /\ skew \in Int
                 /\ DOMAIN stamps = 1..4
                 /\ sync = ComputeSync(stamps[1], stamps[2], stamps[3], stamps[4])
      <3>1. stamps \in Seq(Int) /\ Len(stamps) = 4
        BY <2>1 DEF ClockInv, ClockTypes
      <3>2. /\ skew \in Int
            /\ sync = ComputeSync(stamps[1], stamps[2], stamps[3], stamps[4])
        BY <2>1 DEF ClockInv, ClockTypes
      <3>3. DOMAIN stamps = 1..4
        BY <3>1
      <3>4. /\ stamps[1] \in Int /\ stamps[2] \in Int
            /\ stamps[3] \in Int /\ stamps[4] \in Int
        BY <3>1
      <3> QED BY <3>2, <3>3, <3>4
    <2>2. ASSUME syncAt = "done", honest, skew \in (-OffsetMax - 1)..OffsetMax
          PROVE  2 * Distance(sync.offset, skew) <= sync.delay + 1
      <3>1. stamps[1] \in Nat /\ stamps[4] \in Nat
        BY <2>1, <2>2 DEF ClockInv, StampsAscend
      <3>2. /\ stamps[1] <= stamps[2] - skew /\ stamps[2] <= stamps[3]
            /\ stamps[3] - skew <= stamps[4] /\ stamps[4] <= StampMax
        BY <2>2 DEF ClockInv, StampsAscend
      <3> QED BY <2>1, <2>2, <3>1, <3>2, ExchangeIsClose
    <2>3. SignIsKept
      BY <2>1, SignsAreKept DEF SignIsKept
    <2>4. SimTellsLastTick
      BY DEF ClockInv, TicksTold, SimTellsLastTick, NowNs, ClockNotReady, NoTick
    <2> QED BY <2>2, <2>3, <2>4 DEF ClockIsTrue, OffsetIsClose
  <1> QED BY <1>1, <1>2, <1>3, PTL DEF ClockSpec

-----------------------------------------------------------------------------
(* Pacer                                                                     *)

PacerTypes ==
  /\ clock \in Nat /\ period \in Nat /\ nextTick \in Nat /\ lastReport \in Nat
  /\ overruns \in Nat /\ worstLate \in Nat /\ late \in Seq(Nat)
  /\ started \in [last : Int, before : Int]
  /\ anchor \in [at : Nat, cycles : Nat]
  /\ loopAt \in {"none", "refused", "body", "pacing"}
  /\ loopAt \in {"body", "pacing"} <=> period # 0

(* What makes two cycles a period apart: a cycle starts at the deadline or   *)
(* at most one late wake-up behind it, and the next deadline is no earlier   *)
(* than one period after the last.                                           *)
CyclesApart ==
  /\ loopAt \in {"none", "refused"} => started.last = NeverStarted
  /\ started.last = NeverStarted => started.before = NeverStarted
  /\ started.last # NeverStarted =>
       /\ loopAt = "body" =>
            /\ nextTick <= started.last /\ started.last <= clock
            /\ started.last <= nextTick + MaxOvershoot
       /\ loopAt = "pacing" => nextTick >= started.last + period - MaxOvershoot
  /\ loopAt = "pacing" => clock <= nextTick + MaxOvershoot

PacerInv ==
  /\ PacerTypes /\ CyclesApart /\ NoBurst /\ NoDrift /\ Tallied
  /\ overruns = 0 => worstLate = 0

LEMMA WholePeriods ==
  ASSUME NEW at \in Nat, NEW n \in Nat, NEW p \in Nat
  PROVE  at + (n + 1) * p = at + n * p + p /\ n * p \in Nat
  OBVIOUS

LEMMA LateIsAppended ==
  ASSUME NEW q \in Seq(Nat), NEW n \in Nat
  PROVE  /\ Append(q, n) \in Seq(Nat) /\ Len(Append(q, n)) = Len(q) + 1
         /\ \A i \in DOMAIN q : i \in DOMAIN Append(q, n) /\ Append(q, n)[i] = q[i]
         /\ Len(q) + 1 \in DOMAIN Append(q, n) /\ Append(q, n)[Len(q) + 1] = n
         /\ \A i \in DOMAIN Append(q, n) : i \in DOMAIN q \/ i = Len(q) + 1
  OBVIOUS

LEMMA ScheduleKeepsPace == PacerInv /\ Schedule => PacerInv'
  <1> SUFFICES ASSUME PacerInv, Schedule PROVE PacerInv'
    OBVIOUS
  <1> DEFINE deadline == nextTick + period
  <1>0. /\ PacerTypes /\ loopAt = "body" /\ loopAt' = "pacing" /\ period # 0
        /\ UNCHANGED <<clock, period, lastReport, started>> /\ deadline \in Nat
    BY DEF PacerInv, PacerTypes, Schedule
  <1>1. CASE deadline >= clock
    <2>1. /\ nextTick' = deadline /\ anchor' = [anchor EXCEPT !.cycles = @ + 1]
          /\ UNCHANGED <<overruns, worstLate, late>>
      BY <1>1 DEF Schedule
    <2>0. nextTick' = deadline
      BY <2>1
    <2>2. PacerTypes'
      <3>1. anchor \in [at : Nat, cycles : Nat]
        BY <1>0 DEF PacerTypes
      <3>2. anchor' \in [at : Nat, cycles : Nat]
        BY <2>1, <3>1
      <3> QED BY <1>0, <2>0, <2>1, <3>2 DEF PacerTypes
    <2>3. CyclesApart' /\ NoBurst'
      BY <1>0, <1>1, <2>0, PacerAssumption
         DEF PacerInv, PacerTypes, CyclesApart, NoBurst, NeverStarted
    <2>4. NoDrift'
      <3>1. anchor'.at = anchor.at /\ anchor'.cycles = anchor.cycles + 1
        BY <1>0, <2>1 DEF PacerTypes
      <3>2. nextTick = anchor.at + anchor.cycles * period
        BY <1>0 DEF PacerInv, NoDrift
      <3>3. anchor.at \in Nat /\ anchor.cycles \in Nat /\ period \in Nat
        BY <1>0 DEF PacerTypes
      <3>4. nextTick' = anchor'.at + anchor'.cycles * period'
        BY <1>0, <2>1, <3>1, <3>2, <3>3, WholePeriods
      <3> QED BY <3>4 DEF NoDrift
    <2>5. Tallied' /\ (overruns' = 0 => worstLate' = 0)
      BY <2>1 DEF PacerInv, Tallied
    <2> QED BY <2>2, <2>3, <2>4, <2>5 DEF PacerInv
  <1>2. CASE ~(deadline >= clock)
    <2> DEFINE by == clock - deadline
    <2>1. /\ nextTick' = clock /\ anchor' = [at |-> clock, cycles |-> 0]
          /\ overruns' = overruns + 1 /\ worstLate' = Later(worstLate, by)
          /\ late' = Append(late, by)
      BY <1>2 DEF Schedule, Reanchored
    <2>2. by \in Nat /\ by > 0
      BY <1>0, <1>2 DEF PacerTypes
    <2> HIDE DEF by
    <2>3. worstLate' \in Nat /\ worstLate' >= worstLate /\ worstLate' >= by
          /\ (worstLate' = worstLate \/ worstLate' = by)
          /\ (worstLate = 0 => worstLate' = by)
      BY <1>0, <2>1, <2>2 DEF Later, PacerTypes
    <2>4. /\ late' \in Seq(Nat) /\ Len(late') = Len(late) + 1
          /\ \A i \in DOMAIN late : i \in DOMAIN late' /\ late'[i] = late[i]
          /\ Len(late) + 1 \in DOMAIN late' /\ late'[Len(late) + 1] = by
          /\ \A i \in DOMAIN late' : i \in DOMAIN late \/ i = Len(late) + 1
      BY <1>0, <2>1, <2>2, LateIsAppended DEF PacerTypes
    <2>5. PacerTypes'
      BY <1>0, <2>1, <2>3, <2>4 DEF PacerTypes
    <2>6. CyclesApart' /\ NoBurst'
      BY <1>0, <1>2, <2>1, PacerAssumption
         DEF PacerInv, PacerTypes, CyclesApart, NoBurst, NeverStarted
    <2>7. NoDrift'
      BY <1>0, <2>1 DEF NoDrift, PacerTypes
    <2>8. Tallied'
      <3>1. overruns' = Len(late')
        BY <2>1, <2>4 DEF PacerInv, Tallied
      <3>2. ASSUME NEW i \in DOMAIN late' PROVE late'[i] > 0 /\ late'[i] <= worstLate'
        <4>1. CASE i \in DOMAIN late
          <5>1. late'[i] > 0 /\ late'[i] <= worstLate /\ late'[i] \in Nat
            BY <1>0, <2>4, <4>1 DEF PacerInv, Tallied, PacerTypes
          <5> QED BY <1>0, <2>3, <5>1 DEF PacerTypes
        <4> QED BY <2>2, <2>3, <2>4, <4>1
      <3>3. \E i \in DOMAIN late' : late'[i] = worstLate'
        <4>1. CASE worstLate' = by
          BY <2>4, <4>1
        <4>2. CASE worstLate' # by
          <5>1. worstLate' = worstLate /\ worstLate # 0 /\ overruns # 0
            BY <2>3, <4>2 DEF PacerInv
          <5>2. overruns > 0
            BY <1>0, <5>1 DEF PacerTypes
          <5>3. PICK i \in DOMAIN late : late[i] = worstLate
            BY <5>2 DEF PacerInv, Tallied
          <5> QED BY <2>4, <5>1, <5>3
        <4> QED BY <4>1, <4>2
      <3> QED BY <3>1, <3>2, <3>3 DEF Tallied
    <2>9. overruns' # 0
      BY <1>0, <2>1 DEF PacerTypes
    <2> QED BY <2>5, <2>6, <2>7, <2>8, <2>9 DEF PacerInv
  <1> QED BY <1>1, <1>2

LEMMA PacerStep == PacerInv /\ [PacerNext]_pacerVars => PacerInv'
  <1> SUFFICES ASSUME PacerInv, [PacerNext]_pacerVars PROVE PacerInv'
    OBVIOUS
  <1>0. PacerTypes
    BY DEF PacerInv
  <1>1. ASSUME TimePasses PROVE PacerInv'
    <2>1. PacerTypes'
      BY <1>0, <1>1 DEF TimePasses, PacerTypes
    <2>2. CyclesApart' /\ NoBurst'
      BY <1>0, <1>1, PacerAssumption
         DEF TimePasses, PacerInv, PacerTypes, CyclesApart, NoBurst, NeverStarted
    <2>3. NoDrift' /\ Tallied' /\ (overruns' = 0 => worstLate' = 0)
      BY <1>1 DEF TimePasses, PacerInv, NoDrift, Tallied
    <2> QED BY <2>1, <2>2, <2>3 DEF PacerInv
  <1>2. ASSUME NEW p \in Periods, NewPacer(p) PROVE PacerInv'
    <2>0. p \in Nat /\ loopAt = "none" /\ period = 0 /\ period' = p
      BY <1>0, <1>2, PacerAssumption DEF NewPacer, PacerTypes
    <2>1. PacerTypes'
      BY <1>0, <1>2, <2>0 DEF NewPacer, PacerTypes
    <2>2. CyclesApart' /\ NoBurst'
      BY <1>0, <1>2, <2>0, PacerAssumption
         DEF NewPacer, PacerInv, PacerTypes, CyclesApart, NoBurst, NeverStarted
    <2>3. NoDrift'
      BY <1>0, <1>2, <2>0 DEF NewPacer, NoDrift, PacerTypes
    <2>4. Tallied' /\ (overruns' = 0 => worstLate' = 0)
      BY <1>2 DEF NewPacer, PacerInv, Tallied
    <2> QED BY <2>1, <2>2, <2>3, <2>4 DEF PacerInv
  <1>3. ASSUME NextCycle PROVE PacerInv'
    <2> DEFINE due == overruns # 0 /\ clock - lastReport >= OVERRUN_REPORT_PERIOD
    <2>0. /\ loopAt = "pacing" /\ clock >= nextTick /\ loopAt' = "body"
          /\ started' = [last |-> clock, before |-> started.last]
          /\ UNCHANGED <<clock, period, nextTick, anchor>>
          /\ overruns' = IF due THEN 0 ELSE overruns
          /\ worstLate' = IF due THEN 0 ELSE worstLate
          /\ lastReport' = IF due THEN clock ELSE lastReport
          /\ late' = IF due THEN <<>> ELSE late
      BY <1>3 DEF NextCycle
    <2> HIDE DEF due
    <2>1. PacerTypes'
      <3>1. <<>> \in Seq(Nat)
        OBVIOUS
      <3> QED BY <1>0, <2>0, <3>1 DEF PacerTypes
    <2>2. CyclesApart' /\ NoBurst'
      BY <1>0, <2>0, PacerAssumption
         DEF PacerInv, PacerTypes, CyclesApart, NoBurst, NeverStarted
    <2>3. NoDrift'
      BY <2>0 DEF PacerInv, NoDrift
    <2>4. Tallied' /\ (overruns' = 0 => worstLate' = 0)
      <3>1. Len(<<>>) = 0 /\ DOMAIN <<>> = {}
        OBVIOUS
      <3>2. CASE due
        BY <2>0, <3>1, <3>2 DEF Tallied
      <3>3. CASE ~due
        BY <2>0, <3>3 DEF PacerInv, Tallied
      <3> QED BY <3>2, <3>3
    <2> QED BY <2>1, <2>2, <2>3, <2>4 DEF PacerInv
  <1>4. CASE UNCHANGED pacerVars
    BY <1>4 DEF pacerVars, PacerInv, PacerTypes, CyclesApart, NoBurst, NoDrift, Tallied
  <1> QED BY <1>1, <1>2, <1>3, <1>4, ScheduleKeepsPace DEF PacerNext

(***************************************************************************)
(* A pacer keeps its pace, for any period, any time and however late it is *)
(* woken or the body of the loop is: two cycles are a period apart but for *)
(* one late wake-up, the deadlines do not drift, and the tally of overruns *)
(* has every one of them and the worst (pacer.rs).                         *)
(***************************************************************************)
THEOREM PaceCorrect == PacerSpec => []PaceIsKept
  <1>1. PacerInit => PacerInv
    <2> SUFFICES ASSUME PacerInit PROVE PacerInv
      OBVIOUS
    <2>1. <<>> \in Seq(Nat) /\ Len(<<>>) = 0 /\ DOMAIN <<>> = {}
      OBVIOUS
    <2>2. PacerTypes
      BY <2>1 DEF PacerInit, PacerTypes, NeverStarted
    <2>3. CyclesApart /\ NoBurst /\ NoDrift /\ Tallied
      BY <2>1 DEF PacerInit, CyclesApart, NoBurst, NoDrift, Tallied, NeverStarted
    <2> QED BY <2>2, <2>3 DEF PacerInv, PacerInit
  <1>2. PacerInv /\ [PacerNext]_pacerVars => PacerInv'
    BY PacerStep
  <1>3. PacerInv => PaceIsKept
    BY DEF PacerInv, PaceIsKept
  <1> QED BY <1>1, <1>2, <1>3, PTL DEF PacerSpec

-----------------------------------------------------------------------------
(* SimBridge                                                                 *)

JointNumbers == [Arms -> Nat]

(* The shared vector is ahead of whatever was taken from it: what a pipeline *)
(* carries, what the simulator has, and what it had at a merge.              *)
BridgeInv ==
  /\ joints \in JointNumbers /\ simHas \in JointNumbers
  /\ carried \in [Arms -> [joints : JointNumbers, seen : JointNumbers]]
  /\ pipes \in [Pipes -> {"none", "subscribe", "read", "relay", "receive", "emit",
                          "pause", "ended", "panicked"}]
  /\ \A b \in Arms : simHas[b] <= joints[b]
  /\ \A a \in Arms :
       \A b \in Arms : carried[a].joints[b] <= joints[b]
  /\ CommandsKept

LEMMA BridgeStep == BridgeInv /\ [BridgeNext]_bridgeVars => BridgeInv'
  <1> SUFFICES ASSUME BridgeInv, [BridgeNext]_bridgeVars PROVE BridgeInv'
    OBVIOUS
  <1> USE DEF JointNumbers
  <1>0. \A p \in Arms : p \in Pipes
    BY DEF Pipes
  <1>1. ASSUME NEW p, NEW to \in {"receive", "subscribe", "read", "relay", "pause", "ended",
                                  "panicked"},
               Goes(p, to), Calm
        PROVE  BridgeInv'
    <2>1. pipes' = [pipes EXCEPT ![p] = to] /\ UNCHANGED <<joints, carried, simHas>>
      BY <1>1 DEF Goes, Calm
    <2>2. \A a \in Arms : pipes'[a] = "emit" => pipes[a] = "emit"
      BY <1>0, <2>1 DEF BridgeInv
    <2>3. CommandsKept'
      BY <2>1, <2>2 DEF BridgeInv, CommandsKept
    <2> QED BY <2>1, <2>3 DEF BridgeInv
  <1>2. ASSUME UNCHANGED <<joints, carried, simHas, pipes>> PROVE BridgeInv'
    BY <1>2 DEF BridgeInv, CommandsKept
  <1>3. ASSUME NEW a \in Arms, ReceiveCommand(a) PROVE BridgeInv'
    <2> DEFINE merged == [joints EXCEPT ![a] = @ + 1]
    <2>1. /\ pipes' = [pipes EXCEPT ![a] = "emit"] /\ joints' = merged
          /\ carried' = [carried EXCEPT ![a] = [joints |-> merged, seen |-> simHas]]
          /\ simHas' = simHas
      BY <1>3 DEF ReceiveCommand, Branch, Goes, UpdateAndMerge
    <2>2. /\ merged \in JointNumbers /\ merged[a] = joints[a] + 1
          /\ \A b \in Arms : merged[b] >= joints[b]
          /\ \A b \in Arms : joints[b] \in Nat /\ simHas[b] \in Nat /\ merged[b] \in Nat
      BY DEF BridgeInv
    <2> HIDE DEF merged
    <2>3. /\ carried'[a].joints = merged /\ carried'[a].seen = simHas
          /\ \A b \in Arms : b # a => carried'[b] = carried[b] /\ pipes'[b] = pipes[b]
      BY <1>0, <2>1 DEF BridgeInv
    <2>4. carried' \in [Arms -> [joints : JointNumbers, seen : JointNumbers]]
      BY <2>1, <2>2 DEF BridgeInv
    <2>5. \A b \in Arms : simHas'[b] <= joints'[b]
      BY <2>1, <2>2 DEF BridgeInv
    <2>6. ASSUME NEW c \in Arms, NEW b \in Arms PROVE carried'[c].joints[b] <= joints'[b]
      <3>1. CASE c = a
        BY <2>1, <2>2, <2>3, <3>1
      <3>2. CASE c # a
        <4>1. carried[c].joints[b] <= joints[b] /\ carried[c].joints[b] \in Nat
          BY DEF BridgeInv
        <4> QED BY <2>1, <2>2, <2>3, <3>2, <4>1
      <3> QED BY <3>1, <3>2
    <2>7. ASSUME NEW c \in Arms, pipes'[c] = "emit"
          PROVE  /\ carried'[c].joints[c] > carried'[c].seen[c]
                 /\ \A b \in Arms : carried'[c].joints[b] >= carried'[c].seen[b]
      <3>1. CASE c = a
        <4>1. \A b \in Arms : simHas[b] <= joints[b]
          BY DEF BridgeInv
        <4> QED BY <2>2, <2>3, <3>1, <4>1
      <3>2. CASE c # a
        BY <2>3, <2>7, <3>2 DEF BridgeInv, CommandsKept
      <3> QED BY <3>1, <3>2
    <2> QED BY <2>1, <2>2, <2>4, <2>5, <2>6, <2>7 DEF BridgeInv, CommandsKept
  <1>4. ASSUME NEW a \in Arms, Emitted(a) PROVE BridgeInv'
    <2>1. /\ pipes' = [pipes EXCEPT ![a] = "receive"] /\ UNCHANGED <<joints, carried>>
          /\ simHas' = [b \in Arms |-> Newest(simHas[b], carried[a].joints[b])]
      BY <1>4 DEF Emitted, Step, Goes
    <2>2. \A b \in Arms : simHas'[b] <= joints[b] /\ simHas'[b] \in Nat
      BY <2>1 DEF BridgeInv, Newest
    <2>3. simHas' \in JointNumbers
      BY <2>1, <2>2
    <2>4. \A b \in Arms : pipes'[b] = "emit" => pipes[b] = "emit"
      BY <1>0, <2>1 DEF BridgeInv
    <2>5. CommandsKept'
      BY <2>1, <2>4 DEF BridgeInv, CommandsKept
    <2> QED BY <2>1, <2>2, <2>3, <2>5 DEF BridgeInv
  <1>5. ASSUME NEW a \in Arms, ReceiveFails(a) \/ EmitFails(a) PROVE BridgeInv'
    BY <1>1, <1>5 DEF ReceiveFails, EmitFails, Branch, Step
  <1>6. ASSUME TelemetryPipeline PROVE BridgeInv'
    BY <1>1, <1>6 DEF TelemetryPipeline, SubscribeToSim, SubscribeFails, ReadSample, Relayed,
       SubscriptionCloses, Branch, Step
  <1>7. ASSUME NEW p \in Pipes, BackoffEnds(p) \/ ObserveToken(p) \/ PipelinePanics(p)
        PROVE  BridgeInv'
    BY <1>1, <1>7 DEF BackoffEnds, ObserveToken, PipelinePanics, Branch, StartOf
  <1>8. ASSUME SpawnPipelines PROVE BridgeInv'
    <2>1. /\ pipes' = [p \in Pipes |-> StartOf(p)] /\ UNCHANGED <<joints, carried, simHas>>
      BY <1>8 DEF SpawnPipelines
    <2>2. \A a \in Arms : pipes'[a] # "emit"
      BY <1>0, <2>1 DEF StartOf
    <2>3. CommandsKept'
      BY <2>2 DEF CommandsKept
    <2> QED BY <2>1, <2>3 DEF BridgeInv, StartOf
  <1>9. ASSUME AwaitHandle \/ RunEnds \/ CancelBridge PROVE BridgeInv'
    BY <1>2, <1>9 DEF AwaitHandle, RunEnds, CancelBridge
  <1>10. CASE UNCHANGED bridgeVars
    BY <1>2, <1>10 DEF bridgeVars
  <1> QED BY <1>3, <1>4, <1>5, <1>6, <1>7, <1>8, <1>9, <1>10 DEF BridgeNext, CommandPipeline

(***************************************************************************)
(* No command is taken back on its way to the simulator, for any number of *)
(* arms and commands: a vector under way is new for its own arm and behind *)
(* what the simulator had for none (ArmMergeState, run_os_to_sim).         *)
(***************************************************************************)
THEOREM CommandsCorrect == BridgeSpec => []CommandsKept
  <1>1. BridgeInit => BridgeInv
    <2> SUFFICES ASSUME BridgeInit PROVE BridgeInv
      OBVIOUS
    <2>1. /\ joints = NoJoints /\ simHas = NoJoints /\ NoJoints \in JointNumbers
          /\ \A a \in Arms : NoJoints[a] = 0
      BY DEF BridgeInit, NoJoints, JointNumbers
    <2>2. /\ carried \in [Arms -> [joints : JointNumbers, seen : JointNumbers]]
          /\ \A a \in Arms : carried[a].joints = NoJoints
      BY <2>1 DEF BridgeInit
    <2>3. \A a \in Arms : pipes[a] # "emit"
      BY DEF BridgeInit, Pipes
    <2> QED BY <2>1, <2>2, <2>3 DEF BridgeInit, BridgeInv, CommandsKept
  <1>2. BridgeInv /\ [BridgeNext]_bridgeVars => BridgeInv'
    BY BridgeStep
  <1>3. BridgeInv => CommandsKept
    BY DEF BridgeInv
  <1> QED BY <1>1, <1>2, <1>3, PTL DEF BridgeSpec

=============================================================================
