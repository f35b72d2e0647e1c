----------------------------- MODULE MessagingProofs ---------------------------
(***************************************************************************)
(* Proofs about messaging: messages on their way through either adapter,   *)
(* and the messaging objects that Python tasks share, for every number of  *)
(* tasks and every size of the channels.                                   *)
(***************************************************************************)
EXTENDS Transport, PyHandles, SequenceTheorems, FiniteSetTheorems, TLAPS

-----------------------------------------------------------------------------
(* Messages on their way (Transport)                                         *)

Keys == LinkIds \cup {Feedback}
Messages ==
  [n : Nat, by : Sharers, key : Keys, primary : BOOLEAN, profile : Profiles \cup {"Reliable"}]
Publishes == [call : {"publish"}, m : Messages, to : SUBSET Nat]
Waits ==
  [call : {"wait"}, step : {"check", "listen", "recheck", "parked"}, elsewhere : BOOLEAN,
   events : Seq(BOOLEAN)]
Subscriptions ==
  [key : Keys \cup {AnyLink}, defers : BOOLEAN, state : {"live", "ended", "gone"},
   size : Nat, queue : Seq(Messages), got : Seq(Messages), due : SUBSET Messages]
Publishers == [key : Keys, profile : Profiles \cup {"Reliable"}]
Samples == [m : Messages, to : SUBSET Nat]

TransportTypes ==
  /\ adapter \in {"mock", "zenoh"} /\ session \in {"none", "open", "closed"} /\ sent \in Nat
  /\ calling \in [Sharers -> {Idle} \cup Publishes \cup Waits]
  /\ publisher \in {Unbound} \cup Publishers
  /\ subs \in Seq(Subscriptions) /\ network \in Seq(Messages)
  /\ arriving \in {NoSample} \cup Samples

(* A publisher's messages are in the order they were sent.                   *)
InOrder(s) == \A j, k \in DOMAIN s : j < k /\ s[j].by = s[k].by => s[j].n < s[k].n

IsPublishing(t) == calling[t].call = "publish"
Whole(s) == s.got \o s.queue
Reached(i) == Whole(subs[i])

(* Behind message x, on the way to subscription i.                           *)
Ahead(i, x) ==
  /\ x.n <= sent
  /\ \A t \in Sharers :
       IsPublishing(t) /\ (adapter = "zenoh" \/ i \in calling[t].to) /\ x.by = t =>
         x.n < calling[t].m.n
  /\ \A y \in Range(network) : y.by = x.by => x.n < y.n
  /\ i \in arriving.to /\ arriving.m.by = x.by => x.n < arriving.m.n

SubscriptionKept(i) ==
  LET s == subs[i] IN
  /\ s.state = "live" => session = "open"
  /\ \A m \in s.due : Wants(s, m) /\ (adapter = "mock" \/ m.profile \in {"Reliable", "Critical"})
  /\ s.state = "live" => \A m \in s.due : m \in Range(Reached(i)) \/ Underway(m, i)
  /\ InOrder(Reached(i))
  /\ \A x \in Range(Reached(i)) : Wants(s, x) /\ Ahead(i, x)

CallKept(t) ==
  IsPublishing(t) =>
    /\ calling[t].m.by = t /\ calling[t].m.n <= sent
    /\ adapter = "zenoh" => calling[t].to = {}
    /\ \A i \in calling[t].to : i \in DOMAIN subs /\ Wants(subs[i], calling[t].m)

OnTheNetwork ==
  /\ adapter = "mock" => network = <<>> /\ arriving.to = {}
  /\ InOrder(network)
  /\ \A y \in Range(network) :
       /\ y.n <= sent
       /\ \A t \in Sharers : IsPublishing(t) /\ y.by = t => y.n < calling[t].m.n
       /\ arriving.to # {} /\ arriving.m.by = y.by => arriving.m.n < y.n
  /\ arriving.to # {} =>
       /\ arriving.m.n <= sent
       /\ \A t \in Sharers : IsPublishing(t) /\ arriving.m.by = t => arriving.m.n < calling[t].m.n
  /\ \A i \in arriving.to : i \in DOMAIN subs /\ Wants(subs[i], arriving.m)

WaitKept(t) ==
  calling[t].call = "wait" =>
    LET w == calling[t] IN
    /\ holder = t
    /\ w.step \in {"check", "listen"} => w.events = <<>>
    /\ w.events # <<>> => Last(w.events) = Matched(w.elsewhere, subs)
    /\ w.step = "parked" /\ w.events = <<>> => ~Matched(w.elsewhere, subs)

SubscriptionsKept == \A i \in DOMAIN subs : SubscriptionKept(i)
CallsKept == \A t \in Sharers : CallKept(t)
WaitsKept == \A t \in Sharers : WaitKept(t)
TransportInv ==
  TransportTypes /\ SubscriptionsKept /\ CallsKept /\ OnTheNetwork /\ WaitsKept

-----------------------------------------------------------------------------
LEMMA LongerInOrder ==
  ASSUME NEW s \in Seq(Messages), NEW m \in Messages
  PROVE  /\ Append(s, m) \in Seq(Messages) /\ Range(Append(s, m)) = Range(s) \cup {m}
         /\ InOrder(s) /\ (\A x \in Range(s) : x.by = m.by => x.n < m.n) =>
              InOrder(Append(s, m))
  <1> DEFINE t == Append(s, m)
  <1>1. /\ t \in Seq(Messages) /\ Len(s) \in Nat
        /\ DOMAIN s = 1..Len(s) /\ DOMAIN t = 1..Len(s) + 1
        /\ \A i \in DOMAIN s : t[i] = s[i]
        /\ t[Len(s) + 1] = m
    OBVIOUS
  <1> HIDE DEF t
  <1>2. \A j \in DOMAIN t : j \in DOMAIN s \/ j = Len(s) + 1
    BY <1>1
  <1>3. Len(s) + 1 \in DOMAIN t /\ \A j \in DOMAIN s : j \in DOMAIN t
    BY <1>1
  <1>4. Range(t) = Range(s) \cup {m}
    BY <1>1, <1>2, <1>3 DEF Range
  <1>5. ASSUME InOrder(s), \A x \in Range(s) : x.by = m.by => x.n < m.n
        PROVE  InOrder(t)
    <2> SUFFICES ASSUME NEW j \in DOMAIN t, NEW k \in DOMAIN t, j < k, t[j].by = t[k].by
                 PROVE  t[j].n < t[k].n
      BY DEF InOrder
    <2>1. j \in DOMAIN s
      BY <1>1, <1>2
    <2>2. CASE k \in DOMAIN s
      BY <1>1, <1>5, <2>1, <2>2 DEF InOrder
    <2>3. CASE k = Len(s) + 1
      BY <1>1, <1>5, <2>1, <2>3 DEF Range
    <2> QED BY <1>2, <2>2, <2>3
  <1> QED BY <1>1, <1>4, <1>5 DEF t

LEMMA ShorterInOrder ==
  ASSUME NEW s \in Seq(Messages), s # <<>>
  PROVE  /\ Head(s) \in Messages /\ Tail(s) \in Seq(Messages)
         /\ Range(s) = {Head(s)} \cup Range(Tail(s))
         /\ InOrder(s) =>
              /\ InOrder(Tail(s))
              /\ \A y \in Range(Tail(s)) : y.by = Head(s).by => Head(s).n < y.n
  <1> DEFINE t == Tail(s)
  <1>1. /\ t \in Seq(Messages) /\ Head(s) = s[1] /\ Head(s) \in Messages
        /\ Len(s) \in Nat /\ Len(s) >= 1 /\ DOMAIN s = 1..Len(s)
        /\ DOMAIN t = 1..Len(s) - 1
        /\ \A i \in 1..Len(s) - 1 : t[i] = s[i + 1]
    OBVIOUS
  <1> HIDE DEF t
  <1>2. \A i \in DOMAIN t : i + 1 \in DOMAIN s /\ t[i] = s[i + 1] /\ 1 < i + 1
    BY <1>1
  <1>3. 1 \in DOMAIN s
    BY <1>1
  <1>4. \A j \in DOMAIN s : j = 1 \/ (j - 1 \in DOMAIN t /\ t[j - 1] = s[j])
    BY <1>1
  <1>5. Range(s) = {Head(s)} \cup Range(t)
    <2>1. \A x : x \in Range(s) => x = Head(s) \/ x \in Range(t)
      BY <1>1, <1>4 DEF Range
    <2>2. \A x : x = Head(s) \/ x \in Range(t) => x \in Range(s)
      BY <1>1, <1>2, <1>3 DEF Range
    <2> QED BY <2>1, <2>2
  <1>6. ASSUME InOrder(s) PROVE InOrder(t)
    <2> SUFFICES ASSUME NEW j \in DOMAIN t, NEW k \in DOMAIN t, j < k, t[j].by = t[k].by
                 PROVE  t[j].n < t[k].n
      BY DEF InOrder
    <2>1. j \in Nat /\ k \in Nat /\ j + 1 < k + 1
      BY <1>1
    <2> QED BY <1>2, <1>6, <2>1 DEF InOrder
  <1>7. ASSUME InOrder(s), NEW y \in Range(t), y.by = Head(s).by PROVE Head(s).n < y.n
    <2>1. PICK k \in DOMAIN t : y = t[k]
      BY DEF Range
    <2> QED BY <1>1, <1>2, <1>3, <1>7, <2>1 DEF InOrder
  <1> QED BY <1>1, <1>5, <1>6, <1>7 DEF t

LEMMA InOneSequence ==
  \A s, t, u \in Seq(Messages) : (s \o t) \o u = s \o (t \o u)
  <1> SUFFICES ASSUME NEW s \in Seq(Messages), NEW t \in Seq(Messages), NEW u \in Seq(Messages)
               PROVE  (s \o t) \o u = s \o (t \o u)
    OBVIOUS
  <1> QED BY ConcatAssociative

LEMMA Delivered ==
  ASSUME NEW s \in Subscriptions, NEW m \in Messages,
         NEW z, z = [s EXCEPT !.queue = Append(@, m)]
  PROVE  z \in Subscriptions /\ Whole(z) = Append(Whole(s), m) /\ Whole(s) \in Seq(Messages)
  <1>1. s.got \in Seq(Messages) /\ s.queue \in Seq(Messages)
    BY DEF Subscriptions
  <1>2. Append(s.queue, m) \in Seq(Messages)
    BY <1>1
  <1>3. z \in Subscriptions /\ z.got = s.got /\ z.queue = Append(s.queue, m)
    BY <1>2 DEF Subscriptions
  <1>4. Append(s.queue, m) = s.queue \o <<m>> /\ <<m>> \in Seq(Messages)
    BY <1>1, AppendIsConcat
  <1>5. s.got \o s.queue \in Seq(Messages)
    BY <1>1, ConcatProperties
  <1>6. Append(s.got \o s.queue, m) = (s.got \o s.queue) \o <<m>>
    BY <1>5, AppendIsConcat
  <1>7. (s.got \o s.queue) \o <<m>> = s.got \o (s.queue \o <<m>>)
    BY <1>1, <1>4, InOneSequence, Zenon
  <1>8. Whole(z) = s.got \o Append(s.queue, m)
    BY <1>3, Zenon DEF Whole
  <1> QED BY <1>3, <1>4, <1>5, <1>6, <1>7, <1>8, Zenon DEF Whole

LEMMA WasRead ==
  ASSUME NEW s \in Subscriptions, s.queue # <<>>,
         NEW z, z = [s EXCEPT !.queue = Tail(@), !.got = Append(@, Head(s.queue))]
  PROVE  z \in Subscriptions /\ Whole(z) = Whole(s)
  <1>1. s.got \in Seq(Messages) /\ s.queue \in Seq(Messages)
    BY DEF Subscriptions
  <1>2. Head(s.queue) \in Messages /\ Tail(s.queue) \in Seq(Messages)
    BY <1>1
  <1>3. Append(s.got, Head(s.queue)) \in Seq(Messages)
    BY <1>1, <1>2
  <1>4. z \in Subscriptions /\ z.got = Append(s.got, Head(s.queue)) /\ z.queue = Tail(s.queue)
    BY <1>2, <1>3 DEF Subscriptions
  <1>5. Append(s.got, Head(s.queue)) = s.got \o <<Head(s.queue)>>
        /\ <<Head(s.queue)>> \in Seq(Messages)
    BY <1>1, <1>2, AppendIsConcat
  <1>6. s.queue = <<Head(s.queue)>> \o Tail(s.queue)
    BY <1>1
  <1>7. (s.got \o <<Head(s.queue)>>) \o Tail(s.queue) = s.got \o (<<Head(s.queue)>> \o Tail(s.queue))
    BY <1>1, <1>2, <1>5, InOneSequence, Zenon
  <1>8. Whole(z) = Append(s.got, Head(s.queue)) \o Tail(s.queue)
    BY <1>4, Zenon DEF Whole
  <1> QED BY <1>4, <1>5, <1>6, <1>7, <1>8, Zenon DEF Whole

LEMMA WasDropped ==
  ASSUME NEW s \in Subscriptions, NEW z, z = [s EXCEPT !.state = "gone", !.queue = <<>>]
  PROVE  /\ z \in Subscriptions /\ Range(Whole(z)) \subseteq Range(Whole(s))
         /\ InOrder(Whole(s)) => InOrder(Whole(z))
  <1>1. s.got \in Seq(Messages) /\ s.queue \in Seq(Messages)
    BY DEF Subscriptions
  <1>2. z \in Subscriptions /\ z.got = s.got /\ z.queue = <<>>
    <2>1. <<>> \in Seq(Messages)
      OBVIOUS
    <2> QED BY <2>1 DEF Subscriptions
  <1>3. Whole(z) = s.got
    BY <1>1, <1>2, ConcatEmptySeq DEF Whole
  <1>4. /\ Len(s.got) \in Nat /\ Len(s.queue) \in Nat /\ DOMAIN s.got = 1..Len(s.got)
        /\ DOMAIN Whole(s) = 1..Len(s.got) + Len(s.queue)
        /\ \A i \in 1..Len(s.got) + Len(s.queue) :
             Whole(s)[i] = IF i <= Len(s.got) THEN s.got[i] ELSE s.queue[i - Len(s.got)]
    <2> DEFINE g == s.got
               q == s.queue
    <2>1. g \in Seq(Messages) /\ q \in Seq(Messages) /\ Whole(s) = g \o q
      BY <1>1 DEF Whole
    <2> HIDE DEF g, q
    <2>2. /\ Len(g) \in Nat /\ Len(q) \in Nat /\ DOMAIN g = 1..Len(g)
          /\ DOMAIN (g \o q) = 1..Len(g) + Len(q)
          /\ \A i \in 1..Len(g) + Len(q) :
               (g \o q)[i] = IF i <= Len(g) THEN g[i] ELSE q[i - Len(g)]
      BY <2>1
    <2>3. /\ Len(g) \in Nat /\ Len(q) \in Nat /\ DOMAIN g = 1..Len(g)
          /\ DOMAIN Whole(s) = 1..Len(g) + Len(q)
          /\ \A i \in 1..Len(g) + Len(q) :
               Whole(s)[i] = IF i <= Len(g) THEN g[i] ELSE q[i - Len(g)]
      BY <2>1, <2>2
    <2> QED BY <2>3 DEF g, q
  <1>5. \A i \in DOMAIN s.got : i \in DOMAIN Whole(s) /\ Whole(s)[i] = s.got[i]
    <2> DEFINE g == s.got
               w == Whole(s)
               n == Len(s.queue)
    <2>1. /\ Len(g) \in Nat /\ n \in Nat /\ DOMAIN g = 1..Len(g)
          /\ DOMAIN w = 1..Len(g) + n
          /\ \A i \in 1..Len(g) + n : i <= Len(g) => w[i] = g[i]
      BY <1>4
    <2> HIDE DEF g, w, n
    <2>2. \A i \in DOMAIN g : i \in DOMAIN w /\ w[i] = g[i]
      BY <2>1
    <2> QED BY <2>2 DEF g, w
  <1> QED BY <1>2, <1>3, <1>5 DEF InOrder, Range

LEMMA SubscriptionIs ==
  ASSUME TransportTypes
  PROVE  /\ DOMAIN subs = 1..Len(subs) /\ Len(subs) \in Nat
         /\ \A i \in DOMAIN subs : subs[i] \in Subscriptions /\ Whole(subs[i]) \in Seq(Messages)
  <1>1. subs \in Seq(Subscriptions)
    BY DEF TransportTypes
  <1>2. DOMAIN subs = 1..Len(subs) /\ Len(subs) \in Nat
    BY <1>1
  <1>3. \A i \in DOMAIN subs : subs[i] \in Subscriptions
    BY <1>1, <1>2, ElementOfSeq
  <1>4. \A i \in DOMAIN subs : Whole(subs[i]) \in Seq(Messages)
    <2> SUFFICES ASSUME NEW i \in DOMAIN subs PROVE Whole(subs[i]) \in Seq(Messages)
      OBVIOUS
    <2>1. subs[i].got \in Seq(Messages) /\ subs[i].queue \in Seq(Messages)
      BY <1>3 DEF Subscriptions
    <2> QED BY <2>1, ConcatProperties DEF Whole
  <1> QED BY <1>2, <1>3, <1>4

LEMMA CallIs ==
  ASSUME TransportTypes, NEW t \in Sharers
  PROVE  /\ IsPublishing(t) <=> calling[t] \in Publishes
         /\ calling[t].call = "wait" <=> calling[t] \in Waits
         /\ calling[t] \in {Idle} \cup Publishes \cup Waits
  BY DEF TransportTypes, IsPublishing, Idle, Publishes, Waits

LEMMA SampleIs ==
  ASSUME TransportTypes, arriving.to # {}
  PROVE  arriving \in Samples
  BY DEF TransportTypes, NoSample

LEMMA MatchedStays ==
  ASSUME NEW all, NEW now, DOMAIN now = DOMAIN all,
         \A i \in DOMAIN all : now[i].state = all[i].state /\ now[i].key = all[i].key
  PROVE  \A e : Matched(e, now) = Matched(e, all)
  BY DEF Matched

LEMMA NobodyWaits ==
  ASSUME WaitsKept, holder = Free
  PROVE  \A t \in Sharers : calling[t].call # "wait"
  BY TransportAssumption DEF WaitsKept, WaitKept

(* Whoever waits keeps the messenger locked, and waits for the same.         *)
LEMMA WaitsStay ==
  ASSUME WaitsKept, \A e \in BOOLEAN : Matched(e, subs') = Matched(e, subs), TransportTypes,
         \A t \in Sharers : calling'[t].call = "wait" =>
           calling'[t] = calling[t] /\ (holder = t => holder' = t)
  PROVE  WaitsKept'
  <1> SUFFICES ASSUME NEW t \in Sharers, calling'[t].call = "wait" PROVE WaitKept(t)'
    BY DEF WaitsKept, WaitKept
  <1>1. calling'[t] = calling[t] /\ calling[t].call = "wait"
    OBVIOUS
  <1>2. calling[t].elsewhere \in BOOLEAN
    BY <1>1, CallIs DEF Waits
  <1>3. Matched(calling[t].elsewhere, subs') = Matched(calling[t].elsewhere, subs)
    BY <1>2
  <1>4. WaitKept(t) /\ holder = t /\ holder' = t
    BY <1>1 DEF WaitsKept, WaitKept
  <1> DEFINE w == calling[t]
  <1>5. /\ w.step \in {"check", "listen"} => w.events = <<>>
        /\ w.events # <<>> => Last(w.events) = Matched(w.elsewhere, subs')
        /\ w.step = "parked" /\ w.events = <<>> => ~Matched(w.elsewhere, subs')
    BY <1>1, <1>3, <1>4 DEF WaitKept
  <1> QED BY <1>1, <1>4, <1>5 DEF WaitKept, Matched

LEMMA NobodyStartsToWait ==
  ASSUME WaitsKept, holder = Free,
         \A t \in Sharers : calling'[t].call = "wait" => calling[t].call = "wait"
  PROVE  WaitsKept'
  BY NobodyWaits DEF WaitsKept, WaitKept

Moving == SubscriptionsKept /\ CallsKept /\ OnTheNetwork

(* No message is sent or delivered: at most one is read, or given up.        *)
LEMMA QuietStep ==
  ASSUME TransportTypes, Moving, UNCHANGED <<adapter, sent>>,
         \A t \in Sharers : calling'[t].call = "publish" <=> calling[t].call = "publish",
         \A t \in Sharers : calling[t].call = "publish" => calling'[t] = calling[t],
         DOMAIN subs' = DOMAIN subs,
         \A i \in DOMAIN subs :
           /\ subs'[i].key = subs[i].key /\ subs'[i].defers = subs[i].defers
           /\ subs'[i].due = subs[i].due
           /\ Range(Whole(subs'[i])) \subseteq Range(Whole(subs[i]))
           /\ InOrder(Whole(subs[i])) => InOrder(Whole(subs'[i]))
           /\ subs'[i].state = "live" =>
                subs[i].state = "live" /\ Range(Whole(subs'[i])) = Range(Whole(subs[i])),
         \/ /\ UNCHANGED <<network, arriving>>
            /\ session = "open" => session' = "open"
         \/ /\ network' = <<>> /\ arriving'.to = {}
            /\ \A i \in DOMAIN subs : subs'[i].state # "live"
  PROVE  Moving'
  <1>0. /\ \A i : i \in arriving'.to => arriving' = arriving
        /\ \A y : y \in Range(network') => network' = network
        /\ InOrder(network) => InOrder(network')
        /\ network = <<>> => network' = <<>>
        /\ arriving.to = {} => arriving'.to = {}
    BY DEF Range, InOrder
  <1>1. SubscriptionsKept'
    <2> SUFFICES ASSUME NEW i \in DOMAIN subs PROVE SubscriptionKept(i)'
      BY DEF SubscriptionsKept
    <2> DEFINE s == subs[i]
               z == subs'[i]
    <2>1. SubscriptionKept(i)
      BY DEF Moving, SubscriptionsKept
    <2>2. ASSUME NEW x, Ahead(i, x) PROVE Ahead(i, x)'
      <3>1. \A t \in Sharers :
              IsPublishing(t)' /\ (adapter' = "zenoh" \/ i \in calling'[t].to) /\ x.by = t =>
                x.n < calling'[t].m.n
        BY <2>2 DEF Ahead, IsPublishing
      <3>2. \A y \in Range(network') : y.by = x.by => x.n < y.n
        BY <1>0, <2>2, Zenon DEF Ahead
      <3>3. i \in arriving'.to /\ arriving'.m.by = x.by => x.n < arriving'.m.n
        BY <1>0, <2>2 DEF Ahead
      <3> QED BY <2>2, <3>1, <3>2, <3>3 DEF Ahead
    <2>3. \A m : z.state = "live" /\ Underway(m, i) => Underway(m, i)'
      BY DEF Underway
    <2>4. Reached(i)' = Whole(z) /\ Reached(i) = Whole(s)
      BY DEF Reached, Whole
    <2>5. \A m : Wants(z, m) <=> Wants(s, m)
      BY DEF Wants, DropsSecondary, Matches
    <2>6. z.state = "live" => session' = "open"
      BY <2>1 DEF SubscriptionKept
    <2>7. \A m \in z.due : Wants(z, m) /\ (adapter' = "mock" \/ m.profile \in {"Reliable", "Critical"})
      BY <2>1, <2>5 DEF SubscriptionKept
    <2>8. z.state = "live" => \A m \in z.due : m \in Range(Whole(z)) \/ Underway(m, i)'
      BY <2>1, <2>3, <2>4 DEF SubscriptionKept
    <2>9. InOrder(Whole(z)) /\ \A x \in Range(Whole(z)) : Wants(z, x) /\ Ahead(i, x)'
      BY <2>1, <2>2, <2>4, <2>5 DEF SubscriptionKept
    <2> QED BY <2>4, <2>6, <2>7, <2>8, <2>9 DEF SubscriptionKept, Wants, DropsSecondary, Matches, InOrder
  <1>2. CallsKept'
    BY DEF Moving, CallsKept, CallKept, IsPublishing, Wants, DropsSecondary, Matches
  <1>3. OnTheNetwork'
    <2>0. OnTheNetwork
      BY DEF Moving
    <2>1. \A i \in arriving'.to : i \in DOMAIN subs' /\ Wants(subs'[i], arriving'.m)
      BY <1>0, <2>0 DEF OnTheNetwork, Wants, DropsSecondary, Matches
    <2>2. \A t \in Sharers : IsPublishing(t)' => IsPublishing(t) /\ calling'[t] = calling[t]
      BY DEF IsPublishing
    <2>3. \A y \in Range(network') :
            /\ y.n <= sent
            /\ \A t \in Sharers : IsPublishing(t)' /\ y.by = t => y.n < calling'[t].m.n
            /\ arriving'.to # {} /\ arriving'.m.by = y.by => arriving'.m.n < y.n
      <3> SUFFICES ASSUME NEW y \in Range(network')
                   PROVE  /\ y.n <= sent
                          /\ \A t \in Sharers : IsPublishing(t)' /\ y.by = t => y.n < calling'[t].m.n
                          /\ arriving'.to # {} /\ arriving'.m.by = y.by => arriving'.m.n < y.n
        OBVIOUS
      <3>1. y \in Range(network)
        BY <1>0
      <3>2. arriving'.to # {} => arriving' = arriving /\ arriving.to # {}
        BY <1>0
      <3> QED BY <2>0, <2>2, <3>1, <3>2 DEF OnTheNetwork
    <2>4. arriving'.to # {} =>
            /\ arriving'.m.n <= sent
            /\ \A t \in Sharers : IsPublishing(t)' /\ arriving'.m.by = t => arriving'.m.n < calling'[t].m.n
      <3>1. arriving'.to # {} => arriving' = arriving /\ arriving.to # {}
        BY <1>0
      <3> QED BY <2>0, <2>2, <3>1 DEF OnTheNetwork
    <2>5. (adapter = "mock" => network' = <<>> /\ arriving'.to = {}) /\ InOrder(network')
      BY <1>0, <2>0 DEF OnTheNetwork
    <2> QED BY <2>1, <2>3, <2>4, <2>5 DEF OnTheNetwork, InOrder, Wants, DropsSecondary, Matches
  <1> QED BY <1>1, <1>2, <1>3 DEF Moving

LEMMA OneSubscription ==
  ASSUME TransportTypes, NEW i \in DOMAIN subs, NEW z \in Subscriptions,
         subs' = [subs EXCEPT ![i] = z]
  PROVE  /\ subs' \in Seq(Subscriptions) /\ DOMAIN subs' = DOMAIN subs
         /\ subs'[i] = z /\ \A j \in DOMAIN subs : j # i => subs'[j] = subs[j]
  <1>1. subs \in Seq(Subscriptions) /\ i \in 1..Len(subs)
    BY SubscriptionIs DEF TransportTypes
  <1> QED BY <1>1, ExceptSeq

LEMMA NextMessageStep ==
  ASSUME TransportInv, NEW i \in DOMAIN subs, NextMessage(i)
  PROVE  TransportInv'
  <1> USE DEF TransportInv
  <1> DEFINE s == subs[i]
             z == [s EXCEPT !.queue = Tail(@), !.got = Append(@, Head(s.queue))]
  <1>1. s \in Subscriptions /\ s.queue # <<>>
    BY SubscriptionIs DEF NextMessage
  <1>2. z \in Subscriptions /\ Whole(z) = Whole(s)
    BY <1>1, WasRead
  <1>3. z.key = s.key /\ z.defers = s.defers /\ z.due = s.due /\ z.state = s.state
    BY <1>1 DEF Subscriptions
  <1>4. subs' = [subs EXCEPT ![i] = z]
    BY DEF NextMessage
  <1>5. UNCHANGED <<adapter, session, holder, calling, publisher, network, arriving, sent>>
    BY DEF NextMessage, linkVars
  <1> HIDE DEF z
  <1>6. /\ subs' \in Seq(Subscriptions) /\ DOMAIN subs' = DOMAIN subs
        /\ subs'[i] = z /\ \A j \in DOMAIN subs : j # i => subs'[j] = subs[j]
    BY <1>2, <1>4, OneSubscription
  <1>7. TransportTypes'
    BY <1>5, <1>6 DEF TransportTypes
  <1>8. Moving'
    <2>1. \A j \in DOMAIN subs :
            /\ subs'[j].key = subs[j].key /\ subs'[j].defers = subs[j].defers
            /\ subs'[j].due = subs[j].due /\ subs'[j].state = subs[j].state
            /\ Whole(subs'[j]) = Whole(subs[j])
      BY <1>2, <1>3, <1>6
    <2> QED BY <1>5, <1>6, <2>1, QuietStep DEF Moving
  <1>9. WaitsKept'
    <2>1. \A e : Matched(e, subs') = Matched(e, subs)
      BY <1>3, <1>6, MatchedStays
    <2> QED BY <1>5, <2>1, WaitsStay
  <1> QED BY <1>7, <1>8, <1>9 DEF Moving

(* A task that listens is told what the others make of the subscribers.      *)
LEMMA Listened ==
  ASSUME TransportTypes, NEW t \in Sharers, calling[t].call = "wait", WaitKept(t),
         NEW e \in BOOLEAN, NEW all, Matched(e, all) \in BOOLEAN,
         NEW w, w = ListenerTold(t, e, all)
  PROVE  /\ w \in Waits /\ w.elsewhere = e /\ w.step = calling[t].step
         /\ w.step \in {"check", "listen"} => w.events = <<>>
         /\ w.events # <<>> => Last(w.events) = Matched(e, all)
         /\ w.step = "parked" /\ w.events = <<>> => ~Matched(e, all)
  <1> DEFINE c == calling[t]
             now == Matched(e, all)
             before == Matched(c.elsewhere, subs)
             events == IF c.step \in {"recheck", "parked"} /\ now # before
                       THEN Append(c.events, now) ELSE c.events
  <1>1. c \in Waits /\ c.events \in Seq(BOOLEAN)
    BY CallIs DEF Waits
  <1>2. w = [c EXCEPT !.elsewhere = e, !.events = events]
    BY DEF ListenerTold
  <1>3. /\ c.step \in {"check", "listen"} => c.events = <<>>
        /\ c.events # <<>> => Last(c.events) = before
        /\ c.step = "parked" /\ c.events = <<>> => ~before
    BY DEF WaitKept
  <1> HIDE DEF now, before
  <1>4. now \in BOOLEAN
    BY DEF now
  <1>5. /\ Append(c.events, now) \in Seq(BOOLEAN) /\ Append(c.events, now) # <<>>
        /\ Last(Append(c.events, now)) = now
    BY <1>1, <1>4, AppendProperties DEF Last
  <1>6. /\ events \in Seq(BOOLEAN)
        /\ c.step \in {"check", "listen"} => events = <<>>
        /\ events # <<>> => Last(events) = now
        /\ c.step = "parked" /\ events = <<>> => ~now
    BY <1>1, <1>3, <1>5 DEF Waits
  <1> HIDE DEF events
  <1>7. w \in Waits /\ w.elsewhere = e /\ w.step = c.step /\ w.events = events
    BY <1>1, <1>2, <1>6 DEF Waits
  <1> QED BY <1>6, <1>7 DEF now

LEMMA DropSubscriptionStep ==
  ASSUME TransportInv, NEW i \in DOMAIN subs, DropSubscription(i)
  PROVE  TransportInv'
  <1> USE DEF TransportInv
  <1> DEFINE s == subs[i]
             z == [s EXCEPT !.state = "gone", !.queue = <<>>]
  <1>1. s \in Subscriptions
    BY SubscriptionIs
  <1>2. /\ z \in Subscriptions /\ Range(Whole(z)) \subseteq Range(Whole(s))
        /\ InOrder(Whole(s)) => InOrder(Whole(z))
    BY <1>1, WasDropped
  <1>3. z.key = s.key /\ z.defers = s.defers /\ z.due = s.due /\ z.state = "gone"
    BY <1>1 DEF Subscriptions
  <1>4. subs' = [subs EXCEPT ![i] = z]
    BY DEF DropSubscription
  <1>5. /\ UNCHANGED <<adapter, session, holder, publisher, network, arriving, sent>>
        /\ calling' = [t \in Sharers |-> IF calling[t].call = "wait"
                         THEN ListenerTold(t, calling[t].elsewhere, subs') ELSE calling[t]]
    BY DEF DropSubscription, linkVars
  <1> HIDE DEF z
  <1>6. /\ subs' \in Seq(Subscriptions) /\ DOMAIN subs' = DOMAIN subs
        /\ subs'[i] = z /\ \A j \in DOMAIN subs : j # i => subs'[j] = subs[j]
    BY <1>2, <1>4, OneSubscription
  <1>7. ASSUME NEW t \in Sharers, calling[t].call = "wait"
        PROVE  /\ calling'[t] \in Waits /\ calling'[t].elsewhere = calling[t].elsewhere
               /\ calling'[t].step \in {"check", "listen"} => calling'[t].events = <<>>
               /\ calling'[t].events # <<>> =>
                    Last(calling'[t].events) = Matched(calling[t].elsewhere, subs')
               /\ calling'[t].step = "parked" /\ calling'[t].events = <<>> =>
                    ~Matched(calling[t].elsewhere, subs')
               /\ holder = t
    <2>1. WaitKept(t) /\ calling[t].elsewhere \in BOOLEAN
      BY <1>7, CallIs DEF WaitsKept, Waits
    <2>2. Matched(calling[t].elsewhere, subs') \in BOOLEAN
      BY <2>1 DEF Matched
    <2>3. calling'[t] = ListenerTold(t, calling[t].elsewhere, subs')
      BY <1>5, <1>7
    <2>4. holder = t
      BY <1>7, <2>1 DEF WaitKept
    <2> HIDE DEF Matched, ListenerTold
    <2> QED BY <1>7, <2>1, <2>2, <2>3, <2>4, Listened
  <1>8. \A t \in Sharers : calling[t].call # "wait" => calling'[t] = calling[t]
    BY <1>5
  <1>9. \A t \in Sharers : calling'[t].call = calling[t].call
    BY <1>7, <1>8 DEF Waits
  <1>10. TransportTypes'
    <2>1. calling' \in [Sharers -> {Idle} \cup Publishes \cup Waits]
      <3>1. \A t \in Sharers : calling'[t] \in {Idle} \cup Publishes \cup Waits
        BY <1>7, <1>8, CallIs
      <3> QED BY <1>5, <3>1
    <2> QED BY <1>5, <1>6, <2>1 DEF TransportTypes
  <1>11. Moving'
    <2>1. \A j \in DOMAIN subs :
            /\ subs'[j].key = subs[j].key /\ subs'[j].defers = subs[j].defers
            /\ subs'[j].due = subs[j].due
            /\ Range(Whole(subs'[j])) \subseteq Range(Whole(subs[j]))
            /\ InOrder(Whole(subs[j])) => InOrder(Whole(subs'[j]))
            /\ subs'[j].state = "live" =>
                 subs[j].state = "live" /\ Range(Whole(subs'[j])) = Range(Whole(subs[j]))
      BY <1>2, <1>3, <1>6
    <2>2. \A t \in Sharers : calling[t].call = "publish" => calling'[t] = calling[t]
      BY <1>8
    <2> QED BY <1>5, <1>6, <1>9, <2>1, <2>2, QuietStep DEF Moving
  <1>12. WaitsKept'
    <2> SUFFICES ASSUME NEW t \in Sharers, calling[t].call = "wait" PROVE WaitKept(t)'
      BY <1>9 DEF WaitsKept, WaitKept
    <2> QED BY <1>5, <1>7 DEF WaitKept, Matched
  <1> QED BY <1>10, <1>11, <1>12 DEF Moving

LEMMA SubscribeStep ==
  ASSUME TransportInv, NEW t \in Sharers, NEW key \in Keys \cup {AnyLink}, NEW defers \in BOOLEAN,
         NEW profile, Subscribe(t, key, defers, profile)
  PROVE  TransportInv'
  <1> USE DEF TransportInv
  <1> DEFINE new == [key |-> key, defers |-> defers, state |-> "live",
                     size |-> SizeFor(SubscriberQoS(profile)),
                     queue |-> <<>>, got |-> <<>>, due |-> {}]
  <1>0. PICK n : n = Len(subs) + 1
    OBVIOUS
  <1>1. /\ UNCHANGED <<adapter, session, holder, calling, publisher, network, arriving, sent>>
        /\ session = "open" /\ holder = Free /\ subs' = Append(subs, new)
    BY DEF Subscribe, MayCall, Usable, linkVars
  <1>2. new \in Subscriptions
    <2>1. SizeFor(SubscriberQoS(profile)) \in Nat
      BY TransportAssumption DEF SizeFor
    <2>2. <<>> \in Seq(Messages)
      OBVIOUS
    <2> QED BY <2>1, <2>2 DEF Subscriptions
  <1>3. new.state = "live" /\ new.due = {} /\ new.queue = <<>> /\ new.got = <<>>
    OBVIOUS
  <1>4. Range(Whole(new)) = {} /\ InOrder(Whole(new))
    <2>1. Whole(new) = <<>>
      BY <1>3 DEF Whole
    <2>2. DOMAIN <<>> = {}
      OBVIOUS
    <2> QED BY <2>1, <2>2 DEF Range, InOrder
  <1> HIDE DEF new
  <1>5. /\ subs' \in Seq(Subscriptions) /\ DOMAIN subs' = DOMAIN subs \cup {n} /\ subs'[n] = new
        /\ \A i \in DOMAIN subs : i # n /\ subs'[i] = subs[i]
    <2>1. subs \in Seq(Subscriptions)
      BY DEF TransportTypes
    <2> QED BY <1>0, <1>1, <1>2, <2>1
  <1>6. TransportTypes'
    BY <1>1, <1>5 DEF TransportTypes
  <1>7. SubscriptionsKept'
    <2>1. ASSUME NEW i \in DOMAIN subs PROVE SubscriptionKept(i)'
      <3>1. SubscriptionKept(i) /\ subs'[i] = subs[i]
        BY <1>5 DEF SubscriptionsKept
      <3>2. \A x : Ahead(i, x) => Ahead(i, x)'
        BY <1>1 DEF Ahead, IsPublishing
      <3>3. \A m : Underway(m, i) => Underway(m, i)'
        BY <1>1 DEF Underway
      <3>4. Reached(i)' = Reached(i)
        BY <3>1 DEF Reached
      <3> HIDE DEF Reached, Ahead, Underway, Wants
      <3> QED BY <1>1, <3>1, <3>2, <3>3, <3>4 DEF SubscriptionKept
    <2>2. SubscriptionKept(n)'
      <3>1. Reached(n)' = Whole(new)
        BY <1>5 DEF Reached
      <3>2. \A x : x \notin Range(Reached(n)')
        BY <1>4, <3>1
      <3>3. InOrder(Reached(n)')
        BY <1>4, <3>1
      <3>4. subs'[n].due = {} /\ session' = "open"
        BY <1>1, <1>3, <1>5
      <3> QED BY <3>2, <3>3, <3>4 DEF SubscriptionKept, InOrder
    <2> QED BY <1>5, <2>1, <2>2 DEF SubscriptionsKept
  <1>8. CallsKept'
    BY <1>1, <1>5 DEF CallsKept, CallKept, IsPublishing, Wants, DropsSecondary, Matches
  <1>9. OnTheNetwork'
    BY <1>1, <1>5 DEF OnTheNetwork, InOrder, IsPublishing, Wants, DropsSecondary, Matches
  <1>10. WaitsKept'
    BY <1>1, NobodyStartsToWait
  <1> QED BY <1>6, <1>7, <1>8, <1>9, <1>10

LEMMA CloseSessionStep ==
  ASSUME TransportInv, NEW t \in Sharers, CloseSession(t)
  PROVE  TransportInv'
  <1> USE DEF TransportInv
  <1>1. /\ UNCHANGED <<adapter, holder, calling, publisher, sent>> /\ session' = "closed"
        /\ holder = Free /\ network' = <<>> /\ arriving' = NoSample /\ arriving'.to = {}
        /\ subs' = [i \in DOMAIN subs |-> IF subs[i].state = "live"
                      THEN [subs[i] EXCEPT !.state = "ended"] ELSE subs[i]]
    BY DEF CloseSession, MayCall, NoSample
  <1>2. /\ DOMAIN subs' = DOMAIN subs
        /\ \A i \in DOMAIN subs :
             /\ subs'[i] \in Subscriptions /\ subs'[i].state # "live"
             /\ subs'[i].key = subs[i].key /\ subs'[i].defers = subs[i].defers
             /\ subs'[i].due = subs[i].due
             /\ subs'[i].got = subs[i].got /\ subs'[i].queue = subs[i].queue
    <2>1. \A i \in DOMAIN subs : subs[i] \in Subscriptions
      BY SubscriptionIs
    <2> QED BY <1>1, <2>1 DEF Subscriptions
  <1>3. \A i \in DOMAIN subs : Whole(subs'[i]) = Whole(subs[i])
    BY <1>2 DEF Whole
  <1>4. TransportTypes'
    <2>1. subs' \in [1..Len(subs) -> Subscriptions] /\ Len(subs) \in Nat
      <3>1. DOMAIN subs = 1..Len(subs) /\ Len(subs) \in Nat
        BY SubscriptionIs
      <3> QED BY <1>1, <1>2, <3>1
    <2>2. subs' \in Seq(Subscriptions)
      BY <2>1
    <2>3. <<>> \in Seq(Messages)
      OBVIOUS
    <2> QED BY <1>1, <2>2, <2>3 DEF TransportTypes
  <1>5. Moving'
    BY <1>1, <1>2, <1>3, QuietStep DEF Moving
  <1>6. WaitsKept'
    BY <1>1, NobodyStartsToWait
  <1> QED BY <1>4, <1>5, <1>6 DEF Moving

(* The subscriptions stay, and only a call that waits goes on.               *)
LEMMA CallStays ==
  ASSUME TransportInv, UNCHANGED <<adapter, subs, network, arriving, sent>>,
         NEW t \in Sharers, calling[t].call # "publish",
         NEW c \in {Idle} \cup Waits, calling' = [calling EXCEPT ![t] = c],
         session' \in {"none", "open", "closed"}, session = "open" => session' = "open",
         publisher' \in {Unbound} \cup Publishers
  PROVE  TransportTypes' /\ Moving'
  <1> USE DEF TransportInv
  <1>1. /\ calling' \in [Sharers -> {Idle} \cup Publishes \cup Waits] /\ calling'[t] = c
        /\ \A u \in Sharers : u # t => calling'[u] = calling[u]
    BY DEF TransportTypes
  <1>2. c.call # "publish"
    BY DEF Idle, Waits
  <1>3. TransportTypes'
    BY <1>1 DEF TransportTypes
  <1>4. Moving'
    <2>1. /\ \A u \in Sharers : calling'[u].call = "publish" <=> calling[u].call = "publish"
          /\ \A u \in Sharers : calling[u].call = "publish" => calling'[u] = calling[u]
      BY <1>1, <1>2
    <2> QED BY <2>1, QuietStep DEF Moving
  <1> QED BY <1>3, <1>4

LEMMA OpenSessionStep ==
  ASSUME TransportInv, NEW t \in Sharers, OpenSession(t)
  PROVE  TransportInv'
  <1>1. /\ UNCHANGED <<adapter, holder, calling, publisher, subs, network, arriving, sent>>
        /\ session = "none" /\ session' = "open" /\ holder = Free
    BY DEF OpenSession, MayCall, linkVars
  <1>2. TransportTypes'
    BY <1>1 DEF TransportInv, TransportTypes
  <1>3. Moving'
    BY <1>1, QuietStep DEF TransportInv, Moving
  <1>4. WaitsKept'
    BY <1>1, NobodyStartsToWait DEF TransportInv
  <1> QED BY <1>2, <1>3, <1>4 DEF TransportInv, Moving

LEMMA DeclarePublisherStep ==
  ASSUME TransportInv, NEW t \in Sharers, NEW key \in Keys,
         NEW profile \in Profiles \cup {"Reliable"}, DeclarePublisher(t, key, profile)
  PROVE  TransportInv'
  <1>1. /\ UNCHANGED <<adapter, session, holder, calling, subs, network, arriving, sent>>
        /\ publisher' \in Publishers /\ holder = Free
    BY DEF DeclarePublisher, MayCall, linkVars, Publishers
  <1>2. TransportTypes'
    BY <1>1 DEF TransportInv, TransportTypes
  <1>3. Moving'
    BY <1>1, QuietStep DEF TransportInv, Moving
  <1>4. WaitsKept'
    BY <1>1, NobodyStartsToWait DEF TransportInv
  <1> QED BY <1>2, <1>3, <1>4 DEF TransportInv, Moving

(* One task waits, as the others cannot.                                     *)
LEMMA OneWait ==
  ASSUME TransportInv, TransportTypes', Moving', NEW t \in Sharers,
         subs' = subs, NEW c \in {Idle} \cup Waits, calling' = [calling EXCEPT ![t] = c],
         holder = t \/ (holder = Free /\ holder' = t),
         c # Idle =>
           /\ holder' = t
           /\ c.step \in {"check", "listen"} => c.events = <<>>
           /\ c.events # <<>> => Last(c.events) = Matched(c.elsewhere, subs)
           /\ c.step = "parked" /\ c.events = <<>> => ~Matched(c.elsewhere, subs)
  PROVE  TransportInv'
  <1>1. calling'[t] = c /\ \A u \in Sharers : u # t => calling'[u] = calling[u]
    BY DEF TransportInv, TransportTypes
  <1>2. \A u \in Sharers : u # t => calling[u].call # "wait"
    BY TransportAssumption DEF TransportInv, WaitsKept, WaitKept
  <1>3. WaitsKept'
    <2> SUFFICES ASSUME NEW u \in Sharers, calling'[u].call = "wait" PROVE WaitKept(u)'
      BY DEF WaitsKept, WaitKept
    <2>1. u = t /\ c # Idle
      BY <1>1, <1>2 DEF Idle
    <2> QED BY <1>1, <2>1 DEF WaitKept, Matched
  <1> QED BY <1>3 DEF TransportInv, Moving

LEMMA WaitForSubscriberStep ==
  ASSUME TransportInv, NEW t \in Sharers, WaitForSubscriber(t)
  PROVE  TransportInv'
  <1>1. PICK b \in BOOLEAN :
          calling' = [calling EXCEPT ![t] = [call |-> "wait", step |-> "check",
                                             elsewhere |-> b, events |-> <<>>]]
    BY DEF WaitForSubscriber
  <1>2. PICK c : c = [call |-> "wait", step |-> "check", elsewhere |-> b, events |-> <<>>]
    OBVIOUS
  <1>3. c \in Waits /\ c.step = "check" /\ c.events = <<>>
    <2>1. <<>> \in Seq(BOOLEAN)
      OBVIOUS
    <2> QED BY <1>2, <2>1 DEF Waits
  <1>4. /\ UNCHANGED <<adapter, session, publisher, subs, network, arriving, sent>>
        /\ holder = Free /\ holder' = t /\ calling[t].call # "publish"
    BY DEF WaitForSubscriber, MayCall, linkVars, Idle
  <1>5. calling' = [calling EXCEPT ![t] = c]
    BY <1>1, <1>2
  <1>6. session' \in {"none", "open", "closed"} /\ publisher' \in {Unbound} \cup Publishers
    BY <1>4 DEF TransportInv, TransportTypes
  <1>7. TransportTypes' /\ Moving'
    BY <1>3, <1>4, <1>5, <1>6, CallStays
  <1> QED BY <1>3, <1>4, <1>5, <1>7, OneWait

LEMMA WaitingIs ==
  ASSUME TransportInv, NEW t \in Sharers, calling[t].call = "wait"
  PROVE  /\ calling[t] \in Waits /\ calling[t].events \in Seq(BOOLEAN) /\ holder = t
         /\ calling[t].elsewhere \in BOOLEAN /\ WaitKept(t)
         /\ session \in {"none", "open", "closed"} /\ publisher \in {Unbound} \cup Publishers
  BY CallIs DEF TransportInv, TransportTypes, WaitsKept, WaitKept, Waits

LEMMA ElsewhereChangesStep ==
  ASSUME TransportInv, NEW t \in Sharers, ElsewhereChanges(t)
  PROVE  TransportInv'
  <1> DEFINE e == ~calling[t].elsewhere
  <1>1. calling[t].call = "wait"
    BY DEF ElsewhereChanges
  <1>2. PICK c : c = ListenerTold(t, e, subs)
    OBVIOUS
  <1>3. e \in BOOLEAN /\ Matched(e, subs) \in BOOLEAN
    BY DEF Matched
  <1>4. /\ c \in Waits /\ c.elsewhere = e
        /\ c.step \in {"check", "listen"} => c.events = <<>>
        /\ c.events # <<>> => Last(c.events) = Matched(e, subs)
        /\ c.step = "parked" /\ c.events = <<>> => ~Matched(e, subs)
    <2>1. TransportTypes /\ WaitKept(t)
      BY DEF TransportInv, WaitsKept
    <2> HIDE DEF e, ListenerTold, Matched
    <2> QED BY <1>1, <1>2, <1>3, <2>1, Listened
  <1>5. calling' = [calling EXCEPT ![t] = c] /\ holder' = holder
        /\ UNCHANGED <<adapter, session, publisher, subs, network, arriving, sent>>
    BY <1>2 DEF ElsewhereChanges, linkVars
  <1> HIDE DEF e
  <1>6. TransportTypes' /\ Moving'
    BY <1>1, <1>4, <1>5, WaitingIs, CallStays
  <1> QED BY <1>1, <1>4, <1>5, <1>6, WaitingIs, OneWait

LEMMA CheckMatchingStep ==
  ASSUME TransportInv, NEW t \in Sharers, NEW step, NEW next,
         <<step, next>> \in {<<"check", "listen">>, <<"recheck", "parked">>},
         CheckMatching(t, step, next)
  PROVE  TransportInv'
  <1>1. /\ calling[t].call = "wait" /\ calling[t].step = step
        /\ UNCHANGED <<adapter, session, publisher, subs, network, arriving, sent>>
    BY DEF CheckMatching, linkVars
  <1>2. CASE Matched(calling[t].elsewhere, subs)
    <2>1. calling' = [calling EXCEPT ![t] = Idle]
      BY <1>2 DEF CheckMatching, Returns
    <2>2. TransportTypes' /\ Moving'
      BY <1>1, <2>1, WaitingIs, CallStays
    <2> QED BY <1>1, <2>1, <2>2, WaitingIs, OneWait
  <1>3. CASE ~Matched(calling[t].elsewhere, subs)
    <2>1. PICK c : c = [calling[t] EXCEPT !.step = next]
      OBVIOUS
    <2>2. calling' = [calling EXCEPT ![t] = c] /\ holder' = holder
      BY <1>3, <2>1 DEF CheckMatching
    <2>3. calling[t] \in Waits /\ next \in {"listen", "parked"}
      BY <1>1, WaitingIs
    <2>4. /\ c \in Waits /\ c.elsewhere = calling[t].elsewhere /\ c.events = calling[t].events
          /\ c.step = next
      BY <2>1, <2>3 DEF Waits
    <2>5. /\ c.step \in {"check", "listen"} => c.events = <<>>
          /\ c.events # <<>> => Last(c.events) = Matched(c.elsewhere, subs)
      BY <1>1, <2>4, WaitingIs DEF WaitKept
    <2>6. TransportTypes' /\ Moving'
      BY <1>1, <2>2, <2>4, WaitingIs, CallStays
    <2> QED BY <1>1, <1>3, <2>2, <2>4, <2>5, <2>6, WaitingIs, OneWait
  <1> QED BY <1>2, <1>3

LEMMA InstallListenerStep ==
  ASSUME TransportInv, NEW t \in Sharers, InstallListener(t)
  PROVE  TransportInv'
  <1>1. /\ calling[t].call = "wait" /\ calling[t].step = "listen" /\ holder' = holder
        /\ UNCHANGED <<adapter, session, publisher, subs, network, arriving, sent>>
    BY DEF InstallListener, linkVars
  <1>2. PICK c : c = [calling[t] EXCEPT !.step = "recheck"]
    OBVIOUS
  <1>3. calling' = [calling EXCEPT ![t] = c]
    BY <1>2 DEF InstallListener, OnceListening
  <1>4. calling[t] \in Waits
    BY <1>1, WaitingIs
  <1>5. c \in Waits /\ c.events = calling[t].events /\ c.step = "recheck"
    BY <1>2, <1>4 DEF Waits
  <1>6. c.events = <<>>
    BY <1>1, <1>5, WaitingIs DEF WaitKept
  <1>7. TransportTypes' /\ Moving'
    BY <1>1, <1>3, <1>5, WaitingIs, CallStays
  <1> QED BY <1>1, <1>3, <1>5, <1>6, <1>7, WaitingIs, OneWait

LEMMA EndWaitStep ==
  ASSUME TransportInv, NEW t \in Sharers, EndWait(t)
  PROVE  TransportInv'
  <1>1. /\ calling[t].call = "wait" /\ calling[t].step = "parked"
        /\ UNCHANGED <<adapter, session, publisher, subs, network, arriving, sent>>
    BY DEF EndWait, linkVars
  <1> DEFINE w == calling[t]
  <1>2. CASE ~(w.events # <<>> /\ ~Head(w.events))
    <2>1. calling' = [calling EXCEPT ![t] = Idle]
      BY <1>2 DEF EndWait, Returns
    <2>2. TransportTypes' /\ Moving'
      BY <1>1, <2>1, WaitingIs, CallStays
    <2> QED BY <1>1, <2>1, <2>2, WaitingIs, OneWait
  <1>3. CASE w.events # <<>> /\ ~Head(w.events)
    <2>1. PICK c : c = [w EXCEPT !.events = Tail(@)]
      OBVIOUS
    <2>2. calling' = [calling EXCEPT ![t] = c] /\ holder' = holder
      BY <1>3, <2>1 DEF EndWait
    <2>3. w \in Waits /\ w.events \in Seq(BOOLEAN)
      BY <1>1, WaitingIs
    <2>4. /\ Tail(w.events) \in Seq(BOOLEAN)
          /\ Tail(w.events) = <<>> => Last(w.events) = Head(w.events)
          /\ Tail(w.events) # <<>> => Last(Tail(w.events)) = Last(w.events)
      <3> DEFINE q == w.events
      <3>1. q \in Seq(BOOLEAN) /\ q # <<>>
        BY <1>3, <2>3
      <3> HIDE DEF q
      <3> DEFINE r == Tail(q)
      <3>2. /\ r \in Seq(BOOLEAN) /\ Head(q) = q[1] /\ Len(q) \in Nat /\ Len(q) >= 1
            /\ Len(r) = Len(q) - 1 /\ \A i \in 1..Len(q) - 1 : r[i] = q[i + 1]
        BY <3>1
      <3>3. r = <<>> <=> Len(r) = 0
        BY <3>2, EmptySeq
      <3> HIDE DEF r
      <3>4. r = <<>> => Last(q) = Head(q)
        <4>1. r = <<>> => Len(q) = 1
          BY <3>2, <3>3
        <4> QED BY <3>2, <4>1 DEF Last
      <3>5. r # <<>> => Last(r) = Last(q)
        <4> SUFFICES ASSUME r # <<>> PROVE Last(r) = Last(q)
          OBVIOUS
        <4>1. PICK n \in Nat : n = Len(q) /\ n - 1 = Len(r) /\ n - 1 >= 1
          BY <3>2, <3>3
        <4>2. r[n - 1] = q[n]
          BY <3>2, <4>1
        <4> QED BY <4>1, <4>2 DEF Last
      <3> QED BY <3>2, <3>4, <3>5 DEF q, r
    <2>5. c \in Waits /\ c.elsewhere = w.elsewhere /\ c.events = Tail(w.events) /\ c.step = "parked"
      BY <1>1, <2>1, <2>3, <2>4 DEF Waits
    <2>6. Last(w.events) = Matched(w.elsewhere, subs)
      BY <1>1, <1>3, WaitingIs DEF WaitKept
    <2>7. /\ c.events # <<>> => Last(c.events) = Matched(c.elsewhere, subs)
          /\ c.events = <<>> => ~Matched(c.elsewhere, subs)
      BY <1>3, <2>4, <2>5, <2>6
    <2>8. TransportTypes' /\ Moving'
      BY <1>1, <2>2, <2>5, WaitingIs, CallStays
    <2> QED BY <1>1, <2>2, <2>5, <2>7, <2>8, WaitingIs, OneWait
  <1> QED BY <1>2, <1>3

LEMMA DueIsWanted ==
  ASSUME NEW s, NEW m \in Messages, Due(s, m)
  PROVE  /\ s.state = "live" /\ Wants(s, m)
         /\ adapter = "mock" \/ m.profile \in {"Reliable", "Critical"}
  BY DEF Due, Wants, Matches, DropsSecondary, Messages, Keys

LEMMA Expected ==
  ASSUME TransportTypes, NEW m \in Messages, subs' = Expect(m)
  PROVE  /\ subs' \in Seq(Subscriptions) /\ DOMAIN subs' = DOMAIN subs
         /\ \A i \in DOMAIN subs :
              /\ subs'[i].state = subs[i].state /\ subs'[i].key = subs[i].key
              /\ subs'[i].defers = subs[i].defers /\ Whole(subs'[i]) = Whole(subs[i])
              /\ subs'[i].due = IF Due(subs[i], m) THEN subs[i].due \cup {m} ELSE subs[i].due
  <1> HIDE DEF Due
  <1>1. \A i \in DOMAIN subs :
          /\ subs'[i] \in Subscriptions
          /\ subs'[i].state = subs[i].state /\ subs'[i].key = subs[i].key
          /\ subs'[i].defers = subs[i].defers
          /\ subs'[i].got = subs[i].got /\ subs'[i].queue = subs[i].queue
          /\ subs'[i].due = IF Due(subs[i], m) THEN subs[i].due \cup {m} ELSE subs[i].due
    <2>1. \A i \in DOMAIN subs : subs[i] \in Subscriptions
      BY SubscriptionIs
    <2>2. \A i \in DOMAIN subs : Due(subs[i], m) =>
            [subs[i] EXCEPT !.due = subs[i].due \cup {m}] \in Subscriptions
      BY <2>1 DEF Subscriptions
    <2> QED BY <2>1, <2>2 DEF Expect, Subscriptions
  <1>2. DOMAIN subs' = DOMAIN subs
    BY DEF Expect
  <1>3. subs' \in Seq(Subscriptions)
    <2>1. DOMAIN subs = 1..Len(subs) /\ Len(subs) \in Nat
      BY SubscriptionIs
    <2>2. subs' \in [1..Len(subs) -> Subscriptions]
      BY <1>1, <2>1 DEF Expect
    <2> QED BY <2>1, <2>2
  <1> QED BY <1>1, <1>2, <1>3 DEF Whole

LEMMA PublishingStep ==
  ASSUME TransportInv, NEW t \in Sharers, calling[t] = Idle, NEW m \in Messages,
         m.by = t, m.n = sent + 1, NEW keepsLock \in BOOLEAN, keepsLock => holder = Free,
         Publishing(t, m, keepsLock)
  PROVE  TransportInv'
  <1> USE DEF TransportInv
  <1>1. PICK to : to = IF adapter = "mock" THEN Receivers(m) ELSE {}
    OBVIOUS
  <1>2. /\ UNCHANGED <<adapter, session, publisher, network, arriving>>
        /\ sent' = sent + 1 /\ sent \in Nat /\ subs' = Expect(m)
    BY DEF Publishing, linkVars, TransportTypes
  <1>3. /\ \A i \in to : i \in DOMAIN subs /\ Wants(subs[i], m)
        /\ adapter = "zenoh" => to = {}
        /\ adapter = "mock" => \A i \in DOMAIN subs : Due(subs[i], m) => i \in to
        /\ to \in SUBSET Nat
    <2>1. \A i \in DOMAIN subs : i \in Nat
      BY SubscriptionIs
    <2>2. to \subseteq DOMAIN subs
      BY <1>1 DEF Receivers
    <2>3. adapter = "mock" => to = Receivers(m)
      BY <1>1
    <2>4. adapter = "zenoh" => to = {}
      BY <1>1
    <2>5. \A i \in to : i \in DOMAIN subs /\ Wants(subs[i], m)
      BY <1>1 DEF Receivers
    <2>6. ASSUME adapter = "mock", NEW i \in DOMAIN subs, Due(subs[i], m) PROVE i \in to
      BY <2>3, <2>6, DueIsWanted DEF Receivers
    <2> HIDE DEF Wants, Due
    <2> QED BY <2>1, <2>2, <2>4, <2>5, <2>6
  <1> DEFINE quiet == adapter = "mock" /\ to = {}
             c == [call |-> "publish", m |-> m, to |-> to]
  <1>4. /\ \A u \in Sharers : u # t => calling'[u] = calling[u]
        /\ calling'[t] = IF quiet THEN Idle ELSE c
        /\ calling' \in [Sharers -> {Idle} \cup Publishes \cup Waits]
        /\ ~keepsLock => holder' = holder
    <2>1. CASE quiet
      <3>1. calling' = calling /\ holder' = holder
        BY <1>1, <2>1 DEF Publishing
      <3> QED BY <2>1, <3>1 DEF TransportTypes
    <2>2. CASE ~quiet
      <3>1. calling' = [calling EXCEPT ![t] = c] /\ (~keepsLock => holder' = holder)
        BY <1>1, <2>2 DEF Publishing
      <3>2. c \in Publishes
        BY <1>3 DEF Publishes
      <3> QED BY <2>2, <3>1, <3>2 DEF TransportTypes
    <2> QED BY <2>1, <2>2
  <1>5. /\ calling[t].call = "none" /\ ~IsPublishing(t)
        /\ \A u \in Sharers : IsPublishing(u) => u # t /\ IsPublishing(u)' /\ calling'[u] = calling[u]
        /\ \A u \in Sharers : IsPublishing(u)' =>
             \/ u # t /\ IsPublishing(u) /\ calling'[u] = calling[u]
             \/ u = t /\ ~quiet /\ calling'[u].m = m /\ calling'[u].to = to
        /\ calling'[t].call # "wait"
        /\ ~quiet => IsPublishing(t)' /\ calling'[t].m = m /\ calling'[t].to = to
    BY <1>4 DEF IsPublishing, Idle
  <1> HIDE DEF c, quiet
  <1>6. /\ subs' \in Seq(Subscriptions) /\ DOMAIN subs' = DOMAIN subs
        /\ \A i \in DOMAIN subs :
              /\ subs'[i].state = subs[i].state /\ subs'[i].key = subs[i].key
              /\ subs'[i].defers = subs[i].defers /\ Whole(subs'[i]) = Whole(subs[i])
              /\ subs'[i].due = IF Due(subs[i], m) THEN subs[i].due \cup {m} ELSE subs[i].due
    BY <1>2, Expected
  <1>7. TransportTypes'
    BY <1>2, <1>4, <1>6 DEF TransportTypes
  <1>8. SubscriptionsKept'
    <2> SUFFICES ASSUME NEW i \in DOMAIN subs PROVE SubscriptionKept(i)'
      BY <1>6 DEF SubscriptionsKept
    <2> DEFINE s == subs[i]
               z == subs'[i]
    <2>1. SubscriptionKept(i)
      BY DEF SubscriptionsKept
    <2>2. \A n : Wants(z, n) <=> Wants(s, n)
      BY <1>6 DEF Wants, DropsSecondary, Matches
    <2>3. ASSUME NEW x \in Messages, Ahead(i, x) PROVE Ahead(i, x)'
      <3>1. x.n <= sent /\ x.n \in Nat
        BY <2>3 DEF Ahead, Messages
      <3>2. x.n <= sent' /\ x.n < m.n
        BY <1>2, <3>1
      <3>3. \A u \in Sharers :
              IsPublishing(u)' /\ (adapter = "zenoh" \/ i \in calling'[u].to) /\ x.by = u =>
                x.n < calling'[u].m.n
        BY <1>5, <2>3, <3>2 DEF Ahead
      <3> QED BY <1>2, <2>3, <3>2, <3>3 DEF Ahead
    <2>4. ASSUME NEW n, Underway(n, i) PROVE Underway(n, i)'
      <3>1. CASE \E u \in Sharers : /\ IsPublishing(u) /\ calling[u].m = n
                                    /\ adapter = "zenoh" \/ i \in calling[u].to
        BY <1>2, <1>5, <3>1 DEF Underway, IsPublishing
      <3>2. CASE n \in Range(network) \/ (i \in arriving.to /\ arriving.m = n)
        BY <1>2, <3>2 DEF Underway
      <3> QED BY <2>4, <3>1, <3>2 DEF Underway, IsPublishing
    <2>5. ASSUME Due(s, m) PROVE Underway(m, i)'
      <3>1. ~quiet /\ (adapter = "zenoh" \/ i \in to)
        BY <1>3, <2>5 DEF quiet, TransportTypes
      <3> QED BY <1>2, <1>5, <3>1 DEF Underway, IsPublishing
    <2>6. \A n \in z.due : n \in s.due \/ (n = m /\ Due(s, m))
      <3>1. CASE Due(s, m)
        <4>1. z.due = s.due \cup {m}
          BY <1>6, <3>1
        <4> QED BY <3>1, <4>1
      <3>2. CASE ~Due(s, m)
        <4>1. z.due = s.due
          BY <1>6, <3>2
        <4> QED BY <4>1
      <3> QED BY <3>1, <3>2
    <2>7. Reached(i)' = Whole(s) /\ Reached(i) = Whole(s)
      BY <1>6 DEF Reached
    <2>8. \A x \in Range(Whole(s)) : x \in Messages
      <3>1. Whole(s) \in Seq(Messages)
        BY SubscriptionIs
      <3> QED BY <3>1, RangeOfSeq DEF Range
    <2>9. \A n \in z.due : Wants(z, n) /\ (adapter = "mock" \/ n.profile \in {"Reliable", "Critical"})
      <3> HIDE DEF Due, Wants
      <3>1. Due(s, m) => Wants(s, m) /\ (adapter = "mock" \/ m.profile \in {"Reliable", "Critical"})
        BY DueIsWanted
      <3> QED BY <2>1, <2>2, <2>6, <3>1 DEF SubscriptionKept
    <2>10. z.state = "live" => \A n \in z.due : n \in Range(Whole(s)) \/ Underway(n, i)'
      BY <1>6, <2>1, <2>4, <2>5, <2>6, <2>7 DEF SubscriptionKept
    <2>11. \A x \in Range(Whole(s)) : Wants(z, x) /\ Ahead(i, x)'
      BY <2>1, <2>2, <2>3, <2>7, <2>8 DEF SubscriptionKept
    <2>12. InOrder(Whole(s)) /\ (z.state = "live" => session' = "open")
      BY <1>2, <1>6, <2>1, <2>7 DEF SubscriptionKept
    <2> HIDE DEF Ahead, Underway
    <2> QED BY <1>2, <2>7, <2>9, <2>10, <2>11, <2>12
        DEF SubscriptionKept, Wants, DropsSecondary, Matches, InOrder
  <1>9. CallsKept'
    <2> SUFFICES ASSUME NEW u \in Sharers, IsPublishing(u)'
                 PROVE  /\ calling'[u].m.by = u /\ calling'[u].m.n <= sent'
                        /\ adapter' = "zenoh" => calling'[u].to = {}
                        /\ \A i \in calling'[u].to : i \in DOMAIN subs' /\ Wants(subs'[i], calling'[u].m)
      BY DEF CallsKept, CallKept, Wants, DropsSecondary, Matches
    <2>1. \A i \in DOMAIN subs : \A n : Wants(subs'[i], n) <=> Wants(subs[i], n)
      BY <1>6 DEF Wants, DropsSecondary, Matches
    <2> HIDE DEF Wants
    <2>2. CASE u # t
      <3>1. IsPublishing(u) /\ calling'[u] = calling[u] /\ CallKept(u)
        BY <1>5, <2>2 DEF CallsKept
      <3>2. calling[u].m.n \in Nat
        BY <3>1, CallIs DEF Publishes, Messages
      <3> QED BY <1>2, <1>6, <2>1, <3>1, <3>2 DEF CallKept
    <2>3. CASE u = t
      <3>1. calling'[u].m = m /\ calling'[u].to = to
        BY <1>5, <2>3
      <3>2. m.by = u /\ m.n <= sent'
        BY <1>2, <2>3
      <3>3. \A i \in to : i \in DOMAIN subs' /\ Wants(subs'[i], m)
        BY <1>3, <1>6, <2>1
      <3>4. adapter' = "zenoh" => to = {}
        BY <1>2, <1>3
      <3> QED BY <3>1, <3>2, <3>3, <3>4
    <2> QED BY <2>2, <2>3
  <1>10. OnTheNetwork'
    <2>0. OnTheNetwork /\ network \in Seq(Messages)
      BY DEF TransportTypes
    <2>1. \A y \in Range(network) : y \in Messages
      BY <2>0, RangeOfSeq DEF Range
    <2>2. \A y \in Range(network) : y.n <= sent' /\ y.n < m.n
      <3> SUFFICES ASSUME NEW y \in Range(network) PROVE y.n <= sent' /\ y.n < m.n
        OBVIOUS
      <3>1. y.n <= sent /\ y.n \in Nat
        BY <2>0, <2>1 DEF OnTheNetwork, Messages
      <3> QED BY <1>2, <3>1
    <2>3. arriving.to # {} => arriving.m.n <= sent' /\ arriving.m.n < m.n
      <3> SUFFICES ASSUME arriving.to # {} PROVE arriving.m.n <= sent' /\ arriving.m.n < m.n
        OBVIOUS
      <3>1. arriving.m.n <= sent /\ arriving.m.n \in Nat
        BY <2>0, SampleIs DEF OnTheNetwork, Samples, Messages
      <3> QED BY <1>2, <3>1
    <2>4. \A i \in arriving.to : i \in DOMAIN subs' /\ Wants(subs'[i], arriving.m)
      BY <1>6, <2>0 DEF OnTheNetwork, Wants, DropsSecondary, Matches
    <2>5. \A y \in Range(network) : \A u \in Sharers : IsPublishing(u)' /\ y.by = u => y.n < calling'[u].m.n
      BY <1>5, <2>0, <2>2 DEF OnTheNetwork
    <2>6. arriving.to # {} => \A u \in Sharers :
            IsPublishing(u)' /\ arriving.m.by = u => arriving.m.n < calling'[u].m.n
      BY <1>5, <2>0, <2>3 DEF OnTheNetwork
    <2> QED BY <1>2, <2>0, <2>2, <2>3, <2>4, <2>5, <2>6
        DEF OnTheNetwork, InOrder, Wants, DropsSecondary, Matches
  <1>11. WaitsKept'
    <2>1. CASE holder = Free
      BY <1>4, <1>5, <2>1, NobodyStartsToWait
    <2>2. CASE ~keepsLock
      <3>1. \A e : Matched(e, subs') = Matched(e, subs)
        BY <1>6, MatchedStays
      <3> QED BY <1>4, <1>5, <2>2, <3>1, WaitsStay
    <2> QED BY <2>1, <2>2
  <1> QED BY <1>7, <1>8, <1>9, <1>10, <1>11

LEMMA PublishOnceStep ==
  ASSUME TransportInv, NEW t \in Sharers, NEW key \in LinkIds, NEW primary \in BOOLEAN,
         NEW profile \in Profiles, PublishOnce(t, key, primary, profile)
  PROVE  TransportInv'
  <1> DEFINE m == Message(t, key, primary, profile)
  <1>1. m \in Messages /\ m.by = t /\ m.n = sent + 1
    BY DEF Message, Messages, Keys, TransportInv, TransportTypes
  <1>2. calling[t] = Idle /\ holder = Free /\ Publishing(t, m, TRUE)
    BY DEF PublishOnce, MayCall
  <1> HIDE DEF m
  <1> QED BY <1>1, <1>2, PublishingStep

LEMMA PublishBoundStep ==
  ASSUME TransportInv, NEW t \in Sharers, PublishBound(t)
  PROVE  TransportInv'
  <1> DEFINE m == Message(t, publisher.key, TRUE, publisher.profile)
  <1>0. publisher \in Publishers /\ sent \in Nat
    BY DEF PublishBound, TransportInv, TransportTypes
  <1>1. m \in Messages /\ m.by = t /\ m.n = sent + 1
    BY <1>0 DEF Message, Messages, Publishers
  <1>2. calling[t] = Idle /\ Publishing(t, m, FALSE)
    BY DEF PublishBound
  <1> HIDE DEF m
  <1> QED BY <1>1, <1>2, PublishingStep

LEMMA EnqueueIs ==
  ASSUME TransportTypes, NEW i \in DOMAIN subs, NEW m \in Messages, Sendable(i), Enqueue(i, m)
  PROVE  /\ subs' \in Seq(Subscriptions) /\ DOMAIN subs' = DOMAIN subs
         /\ \A j \in DOMAIN subs :
              /\ subs'[j].state = subs[j].state /\ subs'[j].key = subs[j].key
              /\ subs'[j].defers = subs[j].defers /\ subs'[j].due = subs[j].due
              /\ j # i => Whole(subs'[j]) = Whole(subs[j])
         /\ subs[i].state = "gone" => Whole(subs'[i]) = Whole(subs[i])
         /\ subs[i].state # "gone" => Whole(subs'[i]) = Append(Whole(subs[i]), m)
  <1>1. subs[i] \in Subscriptions /\ subs \in Seq(Subscriptions)
    BY SubscriptionIs DEF TransportTypes
  <1>2. CASE subs[i].state = "gone"
    <2>1. subs' = subs
      BY <1>2 DEF Enqueue
    <2> QED BY <1>1, <1>2, <2>1
  <1>3. CASE subs[i].state # "gone"
    <2>1. Len(subs[i].queue) # subs[i].size
      <3>1. subs[i].queue \in Seq(Messages) /\ subs[i].size \in Nat
        BY <1>1 DEF Subscriptions
      <3>2. Len(subs[i].queue) \in Nat
        BY <3>1, LenProperties
      <3> QED BY <1>3, <3>1, <3>2 DEF Sendable, HasRoom
    <2>2. PICK z : z = [subs[i] EXCEPT !.queue = Append(@, m)]
      OBVIOUS
    <2>3. subs' = [subs EXCEPT ![i] = z]
      BY <1>3, <2>1, <2>2 DEF Enqueue
    <2>4. z \in Subscriptions /\ Whole(z) = Append(Whole(subs[i]), m)
      BY <1>1, <2>2, Delivered
    <2>5. z.key = subs[i].key /\ z.defers = subs[i].defers /\ z.due = subs[i].due
          /\ z.state = subs[i].state
      BY <1>1, <2>2 DEF Subscriptions
    <2>6. /\ subs' \in Seq(Subscriptions) /\ DOMAIN subs' = DOMAIN subs
          /\ subs'[i] = z /\ \A j \in DOMAIN subs : j # i => subs'[j] = subs[j]
      BY <2>3, <2>4, OneSubscription
    <2> QED BY <1>3, <2>4, <2>5, <2>6
  <1> QED BY <1>2, <1>3

(* A message is handed to the channel of a subscription it was on its way to.*)
LEMMA DeliveryStep ==
  ASSUME TransportInv, NEW i \in DOMAIN subs, NEW m \in Messages, Sendable(i), Enqueue(i, m),
         Wants(subs[i], m), UNCHANGED <<adapter, session>>,
         \A x \in Range(Reached(i)) : x.by = m.by => x.n < m.n,
         Ahead(i, m)', \A j \in DOMAIN subs : \A x : Ahead(j, x) => Ahead(j, x)',
         \A j \in DOMAIN subs : \A n : Underway(n, j) => Underway(n, j)' \/ (j = i /\ n = m)
  PROVE  SubscriptionsKept'
  <1> USE DEF TransportInv
  <1>1. /\ DOMAIN subs' = DOMAIN subs
        /\ \A j \in DOMAIN subs :
              /\ subs'[j].state = subs[j].state /\ subs'[j].key = subs[j].key
              /\ subs'[j].defers = subs[j].defers /\ subs'[j].due = subs[j].due
              /\ j # i => Whole(subs'[j]) = Whole(subs[j])
        /\ subs[i].state = "gone" => Whole(subs'[i]) = Whole(subs[i])
        /\ subs[i].state # "gone" => Whole(subs'[i]) = Append(Whole(subs[i]), m)
    BY EnqueueIs
  <1> SUFFICES ASSUME NEW j \in DOMAIN subs PROVE SubscriptionKept(j)'
    BY <1>1 DEF SubscriptionsKept
  <1> DEFINE s == subs[j]
             z == subs'[j]
  <1>2. SubscriptionKept(j) /\ Whole(s) \in Seq(Messages)
    BY SubscriptionIs DEF SubscriptionsKept
  <1>3. \A n : Wants(z, n) <=> Wants(s, n)
    BY <1>1 DEF Wants, DropsSecondary, Matches
  <1>4. Reached(j)' = Whole(z) /\ Reached(j) = Whole(s)
    BY DEF Reached, Whole
  <1>5. /\ Range(Whole(s)) \subseteq Range(Whole(z))
        /\ \A x \in Range(Whole(z)) : x \in Range(Whole(s)) \/ (j = i /\ x = m)
        /\ InOrder(Whole(z))
        /\ z.state = "live" /\ j = i => m \in Range(Whole(z))
    <2>1. CASE j # i \/ s.state = "gone"
      <3>1. Whole(z) = Whole(s)
        BY <1>1, <2>1
      <3>2. z.state = "live" => j # i
        BY <1>1, <2>1
      <3> QED BY <1>2, <1>4, <3>1, <3>2 DEF SubscriptionKept
    <2>2. CASE j = i /\ s.state # "gone"
      <3>1. Whole(z) = Append(Whole(s), m)
        BY <1>1, <2>2
      <3>2. \A x \in Range(Whole(s)) : x.by = m.by => x.n < m.n
        BY <1>4, <2>2
      <3>3. InOrder(Whole(s))
        BY <1>2, <1>4 DEF SubscriptionKept
      <3>4. Range(Whole(z)) = Range(Whole(s)) \cup {m} /\ InOrder(Whole(z))
        BY <1>2, <3>1, <3>2, <3>3, LongerInOrder
      <3> QED BY <2>2, <3>4
    <2> QED BY <2>1, <2>2
  <1>6. \A n \in z.due : Wants(z, n) /\ (adapter' = "mock" \/ n.profile \in {"Reliable", "Critical"})
    <2> HIDE DEF Wants
    <2> QED BY <1>1, <1>2, <1>3 DEF SubscriptionKept
  <1>7. z.state = "live" => \A n \in z.due : n \in Range(Whole(z)) \/ Underway(n, j)'
    <2> SUFFICES ASSUME z.state = "live", NEW n \in z.due
                 PROVE  n \in Range(Whole(z)) \/ Underway(n, j)'
      OBVIOUS
    <2>1. n \in Range(Whole(s)) \/ Underway(n, j)
      BY <1>1, <1>2, <1>4 DEF SubscriptionKept
    <2>2. Underway(n, j) => Underway(n, j)' \/ (j = i /\ n = m)
      OBVIOUS
    <2> QED BY <1>5, <2>1, <2>2
  <1>8. \A x \in Range(Whole(z)) : Wants(z, x) /\ Ahead(j, x)'
    <2> SUFFICES ASSUME NEW x \in Range(Whole(z)) PROVE Wants(z, x) /\ Ahead(j, x)'
      OBVIOUS
    <2>1. CASE x \in Range(Whole(s))
      BY <1>2, <1>3, <1>4, <2>1 DEF SubscriptionKept
    <2>2. CASE j = i /\ x = m
      BY <1>3, <2>2
    <2> QED BY <1>5, <2>1, <2>2
  <1>9. z.state = "live" => session' = "open"
    BY <1>1, <1>2 DEF SubscriptionKept
  <1> HIDE DEF Ahead, Underway
  <1> QED BY <1>4, <1>5, <1>6, <1>7, <1>8, <1>9
      DEF SubscriptionKept, Wants, DropsSecondary, Matches, InOrder

LEMMA RouteToStep ==
  ASSUME TransportInv, NEW t \in Sharers, NEW i \in DOMAIN subs, RouteTo(t, i)
  PROVE  TransportInv'
  <1> USE DEF TransportInv
  <1>0. PICK m : m = calling[t].m
    OBVIOUS
  <1> DEFINE rest == calling[t].to \ {i}
  <1>1. /\ IsPublishing(t) /\ i \in calling[t].to /\ Sendable(i) /\ Enqueue(i, m)
        /\ UNCHANGED <<adapter, session, publisher, network, arriving, sent>>
    BY <1>0 DEF RouteTo, linkVars, IsPublishing
  <1>2. CallKept(t) /\ calling[t] \in Publishes
    BY <1>1, CallIs DEF CallsKept
  <1>3. /\ m \in Messages /\ m.by = t /\ m.n <= sent /\ adapter = "mock" /\ Wants(subs[i], m)
        /\ network = <<>> /\ arriving.to = {}
    <2>1. m \in Messages
      BY <1>0, <1>2 DEF Publishes
    <2>2. m.by = t /\ m.n <= sent /\ Wants(subs[i], m) /\ adapter # "zenoh"
      BY <1>0, <1>1, <1>2, Zenon DEF CallKept
    <2>3. adapter = "mock"
      BY <2>2 DEF TransportTypes
    <2> QED BY <2>1, <2>2, <2>3 DEF OnTheNetwork
  <1>4. /\ \A u \in Sharers : u # t => calling'[u] = calling[u]
        /\ calling' \in [Sharers -> {Idle} \cup Publishes \cup Waits]
        /\ \/ calling'[t] = Idle /\ rest = {}
           \/ calling'[t] \in Publishes /\ calling'[t].m = m /\ calling'[t].to = rest
        /\ holder' = IF calling[t].to = {i} /\ holder = t THEN Free ELSE holder
    <2>1. CASE calling[t].to = {i}
      <3>1. calling' = [calling EXCEPT ![t] = Idle]
            /\ holder' = IF holder = t THEN Free ELSE holder
        BY <2>1 DEF RouteTo, Returns
      <3> QED BY <2>1, <3>1 DEF TransportTypes
    <2>2. CASE calling[t].to # {i}
      <3>1. PICK c : c = [calling[t] EXCEPT !.to = @ \ {i}]
        OBVIOUS
      <3>2. calling' = [calling EXCEPT ![t] = c] /\ holder' = holder
        BY <2>2, <3>1 DEF RouteTo
      <3>3. c \in Publishes /\ c.m = m /\ c.to = rest
        BY <1>0, <1>2, <3>1 DEF Publishes
      <3> QED BY <2>2, <3>2, <3>3 DEF TransportTypes
    <2> QED BY <2>1, <2>2
  <1> HIDE DEF rest
  <1>5. /\ \A u \in Sharers : IsPublishing(u)' => IsPublishing(u) /\ calling'[u].m = calling[u].m
        /\ \A u \in Sharers : \A j : IsPublishing(u)' /\ j \in calling'[u].to =>
             j \in calling[u].to /\ (u = t => j # i)
        /\ \A u \in Sharers : \A j : IsPublishing(u) /\ j \in calling[u].to /\ (u # t \/ j # i) =>
             IsPublishing(u)' /\ j \in calling'[u].to /\ calling'[u].m = calling[u].m
    BY <1>0, <1>1, <1>4 DEF IsPublishing, Idle, Publishes, rest
  <1>6. /\ subs' \in Seq(Subscriptions) /\ DOMAIN subs' = DOMAIN subs
        /\ \A j \in DOMAIN subs :
              subs'[j].state = subs[j].state /\ subs'[j].key = subs[j].key
              /\ subs'[j].defers = subs[j].defers
    BY <1>1, <1>3, EnqueueIs
  <1>7. TransportTypes'
    BY <1>1, <1>4, <1>6 DEF TransportTypes
  <1>8. SubscriptionsKept'
    <2>1. \A x \in Range(Reached(i)) : x.by = m.by => x.n < m.n
      BY <1>0, <1>1, <1>3 DEF SubscriptionsKept, SubscriptionKept, Ahead
    <2>2. Ahead(i, m)'
      <3>1. \A u \in Sharers :
              ~(IsPublishing(u)' /\ (adapter' = "zenoh" \/ i \in calling'[u].to) /\ m.by = u)
        BY <1>1, <1>3, <1>5
      <3>2. m.n <= sent' /\ Range(network') = {} /\ arriving'.to = {}
        BY <1>1, <1>3 DEF Range
      <3> QED BY <3>1, <3>2 DEF Ahead
    <2>3. \A j \in DOMAIN subs : \A x : Ahead(j, x) => Ahead(j, x)'
      BY <1>1, <1>3, <1>5 DEF Ahead
    <2>4. \A j \in DOMAIN subs : \A n : Underway(n, j) => Underway(n, j)' \/ (j = i /\ n = m)
      BY <1>0, <1>1, <1>3, <1>5 DEF Underway, Range, IsPublishing
    <2> QED BY <1>1, <1>3, <2>1, <2>2, <2>3, <2>4, DeliveryStep
  <1>9. CallsKept'
    <2>1. \A j \in DOMAIN subs : \A n : Wants(subs'[j], n) <=> Wants(subs[j], n)
      BY <1>6 DEF Wants, DropsSecondary, Matches
    <2> SUFFICES ASSUME NEW u \in Sharers, IsPublishing(u)'
                 PROVE  /\ calling'[u].m.by = u /\ calling'[u].m.n <= sent'
                        /\ \A j \in calling'[u].to : j \in DOMAIN subs' /\ Wants(subs'[j], calling'[u].m)
      BY <1>1, <1>3 DEF CallsKept, CallKept, Wants, DropsSecondary, Matches
    <2> HIDE DEF Wants
    <2> QED BY <1>1, <1>5, <1>6, <2>1 DEF CallsKept, CallKept
  <1>10. OnTheNetwork'
    BY <1>1, <1>3 DEF OnTheNetwork, InOrder, Range
  <1>11. WaitsKept'
    <2>1. \A e : Matched(e, subs') = Matched(e, subs)
      BY <1>6, MatchedStays
    <2>2. \A u \in Sharers : calling'[u].call = "wait" =>
            calling'[u] = calling[u] /\ (holder = u => holder' = u)
      BY <1>4 DEF Idle, Publishes
    <2> QED BY <2>1, <2>2, WaitsStay
  <1> QED BY <1>7, <1>8, <1>9, <1>10, <1>11

LEMMA CallbackStep ==
  ASSUME TransportInv, NEW i \in DOMAIN subs, Callback(i)
  PROVE  TransportInv'
  <1> USE DEF TransportInv
  <1>0. PICK m : m = arriving.m
    OBVIOUS
  <1>1. /\ i \in arriving.to /\ Sendable(i) /\ Enqueue(i, m)
        /\ UNCHANGED <<adapter, session, holder, calling, publisher, network, sent>>
    BY <1>0 DEF Callback
  <1>2. arriving \in Samples /\ m \in Messages
    BY <1>0, <1>1, SampleIs DEF Samples
  <1>3. /\ arriving' \in Samples /\ arriving'.m = m /\ arriving'.to = arriving.to \ {i}
    BY <1>0, <1>1, <1>2 DEF Callback, Samples
  <1>4. /\ adapter # "mock" /\ Wants(subs[i], m) /\ m.n <= sent
        /\ \A y \in Range(network) : m.by = y.by => m.n < y.n
        /\ \A t \in Sharers : IsPublishing(t) /\ m.by = t => m.n < calling[t].m.n
    BY <1>0, <1>1 DEF OnTheNetwork
  <1>5. /\ subs' \in Seq(Subscriptions) /\ DOMAIN subs' = DOMAIN subs
        /\ \A j \in DOMAIN subs :
              subs'[j].state = subs[j].state /\ subs'[j].key = subs[j].key
              /\ subs'[j].defers = subs[j].defers
    BY <1>1, <1>2, EnqueueIs
  <1>6. TransportTypes'
    BY <1>1, <1>3, <1>5 DEF TransportTypes
  <1>7. SubscriptionsKept'
    <2>1. \A x \in Range(Reached(i)) : x.by = m.by => x.n < m.n
      BY <1>0, <1>1 DEF SubscriptionsKept, SubscriptionKept, Ahead
    <2>2. Ahead(i, m)'
      BY <1>1, <1>3, <1>4 DEF Ahead, IsPublishing
    <2>3. \A j \in DOMAIN subs : \A x : Ahead(j, x) => Ahead(j, x)'
      BY <1>0, <1>1, <1>3 DEF Ahead, IsPublishing
    <2>4. \A j \in DOMAIN subs : \A n : Underway(n, j) => Underway(n, j)' \/ (j = i /\ n = m)
      BY <1>0, <1>1, <1>3 DEF Underway
    <2> QED BY <1>1, <1>2, <1>4, <2>1, <2>2, <2>3, <2>4, DeliveryStep
  <1>8. CallsKept'
    BY <1>1, <1>5 DEF CallsKept, CallKept, IsPublishing, Wants, DropsSecondary, Matches
  <1>9. OnTheNetwork'
    <2>1. \A j \in arriving'.to : j \in DOMAIN subs' /\ Wants(subs'[j], arriving'.m)
      BY <1>0, <1>3, <1>5 DEF OnTheNetwork, Wants, DropsSecondary, Matches
    <2>2. \A y \in Range(network) :
            /\ y.n <= sent
            /\ \A t \in Sharers : IsPublishing(t)' /\ y.by = t => y.n < calling'[t].m.n
            /\ arriving'.m.by = y.by => arriving'.m.n < y.n
      BY <1>1, <1>3, <1>4 DEF OnTheNetwork, IsPublishing
    <2>3. \A t \in Sharers : IsPublishing(t)' /\ arriving'.m.by = t => arriving'.m.n < calling'[t].m.n
      BY <1>1, <1>3, <1>4 DEF IsPublishing
    <2>4. adapter' # "mock" /\ InOrder(network) /\ network' = network /\ sent' = sent
      BY <1>1, <1>4 DEF OnTheNetwork
    <2> QED BY <1>3, <1>4, <2>1, <2>2, <2>3, <2>4
        DEF OnTheNetwork, InOrder, Wants, DropsSecondary, Matches
  <1>10. WaitsKept'
    <2>1. \A e : Matched(e, subs') = Matched(e, subs)
      BY <1>5, MatchedStays
    <2> QED BY <1>1, <2>1, WaitsStay
  <1> QED BY <1>6, <1>7, <1>8, <1>9, <1>10

LEMMA ArriveStep ==
  ASSUME TransportInv, Arrive
  PROVE  TransportInv'
  <1> USE DEF TransportInv
  <1>0. PICK m : m = Head(network)
    OBVIOUS
  <1>1. /\ arriving.to = {} /\ network # <<>> /\ network' = Tail(network)
        /\ arriving' = [m |-> m, to |-> Receivers(m)]
        /\ UNCHANGED <<adapter, session, holder, calling, publisher, subs, sent>>
    BY <1>0 DEF Arrive
  <1>2. network \in Seq(Messages) /\ OnTheNetwork
    BY DEF TransportTypes
  <1>3. /\ m \in Messages /\ network' \in Seq(Messages)
        /\ Range(network) = {m} \cup Range(network') /\ InOrder(network')
        /\ \A y \in Range(network') : y.by = m.by => m.n < y.n
    <2>1. InOrder(network)
      BY <1>2 DEF OnTheNetwork
    <2>2. /\ m \in Messages /\ Tail(network) \in Seq(Messages)
          /\ Range(network) = {m} \cup Range(Tail(network)) /\ InOrder(Tail(network))
          /\ \A y \in Range(Tail(network)) : y.by = m.by => m.n < y.n
      BY <1>0, <1>1, <1>2, <2>1, ShorterInOrder
    <2> QED BY <1>1, <2>2
  <1>4. /\ arriving'.m = m /\ arriving'.to = Receivers(m) /\ arriving' \in Samples
    <2>1. \A i \in DOMAIN subs : i \in Nat
      BY SubscriptionIs
    <2>2. Receivers(m) \in SUBSET Nat
      BY <2>1 DEF Receivers
    <2> QED BY <1>1, <1>3, <2>2 DEF Samples
  <1>5. /\ adapter # "mock" /\ m.n <= sent
        /\ \A t \in Sharers : IsPublishing(t) /\ m.by = t => m.n < calling[t].m.n
    <2>1. m \in Range(network)
      BY <1>3
    <2> QED BY <1>1, <1>2, <2>1 DEF OnTheNetwork
  <1>6. TransportTypes'
    BY <1>1, <1>3, <1>4 DEF TransportTypes
  <1>7. SubscriptionsKept'
    <2> SUFFICES ASSUME NEW i \in DOMAIN subs PROVE SubscriptionKept(i)'
      BY <1>1 DEF SubscriptionsKept
    <2>1. SubscriptionKept(i)
      BY DEF SubscriptionsKept
    <2>2. \A x : Ahead(i, x) => Ahead(i, x)'
      BY <1>1, <1>3, <1>4 DEF Ahead, IsPublishing
    <2>3. ASSUME subs[i].state = "live", NEW n, Wants(subs[i], n), Underway(n, i)
          PROVE  Underway(n, i)'
      <3>1. CASE n = m
        <4>1. i \in arriving'.to /\ arriving'.m = n
          BY <1>4, <2>3, <3>1 DEF Receivers
        <4> QED BY <4>1 DEF Underway
      <3>2. CASE n # m
        BY <1>1, <1>3, <2>3, <3>2 DEF Underway
      <3> QED BY <3>1, <3>2
    <2>4. subs[i].state = "live" => \A n \in subs[i].due : n \in Range(Reached(i)) \/ Underway(n, i)'
      BY <2>1, <2>3 DEF SubscriptionKept
    <2>5. Reached(i)' = Reached(i) /\ subs'[i] = subs[i]
      BY <1>1 DEF Reached
    <2> HIDE DEF Ahead, Underway, Reached
    <2> QED BY <1>1, <2>1, <2>2, <2>4, <2>5 DEF SubscriptionKept
  <1>8. CallsKept'
    BY <1>1 DEF CallsKept, CallKept, IsPublishing, Wants, DropsSecondary, Matches
  <1>9. OnTheNetwork'
    <2>1. \A i \in arriving'.to : i \in DOMAIN subs' /\ Wants(subs'[i], arriving'.m)
      BY <1>1, <1>4 DEF Receivers, Wants, DropsSecondary, Matches
    <2>2. \A y \in Range(network') :
            /\ y.n <= sent
            /\ \A t \in Sharers : IsPublishing(t)' /\ y.by = t => y.n < calling'[t].m.n
            /\ arriving'.m.by = y.by => arriving'.m.n < y.n
      BY <1>1, <1>2, <1>3, <1>4 DEF OnTheNetwork, IsPublishing
    <2>3. \A t \in Sharers : IsPublishing(t)' /\ arriving'.m.by = t => arriving'.m.n < calling'[t].m.n
      BY <1>1, <1>4, <1>5 DEF IsPublishing
    <2> QED BY <1>1, <1>3, <1>4, <1>5, <2>1, <2>2, <2>3
        DEF OnTheNetwork, InOrder, Wants, DropsSecondary, Matches
  <1>10. WaitsKept'
    BY <1>1, WaitsStay
  <1> QED BY <1>6, <1>7, <1>8, <1>9, <1>10

LEMMA PutStep ==
  ASSUME TransportInv, NEW t \in Sharers, Put(t)
  PROVE  TransportInv'
  <1> USE DEF TransportInv
  <1>0. PICK m : m = calling[t].m
    OBVIOUS
  <1>1. /\ adapter = "zenoh" /\ IsPublishing(t)
        /\ calling' = [calling EXCEPT ![t] = Idle]
        /\ holder' = IF holder = t THEN Free ELSE holder
        /\ UNCHANGED <<adapter, session, publisher, subs, arriving, sent>>
    BY DEF Put, Returns, IsPublishing
  <1>2. CallKept(t) /\ calling[t] \in Publishes
    BY <1>1, CallIs DEF CallsKept
  <1>3. m \in Messages /\ m.by = t /\ m.n <= sent
    BY <1>0, <1>1, <1>2 DEF CallKept, Publishes
  <1>4. /\ \A u \in Sharers : u # t => calling'[u] = calling[u]
        /\ calling'[t] = Idle /\ ~IsPublishing(t)'
        /\ calling' \in [Sharers -> {Idle} \cup Publishes \cup Waits]
    BY <1>1 DEF TransportTypes, Idle, IsPublishing
  <1>5. \A u \in Sharers : IsPublishing(u)' => IsPublishing(u) /\ u # t /\ calling'[u] = calling[u]
    BY <1>4 DEF IsPublishing
  <1>6. /\ network' = network \/ network' = Append(network, m)
        /\ session = "open" /\ m.profile \in {"Reliable", "Critical"} => network' = Append(network, m)
    BY <1>0 DEF Put, Usable, CongestionControl, PublisherQoS
  <1>7. network \in Seq(Messages) /\ OnTheNetwork
    BY DEF TransportTypes
  <1>8. /\ network' \in Seq(Messages) /\ InOrder(network') /\ Range(network) \subseteq Range(network')
        /\ \A y \in Range(network') : y \in Range(network) \/ y = m
        /\ session = "open" /\ m.profile \in {"Reliable", "Critical"} => m \in Range(network')
    <2>1. InOrder(network) /\ \A y \in Range(network) : y.by = m.by => y.n < m.n
      BY <1>0, <1>1, <1>3, <1>7 DEF OnTheNetwork
    <2>2. CASE network' = network
      <3>1. session = "open" /\ m.profile \in {"Reliable", "Critical"} => FALSE
        <4>1. Append(network, m) # network
          <5>1. Len(Append(network, m)) = Len(network) + 1 /\ Len(network) \in Nat
            BY <1>3, <1>7, AppendProperties, LenProperties
          <5> QED BY <5>1
        <4> QED BY <1>6, <2>2, <4>1
      <3> QED BY <1>7, <2>1, <2>2, <3>1
    <2>3. CASE network' = Append(network, m)
      <3>1. /\ Append(network, m) \in Seq(Messages) /\ InOrder(Append(network, m))
            /\ Range(Append(network, m)) = Range(network) \cup {m}
        BY <1>3, <1>7, <2>1, LongerInOrder
      <3> QED BY <2>3, <3>1
    <2> QED BY <1>6, <2>2, <2>3
  <1>9. TransportTypes'
    BY <1>1, <1>4, <1>8 DEF TransportTypes
  <1>10. SubscriptionsKept'
    <2> SUFFICES ASSUME NEW i \in DOMAIN subs PROVE SubscriptionKept(i)'
      BY <1>1 DEF SubscriptionsKept
    <2>1. SubscriptionKept(i)
      BY DEF SubscriptionsKept
    <2>2. ASSUME NEW x, Ahead(i, x) PROVE Ahead(i, x)'
      <3>1. \A y \in Range(network') : y.by = x.by => x.n < y.n
        BY <1>0, <1>1, <1>3, <1>8, <2>2 DEF Ahead
      <3>2. \A u \in Sharers : IsPublishing(u)' /\ x.by = u => x.n < calling'[u].m.n
        BY <1>1, <1>5, <2>2 DEF Ahead
      <3> QED BY <1>1, <2>2, <3>1, <3>2 DEF Ahead
    <2>3. ASSUME subs[i].state = "live", NEW n \in subs[i].due, Underway(n, i)
          PROVE  Underway(n, i)'
      <3>1. session = "open" /\ n.profile \in {"Reliable", "Critical"}
        BY <1>1, <2>1, <2>3 DEF SubscriptionKept
      <3>2. CASE n = m
        BY <1>8, <3>1, <3>2 DEF Underway
      <3>3. CASE n \in Range(network) \/ (i \in arriving.to /\ arriving.m = n)
        BY <1>1, <1>8, <3>3 DEF Underway
      <3>4. CASE \E u \in Sharers : u # t /\ calling[u].call = "publish" /\ calling[u].m = n
        BY <1>1, <1>4, <3>4 DEF Underway
      <3> QED BY <1>0, <2>3, <3>2, <3>3, <3>4 DEF Underway
    <2>4. subs[i].state = "live" => \A n \in subs[i].due : n \in Range(Reached(i)) \/ Underway(n, i)'
      BY <2>1, <2>3 DEF SubscriptionKept
    <2>5. Reached(i)' = Reached(i) /\ subs'[i] = subs[i]
      BY <1>1 DEF Reached
    <2> HIDE DEF Ahead, Underway, Reached
    <2> QED BY <1>1, <2>1, <2>2, <2>4, <2>5 DEF SubscriptionKept
  <1>11. CallsKept'
    BY <1>1, <1>5 DEF CallsKept, CallKept, Wants, DropsSecondary, Matches
  <1>12. OnTheNetwork'
    <2>1. \A y \in Range(network') :
            /\ y.n <= sent
            /\ \A u \in Sharers : IsPublishing(u)' /\ y.by = u => y.n < calling'[u].m.n
            /\ arriving.to # {} /\ arriving.m.by = y.by => arriving.m.n < y.n
      <3> SUFFICES ASSUME NEW y \in Range(network')
                   PROVE  /\ y.n <= sent
                          /\ \A u \in Sharers : IsPublishing(u)' /\ y.by = u => y.n < calling'[u].m.n
                          /\ arriving.to # {} /\ arriving.m.by = y.by => arriving.m.n < y.n
        OBVIOUS
      <3>1. CASE y \in Range(network)
        BY <1>5, <1>7, <3>1 DEF OnTheNetwork
      <3>2. CASE y = m
        BY <1>0, <1>1, <1>3, <1>4, <1>7, <3>2 DEF OnTheNetwork
      <3> QED BY <1>8, <3>1, <3>2
    <2>2. arriving.to # {} =>
            /\ arriving.m.n <= sent
            /\ \A u \in Sharers : IsPublishing(u)' /\ arriving.m.by = u => arriving.m.n < calling'[u].m.n
      BY <1>5, <1>7 DEF OnTheNetwork
    <2>3. \A i \in arriving.to : i \in DOMAIN subs' /\ Wants(subs'[i], arriving.m)
      BY <1>1, <1>7 DEF OnTheNetwork, Wants, DropsSecondary, Matches
    <2> QED BY <1>1, <1>8, <2>1, <2>2, <2>3
        DEF OnTheNetwork, InOrder, Wants, DropsSecondary, Matches
  <1>13. WaitsKept'
    <2>1. \A u \in Sharers : calling'[u].call = "wait" =>
            calling'[u] = calling[u] /\ (holder = u => holder' = u)
      BY <1>1, <1>4 DEF Idle
    <2> QED BY <1>1, <2>1, WaitsStay
  <1> QED BY <1>9, <1>10, <1>11, <1>12, <1>13

-----------------------------------------------------------------------------
LEMMA TransportBegins == TransportInit => TransportInv
  <1> SUFFICES ASSUME TransportInit PROVE TransportInv
    OBVIOUS
  <1> USE DEF TransportInit
  <1>1. DOMAIN subs = {} /\ Range(network) = {} /\ arriving.to = {}
    BY DEF NoSample, Range
  <1>2. TransportTypes
    <2>1. <<>> \in Seq(Subscriptions) /\ <<>> \in Seq(Messages)
      OBVIOUS
    <2> QED BY <2>1 DEF TransportTypes
  <1>3. \A t \in Sharers : calling[t].call = "none"
    BY DEF Idle
  <1>4. SubscriptionsKept /\ CallsKept /\ WaitsKept
    BY <1>1, <1>3 DEF SubscriptionsKept, CallsKept, CallKept, IsPublishing, WaitsKept, WaitKept
  <1>5. OnTheNetwork
    BY <1>1 DEF OnTheNetwork, InOrder
  <1> QED BY <1>2, <1>4, <1>5 DEF TransportInv

LEMMA TransportStep == TransportInv /\ [TransportNext]_transportVars => TransportInv'
  <1> SUFFICES ASSUME TransportInv, [TransportNext]_transportVars PROVE TransportInv'
    OBVIOUS
  <1>1. CASE UNCHANGED transportVars
    <2>1. UNCHANGED <<adapter, session, holder, calling, publisher, subs, network, arriving, sent>>
      BY <1>1 DEF transportVars, linkVars
    <2>2. TransportTypes'
      BY <2>1 DEF TransportInv, TransportTypes
    <2>3. Moving'
      BY <2>1, QuietStep DEF TransportInv, Moving
    <2>4. WaitsKept'
      BY <2>1, WaitsStay DEF TransportInv
    <2> QED BY <2>2, <2>3, <2>4 DEF TransportInv, Moving
  <1>2. ASSUME NEW t \in Sharers, TaskStep(t) PROVE TransportInv'
    <2>1. CASE OpenSession(t) \/ CloseSession(t)
      BY <2>1, OpenSessionStep, CloseSessionStep
    <2>2. CASE \/ \E k \in LinkIds \cup {AnyLink} : SubscribeTopic(t, k)
               \/ SubscribeDeferring(t) \/ SubscribeActionFeedback(t)
      <3>1. \A k \in LinkIds \cup {AnyLink} : k \in Keys \cup {AnyLink}
        BY DEF Keys
      <3>2. Feedback \in Keys \cup {AnyLink} /\ AnyLink \in Keys \cup {AnyLink}
        BY DEF Keys
      <3> QED BY <2>2, <3>1, <3>2, SubscribeStep
          DEF SubscribeTopic, SubscribeDeferring, SubscribeActionFeedback
    <2>3. CASE \/ \E k \in LinkIds, p \in Profiles : DeclareTopicPublisher(t, k, p)
               \/ DeclareActionFeedbackPublisher(t)
      <3>1. \A k \in LinkIds : k \in Keys
        BY DEF Keys
      <3>2. Feedback \in Keys
        BY DEF Keys
      <3> QED BY <2>3, <3>1, <3>2, DeclarePublisherStep
          DEF DeclareTopicPublisher, DeclareActionFeedbackPublisher
    <2>4. CASE \E k \in LinkIds, b \in BOOLEAN, p \in Profiles : PublishOnce(t, k, b, p)
      BY <2>4, PublishOnceStep
    <2>5. CASE PublishBound(t) \/ Put(t)
      BY <2>5, PublishBoundStep, PutStep
    <2>6. CASE \E i \in DOMAIN subs : RouteTo(t, i)
      BY <2>6, RouteToStep
    <2>7. CASE WaitForSubscriber(t) \/ ElsewhereChanges(t) \/ InstallListener(t) \/ EndWait(t)
      BY <2>7, WaitForSubscriberStep, ElsewhereChangesStep, InstallListenerStep, EndWaitStep
    <2>8. CASE CheckMatching(t, "check", "listen") \/ CheckMatching(t, "recheck", "parked")
      BY <2>8, CheckMatchingStep
    <2> QED BY <1>2, <2>1, <2>2, <2>3, <2>4, <2>5, <2>6, <2>7, <2>8 DEF TaskStep
  <1>3. CASE Arrive
    BY <1>3, ArriveStep
  <1>4. ASSUME NEW i \in DOMAIN subs, Callback(i) \/ NextMessage(i) \/ DropSubscription(i)
        PROVE  TransportInv'
    BY <1>4, CallbackStep, NextMessageStep, DropSubscriptionStep
  <1> QED BY <1>1, <1>2, <1>3, <1>4 DEF TransportNext

LEMMA ArrivesByInv == TransportInv => MessagesArrive
  <1> SUFFICES ASSUME TransportInv PROVE MessagesArrive
    OBVIOUS
  <1> USE DEF TransportInv
  <1>1. ASSUME NEW i \in DOMAIN subs
        PROVE  LET s == subs[i]
                   all == s.got \o s.queue
               IN  /\ s.state = "live" =>
                        \A m \in s.due : m \in Range(all) \/ Underway(m, i)
                   /\ \A j, k \in DOMAIN all :
                        j < k /\ all[j].by = all[k].by => all[j].n < all[k].n
                   /\ s.key = AnyLink /\ ~s.defers => \A m \in Range(all) : m.primary
    <2> DEFINE all == subs[i].got \o subs[i].queue
    <2>1. SubscriptionKept(i) /\ Reached(i) = all
      BY <1>1 DEF SubscriptionsKept, Reached, Whole
    <2> HIDE DEF all
    <2>2. subs[i].state = "live" => \A m \in subs[i].due : m \in Range(all) \/ Underway(m, i)
      BY <2>1 DEF SubscriptionKept
    <2>3. \A j, k \in DOMAIN all : j < k /\ all[j].by = all[k].by => all[j].n < all[k].n
      BY <2>1 DEF SubscriptionKept, InOrder
    <2>4. \A m \in Range(all) : Wants(subs[i], m)
      BY <2>1 DEF SubscriptionKept
    <2>5. subs[i].key = AnyLink /\ ~subs[i].defers => \A m \in Range(all) : m.primary
      BY <2>4 DEF Wants, DropsSecondary
    <2> QED BY <2>2, <2>3, <2>5 DEF all
  <1>2. ASSUME NEW t \in Sharers, calling[t].call = "wait", calling[t].step = "parked",
               Matched(calling[t].elsewhere, subs)
        PROVE  TRUE \in Range(calling[t].events)
    <2> DEFINE q == calling[t].events
    <2>1. q \in Seq(BOOLEAN) /\ WaitKept(t)
      BY <1>2, WaitingIs
    <2>2. q # <<>> /\ Last(q) = TRUE
      BY <1>2, <2>1 DEF WaitKept
    <2> HIDE DEF q
    <2>3. Len(q) \in Nat \ {0} /\ DOMAIN q = 1..Len(q)
      BY <2>1, <2>2, EmptySeq, LenProperties
    <2>4. Len(q) \in DOMAIN q /\ q[Len(q)] = TRUE
      BY <2>2, <2>3 DEF Last
    <2>5. TRUE \in Range(q)
      BY <2>4 DEF Range
    <2> QED BY <2>5 DEF q
  <1> HIDE DEF Underway, Matched
  <1> QED BY <1>1, <1>2 DEF MessagesArrive

(* What was promised to a subscription is read, waits in its channel or is   *)
(* on its way, once and in the order of its publisher, and a task that waits *)
(* for a subscriber is told of the one there is, however many tasks share    *)
(* the messenger, for either adapter and every size of the channels and of   *)
(* the link (route_publish of adapters/mock.rs, the callbacks and            *)
(* wait_for_matching_subscriber of adapters/zenoh.rs).                       *)
THEOREM TransportCorrect == TransportSpec => []MessagesArrive
  <1>1. TransportSpec => []TransportInv
    BY TransportBegins, TransportStep, PTL DEF TransportSpec
  <1> QED BY <1>1, ArrivesByInv, PTL

-----------------------------------------------------------------------------
(* Python's messaging objects (PyHandles)                                    *)

Handling == {"calling", "running", "returned", "failed"}

Ops == Receiving \cup Deciding \cup Sending \cup {"none"}
Ats == {"none", "waiting", "acking", "declaring", "deciding", "telling", "ended",
        "dropped"} \cup Handling
Outcomes ==
  {<<>>} \cup {Gets(i) : i \in Nat}
    \cup {Gives(a) : a \in {"None", "True", "reply", "accept", "reject"}}
    \cup {Raises(e) : e \in {"TimeoutError", "ConnectionError", "RuntimeError",
                             "ValueError"}}
CallRecords == [op : Ops, at : Ats, with : Nat, got : Outcomes]

PeerStates ==
  {"waits", "acked", "gone", "answered", "error", "accepted", "rejected", "abandoned"}

HandleTypes ==
  /\ doing \in [Tasks -> CallRecords]
  /\ future \in [Tasks -> {"none", "pending", "cancelled", "returned", "raised"}]
  /\ object \in Objects /\ over \in {"open", "closed", "gone"} /\ exiting \in BOOLEAN
  /\ queue \in Seq(Tasks) /\ unread \in Seq(Nat) /\ arrived \in Nat
  /\ peer \in [1..arrived -> PeerStates]
  /\ DOMAIN goals \subseteq 1..arrived
  /\ goals \in [DOMAIN goals -> {"held", "taken", "dropped"}]

(* How far a call may be, and what it may have in its hands.                 *)
CallShape(c) ==
  LET d == doing[c] IN
  /\ future[c] = "none" => d = NoCall
  /\ d.op = "none" => future[c] = "none"
  /\ d.at = "none" => d.op \notin Receiving \cup Deciding /\ d.with = 0
                        /\ future[c] \in {"none", "raised"}
  /\ d.at = "waiting" => d.op \in Receiving \cup Sending /\ d.with = 0
  /\ d.at = "acking" => d.op \in {"handle_next", "next_goal"} /\ d.with \in 1..arrived
  /\ d.at \in Handling => d.op = "handle_next" /\ d.with \in 1..arrived
  /\ d.at = "declaring" => d.op = "next_goal" /\ d.with \in 1..arrived
  /\ d.at \in {"deciding", "telling"} => d.op \in Deciding
  /\ d.op \in Deciding => d.with \in DOMAIN goals
                            /\ d.at \in {"deciding", "telling", "ended", "dropped"}
  /\ d.op \in Receiving => ObjectOf(d.op) = object
  /\ d.at \notin {"none", "ended", "dropped"} => d.got = <<>>
  /\ future[c] \in {"returned", "raised"} => d.at \in {"ended", "none"}
  /\ future[c] = "returned" => d.at = "ended" /\ d.got[1] # "raises"
  /\ \A i \in Nat : d.got = Gets(i) =>
       i \in 1..arrived /\ d.op \in Receiving /\ (d.op = "next_goal" => d.with = i)
  /\ d.with \in 0..arrived

TasksCalling == \A c \in Tasks : CallShape(c)

(* Whoever waits for the lock or has it still needs it, and waits once.      *)
InQueue ==
  /\ \A k \in DOMAIN queue : At(queue[k]) \in {"waiting", "acking", "declaring"}
  /\ \A k, l \in DOMAIN queue : queue[k] = queue[l] => k = l

Has(c, i) == doing[c].op \in Receiving /\ (doing[c].with = i \/ doing[c].got = Gets(i))

(* Nothing is in two hands.                                                  *)
Held ==
  /\ \A k \in DOMAIN unread : unread[k] \in 1..arrived /\ \A c \in Tasks : ~Has(c, unread[k])
  /\ \A k, l \in DOMAIN unread : k < l => unread[k] < unread[l]
  /\ \A i \in 1..arrived, c, d \in Tasks : Has(c, i) /\ Has(d, i) => c = d
  /\ \A i \in 1..arrived : \/ \E k \in DOMAIN unread : unread[k] = i
                           \/ \E c \in Tasks : Has(c, i)
                           \/ peer[i] = "gone"

Received(c, i) == doing[c].op = "next_goal" /\ doing[c].got = Gets(i)
Decides(c) ==
  /\ doing[c].op \in Deciding
  /\ At(c) = "telling" \/ (At(c) = "ended" /\ doing[c].got = Gives(doing[c].op))

(* A goal that is being decided was returned to Python; its PendingGoal is   *)
(* in the hands of one decision.                                             *)
Goals ==
  /\ \A i \in DOMAIN goals : \E c \in Tasks : Received(c, i)
  /\ \A i \in DOMAIN goals : goals[i] = "dropped" =>
       \E c \in Tasks : Received(c, i) /\ future[c] = "cancelled"
  /\ \A i \in DOMAIN goals : goals[i] = "taken" =>
       \E c \in Tasks : doing[c].op \in Deciding /\ doing[c].with = i /\ At(c) # "deciding"
  /\ \A c \in Tasks : doing[c].op \in Deciding =>
       \E d \in Tasks : Received(d, doing[c].with) /\ future[d] = "returned"
  /\ \A c \in Tasks : Decides(c) => goals[doing[c].with] = "taken"
  /\ \A c, d \in Tasks : Decides(c) /\ Decides(d) /\ doing[c].with = doing[d].with => c = d

(* What a call that has ended says.                                          *)
Said ==
  \A c \in Tasks :
    LET d == doing[c] IN d.at = "ended" =>
    /\ d.op \in Deciding => d.got \in {Gives(d.op), Raises("ValueError"), Raises("RuntimeError")}
    /\ d.op = "accept" /\ d.got = Gives("accept") => peer[d.with] = "accepted"
    /\ d.op = "reject" /\ d.got = Gives("reject") => peer[d.with] = "rejected"
    /\ d.op \in Deciding /\ d.got = Raises("ValueError") =>
         \E e \in Tasks \ {c} : doing[e].op \in Deciding /\ doing[e].with = d.with
    /\ d.op = "handle_next" /\ d.got = Gives("True") =>
         d.with \in 1..arrived /\ peer[d.with] \in {"answered", "error"}
    /\ d.op = "next_feedback" =>
         \/ \E i \in Nat : d.got = Gets(i)
         \/ over # "open"
              /\ d.got = Raises(IF over = "gone" THEN "ConnectionError" ELSE "RuntimeError")

(* Whoever has a request that was acknowledged.                              *)
Answerable(c, i) ==
  /\ doing[c].with = i
  /\ \/ Cancelled(c)
     \/ At(c) \in Handling \cup {"declaring", "telling"}
     \/ doing[c].op = "next_goal" /\ doing[c].got = Raises("RuntimeError")
     \/ Received(c, i) /\ i \in DOMAIN goals /\ goals[i] = "held"
Answering == \A i \in 1..arrived : peer[i] = "acked" => \E c \in Tasks : Answerable(c, i)

HandlesInv == HandleTypes /\ TasksCalling /\ InQueue /\ Held /\ Goals /\ Said /\ Answering

(* A step of one call.                                                       *)
Becomes(c, at, with, got) ==
  /\ doing' \in [Tasks -> CallRecords]
  /\ \A d \in Tasks : d # c => doing'[d] = doing[d]
  /\ doing'[c].op = doing[c].op /\ doing'[c].at = at
  /\ doing'[c].with = with /\ doing'[c].got = got

LEMMA CallIsRecord ==
  ASSUME HandleTypes, NEW c \in Tasks
  PROVE  /\ doing[c] \in CallRecords /\ doing[c].op \in Ops /\ doing[c].at \in Ats
         /\ doing[c].with \in Nat /\ doing[c].got \in Outcomes
  <1>1. doing[c] \in CallRecords
    BY DEF HandleTypes
  <1> QED BY <1>1 DEF CallRecords

LEMMA GoesOn ==
  ASSUME HandleTypes, NEW c \in Tasks, NEW at \in Ats,
         Goes(c, at)
  PROVE  Becomes(c, at, doing[c].with, doing[c].got)
  <1>1. doing \in [Tasks -> CallRecords] /\ doing[c] \in CallRecords
    BY CallIsRecord DEF HandleTypes
  <1>2. /\ DOMAIN doing' = Tasks /\ doing' = [d \in Tasks |-> doing'[d]]
        /\ \A d \in Tasks : d # c => doing'[d] = doing[d]
    BY <1>1 DEF Goes
  <1>3. doing'[c] = [op |-> doing[c].op, at |-> at, with |-> doing[c].with, got |-> doing[c].got]
    BY <1>1 DEF CallRecords, Goes
  <1>4. doing'[c] \in CallRecords
    BY <1>3, CallIsRecord DEF CallRecords, Ats
  <1> QED BY <1>1, <1>2, <1>3, <1>4 DEF Becomes

LEMMA EndsWith ==
  ASSUME HandleTypes, NEW c \in Tasks, NEW got \in Outcomes,
         Ends(c, got)
  PROVE  Becomes(c, "ended", doing[c].with, got)
  <1>1. doing \in [Tasks -> CallRecords] /\ doing[c] \in CallRecords
    BY CallIsRecord DEF HandleTypes
  <1>2. /\ DOMAIN doing' = Tasks /\ doing' = [d \in Tasks |-> doing'[d]]
        /\ \A d \in Tasks : d # c => doing'[d] = doing[d]
    BY <1>1 DEF Ends
  <1>3. doing'[c] = [op |-> doing[c].op, at |-> "ended", with |-> doing[c].with, got |-> got]
    BY <1>1 DEF CallRecords, Ends
  <1>4. doing'[c] \in CallRecords
    BY <1>3, CallIsRecord DEF CallRecords, Ats
  <1> QED BY <1>1, <1>2, <1>3, <1>4 DEF Becomes

LEMMA Holding ==
  ASSUME HandleTypes, NEW c \in Tasks, NEW at \in Ats, NEW with \in Nat,
         doing' = [doing EXCEPT ![c].at = at, ![c].with = with]
  PROVE  Becomes(c, at, with, doing[c].got)
  <1>1. doing \in [Tasks -> CallRecords] /\ doing[c] \in CallRecords
    BY CallIsRecord DEF HandleTypes
  <1>2. /\ DOMAIN doing' = Tasks /\ doing' = [d \in Tasks |-> doing'[d]]
        /\ \A d \in Tasks : d # c => doing'[d] = doing[d]
    BY <1>1
  <1>3. doing'[c] = [op |-> doing[c].op, at |-> at, with |-> with, got |-> doing[c].got]
    BY <1>1 DEF CallRecords
  <1>4. doing'[c] \in CallRecords
    BY <1>3, CallIsRecord DEF CallRecords, Ats
  <1> QED BY <1>1, <1>2, <1>3, <1>4 DEF Becomes

(* Each waits in the queue once, so that leaving it takes all of it out.     *)
LEMMA Left ==
  ASSUME queue \in Seq(Tasks), NEW c \in Tasks, Leave(c),
         \A k, l \in DOMAIN queue : queue[k] = queue[l] => k = l
  PROVE  /\ queue' \in Seq(Tasks)
         /\ \A k \in DOMAIN queue' : queue'[k] # c /\ \E l \in DOMAIN queue : queue[l] = queue'[k]
         /\ \A k, l \in DOMAIN queue' : queue'[k] = queue'[l] => k = l
  <1>1. CASE ~\E k \in 1..Len(queue) : queue[k] = c
    BY <1>1 DEF Leave, RemoveFirst
  <1>2. CASE \E k \in 1..Len(queue) : queue[k] = c
    <2>1. PICK at \in 1..Len(queue) : queue[at] = c
      BY <1>2
    <2>2. {k \in 1..Len(queue) : queue[k] = c} = {at}
      BY <2>1
    <2>3. SelectInSeq(queue, LAMBDA v : v = c) = at
      BY <2>2 DEF SelectInSeq, Min
    <2>4. queue' = SubSeq(queue, 1, at - 1) \o SubSeq(queue, at + 1, Len(queue))
      BY <1>2, <2>3 DEF Leave, RemoveFirst, RemoveAt
    <2>5. /\ Len(queue) \in Nat /\ at \in Nat /\ at >= 1 /\ at <= Len(queue)
          /\ \A k \in 1..Len(queue) : queue[k] \in Tasks
      BY <2>1
    <2> DEFINE p == SubSeq(queue, 1, at - 1)
               q == SubSeq(queue, at + 1, Len(queue))
    <2>6. /\ p \in Seq(Tasks) /\ Len(p) = at - 1
          /\ \A k \in 1..at - 1 : p[k] = queue[k]
      BY <2>5
    <2>7. /\ q \in Seq(Tasks) /\ Len(q) = Len(queue) - at
          /\ \A k \in 1..Len(queue) - at : q[k] = queue[at + k]
      BY <2>5
    <2> HIDE DEF p, q
    <2>8. queue' = p \o q
      BY <2>4 DEF p, q
    <2>9. queue' \in Seq(Tasks) /\ Len(queue') = Len(p) + Len(q)
      <3>1. p \o q \in Seq(Tasks) /\ Len(p \o q) = Len(p) + Len(q)
        BY <2>6, <2>7, ConcatProperties
      <3> QED BY <2>8, <3>1
    <2>10. \A k \in 1..Len(queue') : queue'[k] = IF k <= Len(p) THEN p[k] ELSE q[k - Len(p)]
      BY <2>6, <2>7, <2>8, <2>9
    <2>11. DOMAIN queue' = 1..Len(queue) - 1
      BY <2>5, <2>6, <2>7, <2>9
    <2>12. \A k \in 1..Len(queue) - 1 : k < at => queue'[k] = queue[k]
      BY <2>5, <2>6, <2>10, <2>11
    <2>13. ASSUME NEW k \in 1..Len(queue) - 1, ~(k < at) PROVE queue'[k] = queue[k + 1]
      <3>1. k - Len(p) \in 1..Len(queue) - at /\ ~(k <= Len(p)) /\ at + (k - Len(p)) = k + 1
        BY <2>5, <2>6, <2>13
      <3>2. q[k - Len(p)] = queue[k + 1]
        BY <2>7, <3>1
      <3>3. k \in 1..Len(queue')
        BY <2>5, <2>6, <2>7, <2>9
      <3>4. queue'[k] = q[k - Len(p)]
        BY <2>10, <3>1, <3>3
      <3> QED BY <3>2, <3>4
    <2>14. \A k \in DOMAIN queue' : queue'[k] # c /\ \E l \in DOMAIN queue : queue[l] = queue'[k]
      BY <2>1, <2>5, <2>11, <2>12, <2>13
    <2>15. \A k, l \in DOMAIN queue' : queue'[k] = queue'[l] => k = l
      <3> SUFFICES ASSUME NEW k \in DOMAIN queue', NEW l \in DOMAIN queue',
                          queue'[k] = queue'[l], k < l
                   PROVE  FALSE
        BY <2>11
      <3>1. CASE l < at
        BY <2>5, <2>11, <2>12, <3>1
      <3>2. CASE k < at /\ ~(l < at)
        BY <2>5, <2>11, <2>12, <2>13, <3>2
      <3>3. CASE ~(k < at)
        BY <2>5, <2>11, <2>13, <3>3
      <3> QED BY <3>1, <3>2, <3>3, <2>5, <2>11
    <2> QED BY <2>9, <2>14, <2>15
  <1> QED BY <1>1, <1>2

(* What a step leaves as it was                                              *)

LEMMA CallsStay ==
  ASSUME HandleTypes, TasksCalling, NEW c \in Tasks, arrived' \in Nat, arrived <= arrived',
         UNCHANGED object, DOMAIN goals \subseteq DOMAIN goals',
         \A d \in Tasks : d # c => doing'[d] = doing[d] /\ future'[d] = future[d],
         CallShape(c)'
  PROVE  TasksCalling'
  <1> SUFFICES ASSUME NEW d \in Tasks, d # c PROVE CallShape(d)'
    BY DEF TasksCalling
  <1>1. CallShape(d) /\ doing'[d] = doing[d] /\ future'[d] = future[d]
    BY DEF TasksCalling
  <1>2. \A n \in Nat : n \in 1..arrived => n \in 1..arrived'
    BY DEF HandleTypes
  <1>3. \A n \in Nat : n \in 0..arrived => n \in 0..arrived'
    BY DEF HandleTypes
  <1>4. doing[d].with \in Nat
    BY CallIsRecord
  <1> QED BY <1>1, <1>2, <1>3, <1>4 DEF CallShape, NoCall, Call

LEMMA QueueStays ==
  ASSUME HandleTypes, InQueue, queue' = queue,
         \A c \in Tasks : At(c) \in {"waiting", "acking", "declaring"} =>
           doing'[c].at \in {"waiting", "acking", "declaring"}
  PROVE  InQueue'
  <1>1. \A k \in DOMAIN queue : queue[k] \in Tasks
    BY DEF HandleTypes
  <1> QED BY <1>1 DEF InQueue, At

LEMMA QueueLeft ==
  ASSUME HandleTypes, InQueue, NEW c \in Tasks, Leave(c),
         \A d \in Tasks : d # c => doing'[d] = doing[d]
  PROVE  InQueue' /\ queue' \in Seq(Tasks)
  <1>1. queue \in Seq(Tasks) /\ \A k \in DOMAIN queue : queue[k] \in Tasks
    BY DEF HandleTypes
  <1>2. /\ queue' \in Seq(Tasks)
        /\ \A k \in DOMAIN queue' : queue'[k] # c /\ \E l \in DOMAIN queue : queue[l] = queue'[k]
        /\ \A k, l \in DOMAIN queue' : queue'[k] = queue'[l] => k = l
    BY <1>1, Left DEF InQueue
  <1> QED BY <1>1, <1>2 DEF InQueue, At

LEMMA HeldStays ==
  ASSUME HandleTypes, Held, UNCHANGED <<unread, arrived>>,
         \A i \in 1..arrived :
           /\ \A c \in Tasks : Has(c, i)' => Has(c, i)
           /\ (\E c \in Tasks : Has(c, i)) \/ peer[i] = "gone" =>
                (\E c \in Tasks : Has(c, i)') \/ peer'[i] = "gone"
  PROVE  Held'
  BY DEF Held

LEMMA GoalsStay ==
  ASSUME HandleTypes, Goals, UNCHANGED goals,
         \A c \in Tasks, i \in DOMAIN goals : Received(c, i) => Received(c, i)',
         \A c \in Tasks :
           /\ future[c] \in {"cancelled", "returned"} => future'[c] = future[c]
           /\ doing[c].op \in Deciding \/ doing'[c].op \in Deciding =>
                doing'[c].op = doing[c].op /\ doing'[c].with = doing[c].with
           /\ doing[c].op \in Deciding /\ At(c) # "deciding" => At(c)' # "deciding"
           /\ Decides(c)' => Decides(c),
         \A c \in Tasks : doing[c].op \in Deciding => doing[c].with \in DOMAIN goals
  PROVE  Goals'
  <1>1. \A c \in Tasks : Decides(c) => doing[c].op \in Deciding
    BY DEF Decides
  <1>2. \A c \in Tasks : Decides(c)' => doing'[c].op \in Deciding
    BY DEF Decides
  <1>3. \A i \in DOMAIN goals : \E c \in Tasks : Received(c, i)'
    BY DEF Goals
  <1>4. \A i \in DOMAIN goals : goals[i] = "dropped" =>
          \E c \in Tasks : Received(c, i)' /\ future'[c] = "cancelled"
    BY DEF Goals
  <1>5. \A i \in DOMAIN goals : goals[i] = "taken" =>
          \E c \in Tasks : doing'[c].op \in Deciding /\ doing'[c].with = i /\ At(c)' # "deciding"
    BY DEF Goals
  <1>6. \A c \in Tasks : doing'[c].op \in Deciding =>
          \E d \in Tasks : Received(d, doing[c].with)' /\ future'[d] = "returned"
    <2> SUFFICES ASSUME NEW c \in Tasks, doing'[c].op \in Deciding
                 PROVE  \E d \in Tasks : Received(d, doing[c].with)' /\ future'[d] = "returned"
      OBVIOUS
    <2>1. /\ doing[c].op \in Deciding /\ doing'[c].with = doing[c].with
          /\ doing[c].with \in DOMAIN goals
      OBVIOUS
    <2>2. PICK d \in Tasks : Received(d, doing[c].with) /\ future[d] = "returned"
      BY <2>1 DEF Goals
    <2>3. Received(d, doing[c].with)' /\ future'[d] = "returned"
      BY <2>1, <2>2 DEF Received
    <2> QED BY <2>3
  <1>7. \A c \in Tasks : Decides(c)' => goals[doing'[c].with] = "taken"
    BY <1>1, <1>2 DEF Goals
  <1>8. \A c, d \in Tasks : Decides(c)' /\ Decides(d)' /\ doing'[c].with = doing'[d].with => c = d
    BY <1>1, <1>2 DEF Goals
  <1> QED BY <1>3, <1>4, <1>5, <1>6, <1>7, <1>8 DEF Goals

LEMMA SaidStays ==
  ASSUME HandleTypes, Said, over # "open" => over' = over,
         \A i \in 1..arrived : i \in 1..arrived',
         \A c \in Tasks :
           /\ doing[c].op \in Deciding =>
                doing'[c].op = doing[c].op /\ doing'[c].with = doing[c].with
           /\ At(c)' = "ended" =>
                /\ doing'[c] = doing[c]
                /\ \/ doing[c].op \notin Deciding \cup {"handle_next"}
                   \/ doing[c].op \in Deciding /\ doing[c].got # Gives(doing[c].op)
                   \/ doing[c].op = "handle_next" /\ doing[c].got # Gives("True")
                   \/ peer'[doing[c].with] = peer[doing[c].with]
  PROVE  Said'
  <1> SUFFICES ASSUME NEW c \in Tasks, doing'[c].at = "ended"
               PROVE  /\ doing'[c].op \in Deciding =>
                           doing'[c].got \in {Gives(doing'[c].op), Raises("ValueError"),
                                              Raises("RuntimeError")}
                      /\ doing'[c].op = "accept" /\ doing'[c].got = Gives("accept") =>
                           peer'[doing'[c].with] = "accepted"
                      /\ doing'[c].op = "reject" /\ doing'[c].got = Gives("reject") =>
                           peer'[doing'[c].with] = "rejected"
                      /\ doing'[c].op \in Deciding /\ doing'[c].got = Raises("ValueError") =>
                           \E e \in Tasks \ {c} : doing'[e].op \in Deciding
                                                    /\ doing'[e].with = doing'[c].with
                      /\ doing'[c].op = "handle_next" /\ doing'[c].got = Gives("True") =>
                           doing'[c].with \in 1..arrived'
                             /\ peer'[doing'[c].with] \in {"answered", "error"}
                      /\ doing'[c].op = "next_feedback" =>
                           \/ \E i \in Nat : doing'[c].got = Gets(i)
                           \/ over' # "open"
                                /\ doing'[c].got = Raises(IF over' = "gone" THEN "ConnectionError"
                                                          ELSE "RuntimeError")
    BY DEF Said
  <1>1. doing'[c] = doing[c] /\ doing[c].at = "ended"
    BY DEF At
  <1>2. \/ doing[c].op \notin Deciding \cup {"handle_next"}
        \/ doing[c].op \in Deciding /\ doing[c].got # Gives(doing[c].op)
        \/ doing[c].op = "handle_next" /\ doing[c].got # Gives("True")
        \/ peer'[doing[c].with] = peer[doing[c].with]
    BY DEF At
  <1>3. "accept" \in Deciding /\ "reject" \in Deciding /\ "handle_next" \notin Deciding
    BY DEF Deciding
  <1> HIDE DEF Deciding, Gets, Gives, Raises
  <1> QED BY <1>1, <1>2, <1>3 DEF Said

LEMMA AnsweringStays ==
  ASSUME HandleTypes, Answering, UNCHANGED arrived,
         \A i \in 1..arrived : peer'[i] = "acked" => peer[i] = "acked",
         \A c \in Tasks, i \in 1..arrived :
           peer'[i] = "acked" /\ Answerable(c, i) => \E d \in Tasks : Answerable(d, i)'
  PROVE  Answering'
  BY DEF Answering

LEMMA OutcomesDiffer ==
  /\ \A i : Gets(i) # <<>>
  /\ \A a : Gives(a) # <<>>
  /\ \A e : Raises(e) # <<>>
  /\ \A a, i : Gives(a) # Gets(i)
  /\ \A e, i : Raises(e) # Gets(i)
  /\ \A a, e : Gives(a) # Raises(e)
  /\ \A i, j : Gets(i) = Gets(j) => i = j
  /\ \A a, b : Gives(a) = Gives(b) => a = b
  /\ \A e, f : Raises(e) = Raises(f) => e = f
  <1>1. \A i : Gets(i) # <<>>
    BY DEF Gets
  <1>2. \A a : Gives(a) # <<>>
    BY DEF Gives
  <1>3. \A e : Raises(e) # <<>>
    BY DEF Raises
  <1>4. \A a, i : Gives(a) # Gets(i)
    BY DEF Gives, Gets
  <1>5. \A e, i : Raises(e) # Gets(i)
    BY DEF Raises, Gets
  <1>6. \A a, e : Gives(a) # Raises(e)
    BY DEF Raises, Gives
  <1>7. \A i, j : Gets(i) = Gets(j) => i = j
    BY DEF Gets
  <1>8. \A a, b : Gives(a) = Gives(b) => a = b
    BY DEF Gives
  <1>9. \A e, f : Raises(e) = Raises(f) => e = f
    BY DEF Raises
  <1> QED BY <1>1, <1>2, <1>3, <1>4, <1>5, <1>6, <1>7, <1>8, <1>9

LEMMA CallIsUnderWay ==
  ASSUME HandleTypes, NEW c \in Tasks, CallShape(c), At(c) \notin {"none", "ended", "dropped"}
  PROVE  future[c] \in {"pending", "cancelled"} /\ doing[c].op # "none" /\ doing[c].got = <<>>
  BY DEF HandleTypes, CallShape, At, NoCall, Call

(* A request or a goal that a call has in its hands is in no other's.        *)
LEMMA InOneHand ==
  ASSUME HandleTypes, TasksCalling, Held, Goals, NEW c \in Tasks,
         At(c) \in {"acking", "declaring"} \cup Handling
  PROVE  /\ doing[c].with \in 1..arrived /\ doing[c].with \notin DOMAIN goals
         /\ \A d \in Tasks : d # c /\ doing[d].op \in Deciding \cup {"handle_next"} =>
              doing[d].with # doing[c].with
  <1>1. /\ doing[c].with \in 1..arrived /\ doing[c].op \in Receiving /\ doing[c].got = <<>>
        /\ doing[c].with \in Nat
    BY DEF TasksCalling, CallShape, At, Handling, Receiving
  <1>2. \A d \in Tasks : Has(d, doing[c].with) => d = c
    BY <1>1 DEF Held, Has
  <1>3. \A d \in Tasks : ~Received(d, doing[c].with)
    <2> SUFFICES ASSUME NEW d \in Tasks, Received(d, doing[c].with) PROVE FALSE
      OBVIOUS
    <2>1. Has(d, doing[c].with)
      BY DEF Received, Has, Receiving
    <2>2. \A n \in Nat : <<>> # Gets(n)
      BY DEF Gets
    <2> QED BY <1>1, <1>2, <2>1, <2>2 DEF Received
  <1>4. doing[c].with \notin DOMAIN goals
    BY <1>3 DEF Goals
  <1>5. ASSUME NEW d \in Tasks, d # c, doing[d].op \in Deciding \cup {"handle_next"}
        PROVE  doing[d].with # doing[c].with
    <2>1. CASE doing[d].op \in Deciding
      BY <2>1, <1>4 DEF TasksCalling, CallShape
    <2>2. CASE doing[d].op = "handle_next"
      BY <2>2, <1>2, <1>5 DEF Has, Receiving
    <2> QED BY <1>5, <2>1, <2>2
  <1> QED BY <1>1, <1>4, <1>5

(* A step of one call that takes nothing and keeps what it has, and tells    *)
(* nobody anything but the one whose request it has.                         *)
LEMMA CallMoves ==
  ASSUME HandlesInv, NEW c \in Tasks, NEW at \in Ats, NEW got \in Outcomes,
         Becomes(c, at, doing[c].with, got), doing[c].op \notin Deciding,
         InQueue', queue' \in Seq(Tasks), CallShape(c)', doing[c].got = <<>>,
         UNCHANGED <<future, object, unread, over, arrived, goals, exiting>>,
         peer' \in [1..arrived -> PeerStates],
         \A i \in 1..arrived : i # doing[c].with => peer'[i] = peer[i],
         peer' = peer \/ At(c) \in {"acking"} \cup Handling,
         \/ peer' = peer /\ At(c) \notin Handling \cup {"declaring"}
         \/ at \in Handling \cup {"declaring"} \/ exiting \/ peer'[doing[c].with] # "acked"
         \/ doing[c].op = "next_goal" /\ got = Raises("RuntimeError"),
         \A i \in Nat : got # Gets(i),
         at = "ended" =>
           /\ doing[c].op = "handle_next" /\ got = Gives("True") =>
                doing[c].with \in 1..arrived /\ peer'[doing[c].with] \in {"answered", "error"}
           /\ doing[c].op = "next_feedback" =>
                over # "open"
                  /\ got = Raises(IF over = "gone" THEN "ConnectionError" ELSE "RuntimeError")
  PROVE  HandlesInv'
  <1>0. HandleTypes /\ TasksCalling /\ InQueue /\ Held /\ Goals /\ Said /\ Answering
    BY DEF HandlesInv
  <1>1. /\ doing' \in [Tasks -> CallRecords]
        /\ \A d \in Tasks : d # c => doing'[d] = doing[d]
        /\ doing'[c].op = doing[c].op /\ doing'[c].at = at
        /\ doing'[c].with = doing[c].with /\ doing'[c].got = got
    BY DEF Becomes
  <1>2. HandleTypes'
    BY <1>0, <1>1 DEF HandleTypes, PeerStates
  <1>3. TasksCalling'
    <2>1. /\ arrived' \in Nat /\ arrived <= arrived' /\ UNCHANGED object
          /\ DOMAIN goals \subseteq DOMAIN goals'
          /\ \A d \in Tasks : d # c => doing'[d] = doing[d] /\ future'[d] = future[d]
      BY <1>0, <1>1 DEF HandleTypes
    <2> QED BY <1>0, <2>1, CallsStay
  <1>4. \A d \in Tasks, i \in Nat : Has(d, i)' <=> Has(d, i)
    <2> SUFFICES ASSUME NEW d \in Tasks, NEW i \in Nat PROVE Has(d, i)' <=> Has(d, i)
      OBVIOUS
    <2>1. doing[c].got # Gets(i) /\ doing'[c].got # Gets(i)
      BY <1>1 DEF Gets
    <2> QED BY <1>1, <2>1 DEF Has
  <1>5. Held'
    <2>1. \A i \in 1..arrived : i \in Nat
      OBVIOUS
    <2>2. ASSUME NEW i \in 1..arrived, (\E d \in Tasks : Has(d, i)) \/ peer[i] = "gone"
          PROVE  (\E d \in Tasks : Has(d, i)') \/ peer'[i] = "gone"
      <3>1. CASE \E d \in Tasks : Has(d, i)
        BY <1>4, <2>1, <3>1
      <3>2. CASE peer' = peer
        BY <1>4, <2>1, <2>2, <3>2
      <3>3. CASE At(c) \in {"acking"} \cup Handling /\ i = doing[c].with
        <4>1. Has(c, i)
          BY <1>0, <3>3 DEF Has, TasksCalling, CallShape, At, Receiving
        <4> QED BY <1>4, <2>1, <4>1
      <3> QED BY <2>2, <3>1, <3>2, <3>3
    <2> QED BY <1>0, <1>4, <2>1, <2>2, HeldStays
  <1>6. \A d \in Tasks, i \in Nat : Received(d, i)' <=> Received(d, i)
    <2> SUFFICES ASSUME NEW d \in Tasks, NEW i \in Nat PROVE Received(d, i)' <=> Received(d, i)
      OBVIOUS
    <2>1. doing[c].got # Gets(i) /\ doing'[c].got # Gets(i)
      BY <1>1 DEF Gets
    <2> QED BY <1>1, <2>1 DEF Received
  <1>7. \A d \in Tasks : Decides(d)' <=> Decides(d)
    BY <1>1 DEF Decides, At
  <1>8. \A d \in Tasks : doing[d].op \in Deciding => doing[d].with \in DOMAIN goals
    BY <1>0 DEF TasksCalling, CallShape
  <1>9. \A i \in DOMAIN goals : i \in Nat
    BY <1>0 DEF HandleTypes
  <1>10. Goals'
    BY <1>0, <1>1, <1>6, <1>7, <1>8, <1>9, GoalsStay DEF At
  <1>11. Said'
    <2>0. ASSUME NEW d \in Tasks, d # c, doing[d].op \in Deciding \cup {"handle_next"}, At(d) = "ended",
                 doing[d].op = "handle_next" => doing[d].got = Gives("True")
          PROVE  peer'[doing[d].with] = peer[doing[d].with]
      <3>1. CASE peer' = peer
        BY <3>1
      <3>2. CASE At(c) \in {"acking"} \cup Handling
        <4>1. doing[d].with # doing[c].with
          BY <1>0, <2>0, <3>2, InOneHand
        <4>2. doing[d].with \in 0..arrived /\ DOMAIN peer = 1..arrived /\ DOMAIN peer' = 1..arrived
          BY <1>0 DEF TasksCalling, CallShape, HandleTypes
        <4>3. doing[d].with # 0
          BY <1>0, <2>0 DEF Said, TasksCalling, CallShape, At, HandleTypes
        <4> QED BY <4>1, <4>2, <4>3
      <3> QED BY <3>1, <3>2
    <2>1. CASE at # "ended"
      BY <1>0, <1>1, <2>0, <2>1, SaidStays DEF At
    <2>2. CASE at = "ended"
      <3> HIDE DEF Deciding, Gets, Gives, Raises
      <3>1. {"accept", "reject"} \subseteq Deciding
        BY DEF Deciding
      <3> QED BY <1>0, <1>1, <2>0, <2>2, <3>1 DEF Said, At
    <2> QED BY <2>1, <2>2
  <1>12. Answering'
    <2> SUFFICES ASSUME NEW i \in 1..arrived, peer'[i] = "acked"
                 PROVE  \E d \in Tasks : Answerable(d, i)'
      BY DEF Answering
    <2>0. ASSUME NEW d \in Tasks, d # c, Answerable(d, i) PROVE Answerable(d, i)'
      BY <1>1, <2>0 DEF Answerable, Cancelled, At, Received
    <2>1. CASE i # doing[c].with
      <3>1. PICK d \in Tasks : Answerable(d, i)
        BY <1>0, <2>1 DEF Answering
      <3>2. d # c
        BY <2>1, <3>1 DEF Answerable
      <3> QED BY <2>0, <3>1, <3>2
    <2>2. CASE i = doing[c].with
      <3>1. ~Received(c, i) /\ doing[c].got # Raises("RuntimeError")
        BY DEF Received, Gets, Raises
      <3>2. CASE peer' = peer /\ At(c) \notin Handling \cup {"declaring"}
        <4>1. PICK d \in Tasks : Answerable(d, i)
          BY <1>0, <3>2 DEF Answering
        <4>2. CASE d = c
          <5>1. At(c) # "telling"
            BY <1>0 DEF TasksCalling, CallShape, At
          <5> QED BY <1>1, <3>1, <3>2, <4>1, <4>2, <5>1 DEF Answerable, Cancelled
        <4> QED BY <2>0, <4>1, <4>2
      <3>3. CASE \/ at \in Handling \cup {"declaring"} \/ exiting
                 \/ doing[c].op = "next_goal" /\ got = Raises("RuntimeError")
        BY <1>1, <2>2, <3>3 DEF Answerable, Cancelled, At
      <3> QED BY <2>2, <3>2, <3>3
    <2> QED BY <2>1, <2>2
  <1> QED BY <1>2, <1>3, InQueue', <1>5, <1>10, <1>11, <1>12 DEF HandlesInv

LEMMA CallHandlerStep ==
  ASSUME HandlesInv, NEW c \in Tasks, CallHandler(c) PROVE HandlesInv'
  <1>0. HandleTypes /\ CallShape(c) /\ InQueue
    BY DEF HandlesInv, TasksCalling
  <1>1. /\ doing[c].op = "handle_next" /\ doing[c].got = <<>> /\ doing[c].with \in 1..arrived
        /\ future[c] \in {"pending", "cancelled"}
    BY <1>0, CallIsUnderWay DEF CallShape, CallHandler, At, Handling
  <1>2. InQueue' /\ queue' \in Seq(Tasks)
    <2>1. At(c) \notin {"waiting", "acking", "declaring"}
      BY DEF CallHandler
    <2>2. \A d \in Tasks : d # c => doing'[d] = doing[d]
      BY <1>0 DEF CallHandler, Goes, Ends, HandleTypes
    <2> QED BY <1>0, <2>1, <2>2, QueueStays DEF CallHandler, HandleTypes, At
  <1>3. CASE exiting
    <2>1. Gives("None") \in Outcomes /\ "ended" \in Ats
      BY DEF Outcomes, Ats
    <2>2. Becomes(c, "ended", doing[c].with, Gives("None"))
      BY <1>0, <1>3, <2>1, EndsWith DEF CallHandler
    <2>3. CallShape(c)'
      BY <1>0, <1>1, <2>2 DEF CallHandler, CallShape, Becomes, Gives, Gets, At, Handling, Deciding, Receiving
    <2>4. doing[c].op \notin Deciding /\ \A i \in Nat : Gives("None") # Gets(i)
      BY <1>1 DEF Deciding, Gives, Gets
    <2>5. Gives("None") # Gives("True")
      BY DEF Gives
    <2>6. peer' \in [1..arrived -> PeerStates]
      BY <1>0 DEF CallHandler, HandleTypes
    <2> QED BY <1>1, <1>2, <1>3, <2>1, <2>2, <2>3, <2>4, <2>5, <2>6, CallMoves DEF CallHandler
  <1>4. CASE ~exiting
    <2>1. PICK at \in {"running", "returned", "failed"} : Goes(c, at)
      BY <1>4 DEF CallHandler
    <2>2. Becomes(c, at, doing[c].with, <<>>) /\ at \in Ats
      BY <1>0, <1>1, <2>1, GoesOn DEF Ats, Handling
    <2>3. CallShape(c)'
      BY <1>0, <1>1, <2>2 DEF CallHandler, CallShape, Becomes, At, Handling, Deciding, Receiving
    <2>4. doing[c].op \notin Deciding /\ \A i \in Nat : <<>> # Gets(i)
      BY <1>1 DEF Deciding, Gets
    <2>5. <<>> \in Outcomes /\ at # "ended" /\ at \in Handling
      BY <2>1 DEF Outcomes, Handling
    <2>6. peer' \in [1..arrived -> PeerStates]
      BY <1>0 DEF CallHandler, HandleTypes
    <2> QED BY <1>1, <1>2, <2>2, <2>3, <2>4, <2>5, <2>6, CallMoves DEF CallHandler
  <1> QED BY <1>3, <1>4

LEMMA HandlerEndsStep ==
  ASSUME HandlesInv, NEW c \in Tasks, HandlerEnds(c) PROVE HandlesInv'
  <1>0. HandleTypes /\ CallShape(c) /\ InQueue
    BY DEF HandlesInv, TasksCalling
  <1>1. /\ doing[c].op = "handle_next" /\ doing[c].got = <<>> /\ doing[c].with \in 1..arrived
        /\ future[c] \in {"pending", "cancelled"}
    BY <1>0, CallIsUnderWay DEF CallShape, HandlerEnds, At, Handling
  <1>2. PICK at \in {"returned", "failed"} : Goes(c, at)
    BY DEF HandlerEnds
  <1>3. Becomes(c, at, doing[c].with, <<>>) /\ at \in Ats
    BY <1>0, <1>1, <1>2, GoesOn DEF Ats, Handling
  <1>4. InQueue' /\ queue' \in Seq(Tasks)
    <2>1. At(c) \notin {"waiting", "acking", "declaring"}
      BY DEF HandlerEnds
    <2> QED BY <1>0, <1>3, <2>1, QueueStays DEF HandlerEnds, HandleTypes, At, Becomes
  <1>5. CallShape(c)'
    BY <1>0, <1>1, <1>3 DEF HandlerEnds, CallShape, Becomes, At, Handling, Deciding, Receiving
  <1>6. doing[c].op \notin Deciding /\ \A i \in Nat : <<>> # Gets(i)
    BY <1>1 DEF Deciding, Gets
  <1>7. <<>> \in Outcomes /\ at # "ended" /\ at \in Handling
    BY <1>2 DEF Outcomes, Handling
  <1>8. peer' \in [1..arrived -> PeerStates]
    BY <1>0 DEF HandlerEnds, HandleTypes
  <1> QED BY <1>1, <1>3, <1>4, <1>5, <1>6, <1>7, <1>8, CallMoves DEF HandlerEnds

LEMMA SendEndsStep ==
  ASSUME HandlesInv, NEW c \in Tasks, SendEnds(c) PROVE HandlesInv'
  <1>0. HandleTypes /\ CallShape(c) /\ InQueue
    BY DEF HandlesInv, TasksCalling
  <1>1. /\ doing[c].op \in Sending /\ doing[c].got = <<>> /\ doing[c].with = 0
        /\ future[c] \in {"pending", "cancelled"}
    BY <1>0, CallIsUnderWay DEF CallShape, SendEnds, At
  <1>2. PICK got \in {Gives("reply"), Raises("TimeoutError"), Raises("ConnectionError")} :
          Ends(c, got)
    BY DEF SendEnds, PyError
  <1>3. got \in Outcomes
    BY <1>2 DEF Outcomes
  <1>4. Becomes(c, "ended", doing[c].with, got)
    BY <1>0, <1>2, <1>3, EndsWith
  <1>5. InQueue' /\ queue' \in Seq(Tasks)
    BY <1>0, <1>4, QueueLeft DEF SendEnds, Becomes
  <1>6. /\ doing[c].op \notin Deciding \cup {"handle_next", "next_goal", "next_feedback"}
        /\ got # <<>> /\ \A i \in Nat : got # Gets(i)
    BY <1>1, <1>2, OutcomesDiffer DEF Deciding, Sending
  <1>7. CallShape(c)'
    BY <1>0, <1>1, <1>4, <1>6 DEF SendEnds, CallShape, Becomes, At, Handling, Deciding, Sending
  <1>8. peer' \in [1..arrived -> PeerStates] /\ "ended" \in Ats
    BY <1>0 DEF SendEnds, HandleTypes, Ats
  <1>9. At(c) \notin Handling \cup {"declaring"}
    BY DEF SendEnds, Handling
  <1> QED BY <1>1, <1>3, <1>4, <1>5, <1>6, <1>7, <1>8, <1>9, CallMoves DEF SendEnds

LEMMA FindsEndStep ==
  ASSUME HandlesInv, NEW c \in Tasks, FindsEnd(c) PROVE HandlesInv'
  <1>0. HandleTypes /\ CallShape(c) /\ InQueue
    BY DEF HandlesInv, TasksCalling
  <1>1. /\ doing[c].op \in Receiving /\ doing[c].got = <<>> /\ doing[c].with = 0
        /\ future[c] \in {"pending", "cancelled"} /\ ObjectOf(doing[c].op) = object
    BY <1>0, CallIsUnderWay DEF CallShape, FindsEnd, At
  <1>2. AtEnd = IF object # "goal_handle" THEN Gives("None")
                ELSE Raises(IF over = "gone" THEN "ConnectionError" ELSE "RuntimeError")
    BY <1>0 DEF AtEnd, PyError, FindsEnd, HandleTypes
  <1>3. AtEnd \in Outcomes
    BY <1>2 DEF Outcomes
  <1>4. Becomes(c, "ended", doing[c].with, AtEnd)
    BY <1>0, <1>3, EndsWith DEF FindsEnd
  <1>5. InQueue' /\ queue' \in Seq(Tasks)
    BY <1>0, <1>4, QueueLeft DEF FindsEnd, Becomes
  <1>6. /\ doing[c].op \notin Deciding
        /\ AtEnd # <<>> /\ AtEnd # Gives("True") /\ \A i \in Nat : AtEnd # Gets(i)
    BY <1>1, <1>2 DEF Deciding, Receiving, Gets, Gives, Raises
  <1>7. CallShape(c)'
    BY <1>0, <1>1, <1>4, <1>6 DEF FindsEnd, CallShape, Becomes, At, Handling, Deciding, Receiving
  <1>8. peer' \in [1..arrived -> PeerStates] /\ "ended" \in Ats
    BY <1>0 DEF FindsEnd, HandleTypes, Ats
  <1>9. At(c) \notin Handling \cup {"declaring"}
    BY DEF FindsEnd, Handling
  <1>10. doing[c].op = "next_feedback" =>
           over # "open"
             /\ AtEnd = Raises(IF over = "gone" THEN "ConnectionError" ELSE "RuntimeError")
    BY <1>1, <1>2 DEF ObjectOf, FindsEnd
  <1> QED BY <1>1, <1>3, <1>4, <1>5, <1>6, <1>7, <1>8, <1>9, <1>10, CallMoves DEF FindsEnd

LEMMA AnswerPeerStep ==
  ASSUME HandlesInv, NEW c \in Tasks, AnswerPeer(c) PROVE HandlesInv'
  <1>0. HandleTypes /\ CallShape(c) /\ InQueue
    BY DEF HandlesInv, TasksCalling
  <1>1. /\ doing[c].op = "handle_next" /\ doing[c].got = <<>> /\ doing[c].with \in 1..arrived
        /\ future[c] \in {"pending", "cancelled"} /\ At(c) \in Handling
    BY <1>0, CallIsUnderWay DEF CallShape, AnswerPeer, At, Handling
  <1>2. PICK got \in {Gives("True"), Raises("RuntimeError")}, what \in {"answered", "error", "gone"} :
          /\ Ends(c, got) /\ PeerTold(doing[c].with, what)
          /\ got = Gives("True") => what \in {"answered", "error"}
    BY DEF AnswerPeer, PyError, ReplyTo, Gives, Raises
  <1>3. got \in Outcomes
    BY <1>2 DEF Outcomes
  <1>4. Becomes(c, "ended", doing[c].with, got)
    BY <1>0, <1>2, <1>3, EndsWith
  <1>5. InQueue' /\ queue' \in Seq(Tasks)
    <2>1. At(c) \notin {"waiting", "acking", "declaring"}
      BY <1>1 DEF Handling
    <2> QED BY <1>0, <1>4, <2>1, QueueStays DEF AnswerPeer, HandleTypes, At, Becomes
  <1>6. /\ doing[c].op \notin Deciding
        /\ got # <<>> /\ \A i \in Nat : got # Gets(i)
    BY <1>1, <1>2, OutcomesDiffer DEF Deciding
  <1>7. CallShape(c)'
    BY <1>0, <1>1, <1>4, <1>6 DEF AnswerPeer, CallShape, Becomes, At, Handling, Deciding, Receiving
  <1>8. /\ peer' \in [1..arrived -> PeerStates] /\ "ended" \in Ats
        /\ peer'[doing[c].with] = what /\ what # "acked"
        /\ \A i \in 1..arrived : i # doing[c].with => peer'[i] = peer[i]
    BY <1>0, <1>1, <1>2 DEF PeerTold, HandleTypes, Ats, PeerStates
  <1> QED BY <1>1, <1>2, <1>3, <1>4, <1>5, <1>6, <1>7, <1>8, CallMoves DEF AnswerPeer

LEMMA AcknowledgeStep ==
  ASSUME HandlesInv, NEW c \in Tasks, Acknowledge(c), PeerTold(doing[c].with, "acked")
  PROVE  HandlesInv'
  <1>0. HandleTypes /\ CallShape(c) /\ InQueue
    BY DEF HandlesInv, TasksCalling
  <1>1. /\ doing[c].op \in {"handle_next", "next_goal"} /\ doing[c].got = <<>>
        /\ doing[c].with \in 1..arrived /\ At(c) = "acking"
        /\ future[c] \in {"pending", "cancelled"}
    BY <1>0, CallIsUnderWay DEF CallShape, Acknowledge, At
  <1>2. /\ peer' \in [1..arrived -> PeerStates] /\ peer'[doing[c].with] = "acked"
        /\ \A i \in 1..arrived : i # doing[c].with => peer'[i] = peer[i]
    BY <1>0, <1>1 DEF PeerTold, HandleTypes, PeerStates
  <1>3. /\ UNCHANGED <<future, object, unread, over, arrived, goals, exiting>>
        /\ IF doing[c].op = "handle_next" THEN Goes(c, "calling") /\ Leave(c)
           ELSE Goes(c, "declaring") /\ UNCHANGED queue
    <2>1. ~PeerTold(doing[c].with, "gone")
      BY <1>0, <1>1, <1>2 DEF PeerTold, HandleTypes
    <2> QED BY <2>1 DEF Acknowledge
  <1>4. /\ doing[c].op \notin Deciding /\ \A i \in Nat : <<>> # Gets(i)
        /\ <<>> \in Outcomes
    BY <1>1, OutcomesDiffer DEF Deciding, Outcomes
  <1>5. CASE doing[c].op = "handle_next"
    <2>1. Becomes(c, "calling", doing[c].with, <<>>) /\ "calling" \in Ats
      BY <1>0, <1>1, <1>3, <1>5, GoesOn DEF Ats, Handling
    <2>2. InQueue' /\ queue' \in Seq(Tasks)
      BY <1>0, <1>3, <1>5, <2>1, QueueLeft DEF Becomes
    <2>3. CallShape(c)'
      BY <1>0, <1>1, <1>3, <1>5, <2>1 DEF CallShape, Becomes, At, Handling, Deciding, Receiving
    <2>4. "calling" \in Handling /\ "calling" # "ended"
      BY DEF Handling
    <2> QED BY <1>1, <1>2, <1>3, <1>4, <2>1, <2>2, <2>3, <2>4, CallMoves
  <1>6. CASE doing[c].op = "next_goal"
    <2>1. Becomes(c, "declaring", doing[c].with, <<>>) /\ "declaring" \in Ats
      BY <1>0, <1>1, <1>3, <1>6, GoesOn DEF Ats, Handling
    <2>2. InQueue' /\ queue' \in Seq(Tasks)
      BY <1>0, <1>1, <1>3, <1>6, <2>1, QueueStays DEF HandleTypes, At, Becomes
    <2>3. CallShape(c)'
      BY <1>0, <1>1, <1>3, <1>6, <2>1 DEF CallShape, Becomes, At, Handling, Deciding, Receiving
    <2> QED BY <1>1, <1>2, <1>3, <1>4, <2>1, <2>2, <2>3, CallMoves
  <1> QED BY <1>1, <1>5, <1>6

(* A goal whose envelope is none is dropped, and the call fails.             *)
LEMMA DeclareFails ==
  ASSUME HandlesInv, NEW c \in Tasks, Declare(c), UNCHANGED goals,
         Ends(c, Raises("RuntimeError"))
  PROVE  HandlesInv'
  <1>0. HandleTypes /\ CallShape(c) /\ InQueue
    BY DEF HandlesInv, TasksCalling
  <1>1. /\ doing[c].op = "next_goal" /\ doing[c].got = <<>> /\ doing[c].with \in 1..arrived
        /\ future[c] \in {"pending", "cancelled"} /\ At(c) = "declaring"
    BY <1>0, CallIsUnderWay DEF CallShape, Declare, At, Handling
  <1>3. Raises("RuntimeError") \in Outcomes /\ "ended" \in Ats
    BY DEF Outcomes, Ats
  <1>4. Becomes(c, "ended", doing[c].with, Raises("RuntimeError"))
    BY <1>0, <1>3, EndsWith
  <1>5. InQueue' /\ queue' \in Seq(Tasks)
    BY <1>0, <1>4, QueueLeft DEF Declare, Becomes
  <1>6. /\ doing[c].op \notin Deciding
        /\ \A i \in Nat : Raises("RuntimeError") # Gets(i)
        /\ Raises("RuntimeError") # Gives("True") /\ Raises("RuntimeError") # <<>>
    BY <1>1, OutcomesDiffer DEF Deciding
  <1>7. CallShape(c)'
    BY <1>0, <1>1, <1>4, <1>6 DEF Declare, CallShape, Becomes, At, Handling, Deciding, Receiving
  <1>8. peer' \in [1..arrived -> PeerStates]
    BY <1>0 DEF Declare, HandleTypes
  <1> QED BY <1>1, <1>3, <1>4, <1>5, <1>6, <1>7, <1>8, CallMoves DEF Declare

(* The sender is gone before it could be told: the next one is waited for.   *)
LEMMA AcknowledgeFails ==
  ASSUME HandlesInv, NEW c \in Tasks, Acknowledge(c), ~PeerTold(doing[c].with, "acked")
  PROVE  HandlesInv'
  <1>0. /\ HandleTypes /\ TasksCalling /\ InQueue /\ Held /\ Goals /\ Said /\ Answering
        /\ CallShape(c)
    BY DEF HandlesInv, TasksCalling
  <1>1. /\ doing[c].op \in {"handle_next", "next_goal"} /\ doing[c].got = <<>>
        /\ doing[c].with \in 1..arrived /\ At(c) = "acking"
        /\ future[c] \in {"pending", "cancelled"}
    BY <1>0, CallIsUnderWay DEF CallShape, Acknowledge, At
  <1>2. /\ PeerTold(doing[c].with, "gone")
        /\ doing' = [doing EXCEPT ![c].at = "waiting", ![c].with = 0]
        /\ UNCHANGED <<queue, goals, future, object, unread, over, arrived, exiting>>
    BY DEF Acknowledge
  <1>3. /\ peer' \in [1..arrived -> PeerStates] /\ peer'[doing[c].with] = "gone"
        /\ \A i \in 1..arrived : i # doing[c].with => peer'[i] = peer[i]
    BY <1>0, <1>1, <1>2 DEF PeerTold, HandleTypes, PeerStates
  <1>4. /\ doing' \in [Tasks -> CallRecords]
        /\ \A d \in Tasks : d # c => doing'[d] = doing[d]
        /\ doing'[c].op = doing[c].op /\ doing'[c].at = "waiting"
        /\ doing'[c].with = 0 /\ doing'[c].got = <<>>
    <2>1. "waiting" \in Ats /\ 0 \in Nat
      BY DEF Ats
    <2>2. Becomes(c, "waiting", 0, doing[c].got)
      BY <1>0, <1>2, <2>1, Holding
    <2> QED BY <1>1, <2>2 DEF Becomes
  <1>5. HandleTypes'
    BY <1>0, <1>2, <1>3, <1>4 DEF HandleTypes
  <1>6. TasksCalling'
    <2>1. CallShape(c)'
      BY <1>0, <1>1, <1>2, <1>4, OutcomesDiffer
         DEF CallShape, Deciding, Receiving, Handling, HandleTypes
    <2> QED BY <1>0, <1>2, <1>4, <2>1, CallsStay DEF HandleTypes
  <1>7. InQueue'
    BY <1>0, <1>2, <1>4, QueueStays DEF At
  <1>8. \A i \in 1..arrived : ~Has(c, i)'
    BY <1>4, OutcomesDiffer DEF Has
  <1>9. \A i \in 1..arrived : Has(c, i) => i = doing[c].with
    BY <1>1, OutcomesDiffer DEF Has
  <1>10. \A i \in 1..arrived, d \in Tasks : d # c => (Has(d, i)' <=> Has(d, i))
    BY <1>4 DEF Has
  <1>11. Held'
    BY <1>0, <1>2, <1>3, <1>8, <1>9, <1>10, HeldStays
  <1>12. \A d \in Tasks : doing[d].op \in Deciding => doing[d].with \in DOMAIN goals
    BY <1>0 DEF TasksCalling, CallShape
  <1>13. c \in Tasks /\ doing[c].op \notin Deciding
    BY <1>1 DEF Deciding
  <1>14. \A d \in Tasks : Decides(d)' => Decides(d)
    BY <1>4, <1>13 DEF Decides, At
  <1>15. \A d \in Tasks, i \in DOMAIN goals : Received(d, i) => Received(d, i)'
    BY <1>1, <1>4, OutcomesDiffer DEF Received
  <1>16. Goals'
    BY <1>0, <1>2, <1>4, <1>12, <1>13, <1>14, <1>15, GoalsStay DEF At
  <1>17. Said'
    <2>1. ASSUME NEW d \in Tasks, At(d)' = "ended",
                 doing[d].op \in Deciding \/ (doing[d].op = "handle_next" /\ doing[d].got = Gives("True"))
          PROVE  peer'[doing[d].with] = peer[doing[d].with]
      <3>1. d # c
        BY <1>4, <2>1 DEF At
      <3>2. doing[d].with # doing[c].with
        BY <1>0, <1>1, <2>1, <3>1, InOneHand
      <3>3. At(d) = "ended"
        BY <1>4, <2>1, <3>1 DEF At
      <3>4. doing[d].with \in 1..arrived
        BY <1>0, <1>12, <2>1, <3>3 DEF Said, At, HandleTypes
      <3> QED BY <1>3, <3>2, <3>4
    <2>2. \A d \in Tasks : At(d)' = "ended" => doing'[d] = doing[d]
      BY <1>4 DEF At
    <2>3. \A d \in Tasks : doing[d].op \in Deciding =>
            doing'[d].op = doing[d].op /\ doing'[d].with = doing[d].with
      BY <1>4, <1>13
    <2> QED BY <1>0, <1>2, <2>1, <2>2, <2>3, SaidStays
  <1>18. Answering'
    <2>1. \A d \in Tasks, i \in 1..arrived :
            peer'[i] = "acked" /\ Answerable(d, i) => Answerable(d, i)'
      BY <1>2, <1>3, <1>4 DEF Answerable, Cancelled, At, Received
    <2> QED BY <1>0, <1>2, <1>3, <2>1, AnsweringStays
  <1> QED BY <1>5, <1>6, <1>7, <1>11, <1>16, <1>17, <1>18 DEF HandlesInv

LEMMA DeclareStep ==
  ASSUME HandlesInv, NEW c \in Tasks, Declare(c), Ends(c, Gets(doing[c].with)),
         goals' = [i \in DOMAIN goals \cup {doing[c].with} |->
                     IF i = doing[c].with THEN "held" ELSE goals[i]]
  PROVE  HandlesInv'
  <1>0. /\ HandleTypes /\ TasksCalling /\ InQueue /\ Held /\ Goals /\ Said /\ Answering
        /\ CallShape(c)
    BY DEF HandlesInv, TasksCalling
  <1>1. /\ doing[c].op = "next_goal" /\ doing[c].got = <<>> /\ doing[c].with \in 1..arrived
        /\ future[c] \in {"pending", "cancelled"} /\ At(c) = "declaring" /\ doing[c].with \in Nat
    BY <1>0, CallIsUnderWay DEF CallShape, Declare, At, Handling
  <1>2. UNCHANGED <<future, object, unread, over, arrived, peer, exiting>>
    BY DEF Declare
  <1>3. /\ doing[c].with \notin DOMAIN goals /\ goals'[doing[c].with] = "held"
        /\ DOMAIN goals' = DOMAIN goals \cup {doing[c].with}
        /\ \A i \in DOMAIN goals : goals'[i] = goals[i]
    BY <1>0, <1>1, InOneHand
  <1>4. /\ doing' \in [Tasks -> CallRecords]
        /\ \A d \in Tasks : d # c => doing'[d] = doing[d]
        /\ doing'[c].op = "next_goal" /\ doing'[c].at = "ended"
        /\ doing'[c].with = doing[c].with /\ doing'[c].got = Gets(doing[c].with)
    <2>1. Gets(doing[c].with) \in Outcomes
      BY <1>1 DEF Outcomes
    <2> QED BY <1>0, <1>1, <2>1, EndsWith DEF Becomes
  <1>5. InQueue' /\ queue' \in Seq(Tasks)
    BY <1>0, <1>4, QueueLeft DEF Declare
  <1>6. HandleTypes'
    <2>1. goals' \in [DOMAIN goals' -> {"held", "taken", "dropped"}]
      BY <1>0, <1>3 DEF HandleTypes
    <2>2. DOMAIN goals' \subseteq 1..arrived
      BY <1>0, <1>1, <1>3 DEF HandleTypes
    <2> QED BY <1>0, <1>2, <1>4, <1>5, <2>1, <2>2 DEF HandleTypes
  <1>7. TasksCalling'
    <2>1. \A i \in Nat : Gets(doing[c].with) = Gets(i) => i = doing[c].with
      BY OutcomesDiffer
    <2>2. CallShape(c)'
      BY <1>0, <1>1, <1>2, <1>4, <2>1 DEF CallShape, Deciding, Receiving, Handling
    <2> QED BY <1>0, <1>2, <1>3, <1>4, <2>2, CallsStay DEF HandleTypes
  <1>8. \A i \in 1..arrived, d \in Tasks : Has(d, i)' <=> Has(d, i)
    BY <1>1, <1>4, OutcomesDiffer DEF Has
  <1>9. Held'
    BY <1>0, <1>2, <1>8, HeldStays
  <1>10. \A d \in Tasks : doing[d].op \in Deciding => d # c /\ doing[d].with \in DOMAIN goals
    BY <1>0, <1>1 DEF TasksCalling, CallShape, Deciding
  <1>11. \A d \in Tasks : doing'[d].op \in Deciding => d # c /\ doing[d].op \in Deciding
    BY <1>4 DEF Deciding
  <1>12. \A d \in Tasks : Decides(d)' <=> Decides(d)
    BY <1>4, <1>10, <1>11 DEF Decides, At
  <1>13. \A i : \A d \in Tasks : d # c => (Received(d, i)' <=> Received(d, i))
    BY <1>4 DEF Received
  <1>14. Received(c, doing[c].with)' /\ \A i : ~Received(c, i)
    BY <1>1, <1>4, OutcomesDiffer DEF Received
  <1>15. Goals'
    <2>0. \A i \in DOMAIN goals, d \in Tasks : Received(d, i) => Received(d, i)'
      BY <1>13, <1>14
    <2>1. \A i \in DOMAIN goals' : \E d \in Tasks : Received(d, i)'
      <3>1. ASSUME NEW i \in DOMAIN goals PROVE \E d \in Tasks : Received(d, i)'
        <4>1. PICK d \in Tasks : Received(d, i)
          BY <1>0 DEF Goals
        <4> QED BY <2>0, <4>1
      <3>2. ASSUME NEW i, i = doing[c].with PROVE Received(c, i)'
        BY <1>4, <3>2 DEF Received
      <3> QED BY <1>3, <3>1, <3>2
    <2>2. \A i \in DOMAIN goals' : goals'[i] = "dropped" =>
            \E d \in Tasks : Received(d, i)' /\ future'[d] = "cancelled"
      BY <1>0, <1>2, <1>3, <1>13, <1>14 DEF Goals
    <2>3. \A i \in DOMAIN goals' : goals'[i] = "taken" =>
            \E d \in Tasks : doing'[d].op \in Deciding /\ doing'[d].with = i /\ At(d)' # "deciding"
      BY <1>0, <1>3, <1>4, <1>10 DEF Goals, At
    <2>4. \A d \in Tasks : doing'[d].op \in Deciding =>
            \E e \in Tasks : Received(e, doing[d].with)' /\ future'[e] = "returned"
      <3> SUFFICES ASSUME NEW d \in Tasks, doing'[d].op \in Deciding
                   PROVE  \E e \in Tasks : Received(e, doing[d].with)' /\ future'[e] = "returned"
        OBVIOUS
      <3>1. PICK e \in Tasks : Received(e, doing[d].with) /\ future[e] = "returned"
        BY <1>0, <1>11 DEF Goals
      <3>2. e # c /\ d # c
        BY <1>1, <1>11, <3>1
      <3>3. Received(e, doing[d].with)'
        BY <1>4, <3>1, <3>2 DEF Received
      <3> QED BY <1>2, <3>1, <3>3
    <2>5. \A d \in Tasks : Decides(d)' => goals'[doing'[d].with] = "taken"
      BY <1>0, <1>3, <1>4, <1>10, <1>12 DEF Goals, Decides
    <2>6. \A d, e \in Tasks : Decides(d)' /\ Decides(e)' /\ doing'[d].with = doing'[e].with => d = e
      BY <1>0, <1>4, <1>10, <1>12 DEF Goals, Decides
    <2> QED BY <2>1, <2>2, <2>3, <2>4, <2>5, <2>6 DEF Goals
  <1>16. Said'
    <2>1. \A e \in Tasks : doing[e].op \in Deciding => doing'[e] = doing[e]
      BY <1>4, <1>10
    <2>2. "accept" \in Deciding /\ "reject" \in Deciding /\ "next_goal" \notin Deciding
      BY DEF Deciding
    <2> HIDE DEF Deciding, Gets, Gives, Raises
    <2> QED BY <1>0, <1>2, <1>4, <2>1, <2>2 DEF Said
  <1>17. Answering'
    <2> SUFFICES ASSUME NEW i \in 1..arrived, peer[i] = "acked"
                 PROVE  \E d \in Tasks : Answerable(d, i)'
      BY <1>2 DEF Answering
    <2>1. CASE i = doing[c].with
      BY <1>3, <1>4, <1>14, <2>1 DEF Answerable
    <2>2. CASE i # doing[c].with
      <3>1. PICK d \in Tasks : Answerable(d, i)
        BY <1>0 DEF Answering
      <3>2. d # c
        BY <2>2, <3>1 DEF Answerable
      <3> QED BY <1>2, <1>3, <1>4, <1>13, <3>1, <3>2 DEF Answerable, Cancelled, At
    <2> QED BY <2>1, <2>2
  <1> QED BY <1>5, <1>6, <1>7, <1>9, <1>15, <1>16, <1>17 DEF HandlesInv

LEMMA NumbersLeft ==
  ASSUME NEW q \in Seq(Nat), q # <<>>
  PROVE  /\ Tail(q) \in Seq(Nat) /\ 1 \in DOMAIN q /\ Head(q) = q[1] /\ q[1] \in Nat
         /\ \A k \in DOMAIN Tail(q) : k \in Nat /\ 1 < k + 1 /\ k + 1 \in DOMAIN q /\ Tail(q)[k] = q[k + 1]
         /\ \A k \in DOMAIN q : k # 1 => k - 1 \in DOMAIN Tail(q) /\ Tail(q)[k - 1] = q[k]
  <1>1. /\ Tail(q) \in Seq(Nat) /\ Len(q) \in Nat /\ Len(q) >= 1 /\ Len(Tail(q)) = Len(q) - 1
        /\ Head(q) = q[1] /\ DOMAIN q = 1..Len(q) /\ DOMAIN Tail(q) = 1..Len(Tail(q))
    OBVIOUS
  <1>2. \A k \in 1..Len(q) - 1 : Tail(q)[k] = q[k + 1]
    BY <1>1
  <1>3. \A k \in 1..Len(q) : q[k] \in Nat
    BY <1>1
  <1> QED BY <1>1, <1>2, <1>3

(* What is taken goes from the unread into the hands of the call.            *)
LEMMA HeldByTaker ==
  ASSUME HandleTypes, Held, NEW c \in Tasks, unread # <<>>, unread' = Tail(unread),
         UNCHANGED <<arrived, peer>>,
         \A d \in Tasks, i \in 1..arrived :
           Has(d, i)' <=> Has(d, i) \/ (d = c /\ i = unread[1])
  PROVE  Held'
  <1>1. /\ 1 \in DOMAIN unread /\ unread' \in Seq(Nat)
        /\ \A k \in DOMAIN unread' : k \in Nat /\ 1 < k + 1 /\ k + 1 \in DOMAIN unread /\ unread'[k] = unread[k + 1]
        /\ \A k \in DOMAIN unread : k # 1 => k - 1 \in DOMAIN unread' /\ unread'[k - 1] = unread[k]
    BY NumbersLeft DEF HandleTypes
  <1>2. \A k \in DOMAIN unread : /\ unread[k] \in 1..arrived /\ unread[k] \in Nat /\ k \in Nat
                                 /\ \A d \in Tasks : ~Has(d, unread[k])
    BY DEF Held, HandleTypes
  <1>3. ASSUME NEW k \in DOMAIN unread' PROVE unread'[k] # unread[1]
    <2>1. unread[1] < unread[k + 1] /\ unread'[k] = unread[k + 1]
      BY <1>1 DEF Held
    <2> QED BY <1>1, <1>2, <2>1
  <1>4. \A k, l \in DOMAIN unread' : k < l => unread'[k] < unread'[l]
    BY <1>1 DEF Held
  <1>5. ASSUME NEW k \in DOMAIN unread'
        PROVE  unread'[k] \in 1..arrived /\ \A d \in Tasks : ~Has(d, unread[k])'
    <2>1. unread'[k] \in 1..arrived /\ \A d \in Tasks : ~Has(d, unread'[k])
      BY <1>1, <1>2
    <2> DEFINE i == unread'[k]
    <2>2. \A d \in Tasks : ~Has(d, i) /\ i \in 1..arrived /\ i # unread[1]
      BY <1>3, <2>1
    <2> QED BY <2>1, <2>2 DEF Has
  <1>6. \A i \in 1..arrived, d, e \in Tasks : Has(d, i)' /\ Has(e, i)' => d = e
    BY <1>1, <1>2 DEF Held
  <1>7. \A i \in 1..arrived : \/ \E k \in DOMAIN unread' : unread'[k] = i
                              \/ \E d \in Tasks : Has(d, i)'
                              \/ peer[i] = "gone"
    <2> SUFFICES ASSUME NEW i \in 1..arrived
                 PROVE  \/ \E k \in DOMAIN unread' : unread'[k] = i
                        \/ \E d \in Tasks : Has(d, i)'
                        \/ peer[i] = "gone"
      OBVIOUS
    <2>1. CASE \E k \in DOMAIN unread : unread[k] = i
      <3>1. PICK k \in DOMAIN unread : unread[k] = i
        BY <2>1
      <3>2. CASE k = 1
        BY <3>1, <3>2
      <3>3. CASE k # 1
        BY <1>1, <3>1, <3>3
      <3> QED BY <3>2, <3>3
    <2>2. CASE \E d \in Tasks : Has(d, i)
      BY <2>2
    <2> QED BY <2>1, <2>2 DEF Held
  <1> QED BY <1>4, <1>5, <1>6, <1>7 DEF Held

LEMMA TakeNextStep ==
  ASSUME HandlesInv, NEW c \in Tasks, TakeNext(c) PROVE HandlesInv'
  <1>0. /\ HandleTypes /\ TasksCalling /\ InQueue /\ Held /\ Goals /\ Said /\ Answering
        /\ CallShape(c)
    BY DEF HandlesInv, TasksCalling
  <1>1. /\ doing[c].op \in Receiving /\ doing[c].got = <<>> /\ doing[c].with = 0
        /\ At(c) = "waiting" /\ future[c] \in {"pending", "cancelled"}
        /\ ObjectOf(doing[c].op) = object
    BY <1>0, CallIsUnderWay DEF CallShape, TakeNext, At
  <1>2. /\ UNCHANGED <<future, object, over, arrived, peer, goals, exiting>>
        /\ unread # <<>> /\ unread' = Tail(unread) /\ Head(unread) = unread[1]
    BY <1>0 DEF TakeNext, HandleTypes
  <1>3. /\ unread' \in Seq(Nat) /\ unread[1] \in 1..arrived /\ unread[1] \in Nat
    BY <1>0, <1>2, NumbersLeft DEF HandleTypes, Held
  <1>4. \/ /\ doing[c].op \in {"next_message", "next_feedback"} /\ Leave(c)
           /\ Becomes(c, "ended", 0, Gets(unread[1]))
        \/ /\ doing[c].op \in {"handle_next", "next_goal"} /\ UNCHANGED queue
           /\ Becomes(c, "acking", unread[1], <<>>)
    <2>1. CASE object \in {"subscription", "goal_handle"}
      <3>1. doing[c].op \in {"next_message", "next_feedback"}
        BY <1>1, <2>1 DEF ObjectOf, Receiving
      <3>2. Gets(unread[1]) \in Outcomes
        BY <1>3 DEF Outcomes
      <3>3. Ends(c, Gets(unread[1])) /\ Leave(c)
        BY <1>2, <2>1 DEF TakeNext
      <3> QED BY <1>0, <1>1, <3>1, <3>2, <3>3, EndsWith
    <2>2. CASE object \notin {"subscription", "goal_handle"}
      <3>1. doing[c].op \in {"handle_next", "next_goal"}
        BY <1>1, <2>2 DEF ObjectOf, Receiving
      <3>2. /\ doing' = [doing EXCEPT ![c].at = "acking", ![c].with = unread[1]]
            /\ UNCHANGED queue
        BY <1>2, <2>2 DEF TakeNext
      <3>3. "acking" \in Ats
        BY DEF Ats
      <3>4. Becomes(c, "acking", unread[1], doing[c].got)
        BY <1>0, <1>3, <3>2, <3>3, Holding
      <3> QED BY <1>1, <3>1, <3>2, <3>4
    <2> QED BY <2>1, <2>2
  <1>5. /\ doing' \in [Tasks -> CallRecords]
        /\ \A d \in Tasks : d # c => doing'[d] = doing[d]
        /\ doing'[c].op = doing[c].op
        /\ \/ /\ doing[c].op \in {"next_message", "next_feedback"} /\ doing'[c].at = "ended"
              /\ doing'[c].with = 0 /\ doing'[c].got = Gets(unread[1])
           \/ /\ doing[c].op \in {"handle_next", "next_goal"} /\ doing'[c].at = "acking"
              /\ doing'[c].with = unread[1] /\ doing'[c].got = <<>>
    BY <1>4 DEF Becomes
  <1>6. InQueue' /\ queue' \in Seq(Tasks)
    <2>1. CASE Leave(c)
      BY <1>0, <1>5, <2>1, QueueLeft
    <2>2. CASE doing'[c].at = "acking" /\ UNCHANGED queue
      BY <1>0, <1>5, <2>2, QueueStays DEF At, HandleTypes
    <2> QED BY <1>4, <2>1, <2>2 DEF Becomes
  <1>7. HandleTypes'
    BY <1>0, <1>2, <1>3, <1>5, <1>6 DEF HandleTypes
  <1>8. TasksCalling'
    <2>1. \A i : Gets(i) # <<>>
      BY OutcomesDiffer
    <2>2. \A i \in Nat : Gets(unread[1]) = Gets(i) => i = unread[1]
      BY OutcomesDiffer
    <2>3. unread[1] \in 0..arrived /\ 0 \in 0..arrived
      BY <1>0, <1>3 DEF HandleTypes
    <2>4. CallShape(c)'
      <3>1. CASE doing'[c].at = "ended"
        BY <1>0, <1>1, <1>2, <1>3, <1>5, <2>1, <2>2, <2>3, <3>1
           DEF CallShape, Deciding, Receiving, Handling
      <3>2. CASE doing'[c].at = "acking"
        BY <1>0, <1>1, <1>2, <1>3, <1>5, <2>1, <2>2, <2>3, <3>2
           DEF CallShape, Deciding, Receiving, Handling
      <3> QED BY <1>5, <3>1, <3>2
    <2>5. /\ arrived' \in Nat /\ arrived <= arrived' /\ UNCHANGED object
          /\ DOMAIN goals \subseteq DOMAIN goals'
          /\ \A d \in Tasks : d # c => doing'[d] = doing[d] /\ future'[d] = future[d]
      BY <1>0, <1>2, <1>5 DEF HandleTypes
    <2> QED BY <1>0, <2>4, <2>5, CallsStay
  <1>9. Held'
    <2>1. \A i \in 1..arrived : i # 0
      OBVIOUS
    <2>2. \A i \in 1..arrived : Has(c, i)' <=> i = unread[1]
      BY <1>1, <1>5, <2>1, OutcomesDiffer DEF Has
    <2>3. \A i \in 1..arrived : ~Has(c, i)
      BY <1>1, <2>1, OutcomesDiffer DEF Has
    <2>4. \A i \in 1..arrived, d \in Tasks : d # c => (Has(d, i)' <=> Has(d, i))
      BY <1>5 DEF Has
    <2> QED BY <1>0, <1>2, <2>2, <2>3, <2>4, HeldByTaker
  <1>10. doing[c].op \notin Deciding
    BY <1>1 DEF Deciding, Receiving
  <1>11. \A d \in Tasks : doing[d].op \in Deciding => doing[d].with \in DOMAIN goals
    BY <1>0 DEF TasksCalling, CallShape
  <1>12. \A d \in Tasks, i \in DOMAIN goals : Received(d, i) => Received(d, i)'
    BY <1>1, <1>5, OutcomesDiffer DEF Received
  <1>13. \A d \in Tasks : Decides(d)' => Decides(d)
    BY <1>5, <1>10 DEF Decides, At
  <1>14. Goals'
    BY <1>0, <1>2, <1>5, <1>10, <1>11, <1>12, <1>13, GoalsStay DEF At
  <1>15. Said'
    <2>1. \A e \in Tasks : doing[e].op \in Deciding => doing'[e] = doing[e]
      BY <1>5, <1>10
    <2>2. /\ "accept" \in Deciding /\ "reject" \in Deciding
          /\ \A i, a : Gets(i) # Gives(a)
      BY OutcomesDiffer DEF Deciding
    <2> HIDE DEF Deciding, Gets, Gives, Raises
    <2> QED BY <1>0, <1>2, <1>3, <1>5, <1>10, <2>1, <2>2 DEF Said
  <1>16. Answering'
    <2>1. \A d \in Tasks, i \in 1..arrived :
            peer'[i] = "acked" /\ Answerable(d, i) => Answerable(d, i)'
      BY <1>1, <1>2, <1>5 DEF Answerable, Cancelled, At, Received
    <2> QED BY <1>0, <1>2, <2>1, AnsweringStays
  <1> QED BY <1>6, <1>7, <1>8, <1>9, <1>14, <1>15, <1>16 DEF HandlesInv

(* The first call that decides has the PendingGoal for itself.               *)
LEMMA TakePendingStep ==
  ASSUME HandlesInv, NEW c \in Tasks, TakePending(c) PROVE HandlesInv'
  <1>0. /\ HandleTypes /\ TasksCalling /\ InQueue /\ Held /\ Goals /\ Said /\ Answering
        /\ CallShape(c)
    BY DEF HandlesInv, TasksCalling
  <1>1. /\ doing[c].op \in Deciding /\ doing[c].got = <<>> /\ doing[c].with \in DOMAIN goals
        /\ At(c) = "deciding" /\ future[c] \in {"pending", "cancelled"}
        /\ doing[c].op \notin Receiving /\ doing[c].with \in 1..arrived
    BY <1>0, CallIsUnderWay DEF CallShape, TakePending, At, Deciding, Receiving, HandleTypes
  <1>2. UNCHANGED <<queue, future, object, unread, over, arrived, peer, exiting>>
    BY DEF TakePending
  <1>3. \/ /\ goals[doing[c].with] = "held" /\ Becomes(c, "telling", doing[c].with, <<>>)
           /\ goals' = [goals EXCEPT ![doing[c].with] = "taken"]
        \/ /\ goals[doing[c].with] # "held" /\ goals' = goals
           /\ Becomes(c, "ended", doing[c].with, Raises("ValueError"))
    <2>1. "telling" \in Ats /\ Raises("ValueError") \in Outcomes
      BY DEF Ats, Outcomes
    <2> QED BY <1>0, <1>1, <2>1, GoesOn, EndsWith DEF TakePending, Used
  <1>4. /\ doing' \in [Tasks -> CallRecords]
        /\ \A d \in Tasks : d # c => doing'[d] = doing[d]
        /\ doing'[c].op = doing[c].op /\ doing'[c].with = doing[c].with
        /\ \/ doing'[c].at = "telling" /\ doing'[c].got = <<>>
           \/ doing'[c].at = "ended" /\ doing'[c].got = Raises("ValueError")
    BY <1>3 DEF Becomes
  <1>5. /\ DOMAIN goals' = DOMAIN goals /\ goals' \in [DOMAIN goals' -> {"held", "taken", "dropped"}]
        /\ \A i \in DOMAIN goals : i # doing[c].with => goals'[i] = goals[i]
    BY <1>0, <1>3 DEF HandleTypes
  <1>6. InQueue'
    BY <1>0, <1>1, <1>2, <1>4, QueueStays DEF At
  <1>7. HandleTypes'
    BY <1>0, <1>2, <1>4, <1>5 DEF HandleTypes
  <1>8. TasksCalling'
    <2>1. CallShape(c)'
      <3>1. CASE doing'[c].at = "telling"
        BY <1>0, <1>1, <1>2, <1>4, <1>5, <3>1, OutcomesDiffer
           DEF CallShape, Deciding, Receiving, Handling
      <3>2. CASE doing'[c].at = "ended"
        BY <1>0, <1>1, <1>2, <1>4, <1>5, <3>2, OutcomesDiffer
           DEF CallShape, Deciding, Receiving, Handling
      <3> QED BY <1>4, <3>1, <3>2
    <2>2. /\ arrived' \in Nat /\ arrived <= arrived' /\ UNCHANGED object
          /\ DOMAIN goals \subseteq DOMAIN goals'
          /\ \A d \in Tasks : d # c => doing'[d] = doing[d] /\ future'[d] = future[d]
      BY <1>0, <1>2, <1>4, <1>5 DEF HandleTypes
    <2> QED BY <1>0, <2>1, <2>2, CallsStay
  <1>9. \A i \in 1..arrived, d \in Tasks : Has(d, i)' <=> Has(d, i)
    BY <1>1, <1>4 DEF Has
  <1>10. Held'
    BY <1>0, <1>2, <1>9, HeldStays
  <1>11. \A i : \A d \in Tasks : Received(d, i)' <=> Received(d, i)
    <2>1. "next_goal" \notin Deciding
      BY DEF Deciding
    <2> QED BY <1>1, <1>4, <2>1 DEF Received
  <1>12. \A d \in Tasks : doing[d].op \in Deciding => doing[d].with \in DOMAIN goals
    BY <1>0 DEF TasksCalling, CallShape
  <1>13. CASE goals[doing[c].with] = "held"
    <2>1. doing'[c].at = "telling" /\ goals'[doing[c].with] = "taken"
      BY <1>0, <1>1, <1>3, <1>13 DEF Becomes, HandleTypes
    <2>2. Decides(c)' /\ ~Decides(c)
      BY <1>1, <1>4, <2>1 DEF Decides, At
    <2>3. \A d \in Tasks : d # c => (Decides(d)' <=> Decides(d))
      BY <1>4 DEF Decides, At
    <2>4. \A d \in Tasks : Decides(d) => doing[d].with # doing[c].with
      BY <1>0, <1>13 DEF Goals
    <2>5. Goals'
      <3>1. \A i \in DOMAIN goals' : \E d \in Tasks : Received(d, i)'
        BY <1>0, <1>5, <1>11 DEF Goals
      <3>2. \A i \in DOMAIN goals' : goals'[i] = "dropped" =>
              \E d \in Tasks : Received(d, i)' /\ future'[d] = "cancelled"
        BY <1>0, <1>2, <1>5, <1>11, <2>1 DEF Goals
      <3>3. \A i \in DOMAIN goals' : goals'[i] = "taken" =>
              \E d \in Tasks : doing'[d].op \in Deciding /\ doing'[d].with = i /\ At(d)' # "deciding"
        <4> SUFFICES ASSUME NEW i \in DOMAIN goals, goals'[i] = "taken"
                     PROVE  \E d \in Tasks : doing'[d].op \in Deciding /\ doing'[d].with = i
                                               /\ At(d)' # "deciding"
          BY <1>5
        <4>1. CASE i = doing[c].with
          BY <1>1, <1>4, <2>1, <4>1 DEF At
        <4>2. CASE i # doing[c].with
          <5>1. PICK d \in Tasks : doing[d].op \in Deciding /\ doing[d].with = i /\ At(d) # "deciding"
            BY <1>0, <1>5, <4>2 DEF Goals
          <5> QED BY <1>4, <4>2, <5>1 DEF At
        <4> QED BY <4>1, <4>2
      <3>4. \A d \in Tasks : doing'[d].op \in Deciding =>
              \E e \in Tasks : Received(e, doing[d].with)' /\ future'[e] = "returned"
        <4> SUFFICES ASSUME NEW d \in Tasks, doing'[d].op \in Deciding
                     PROVE  \E e \in Tasks : Received(e, doing[d].with)' /\ future'[e] = "returned"
          OBVIOUS
        <4>1. doing[d].op \in Deciding /\ doing'[d].with = doing[d].with
          BY <1>4
        <4>2. PICK e \in Tasks : Received(e, doing[d].with) /\ future[e] = "returned"
          BY <1>0, <4>1 DEF Goals
        <4>3. Received(e, doing[d].with)'
          BY <1>1, <1>4, <4>1, <4>2 DEF Received, Deciding
        <4> QED BY <1>2, <4>2, <4>3
      <3>5. \A d \in Tasks : Decides(d)' => goals'[doing'[d].with] = "taken"
        <4> SUFFICES ASSUME NEW d \in Tasks, Decides(d)', d # c
                     PROVE  goals'[doing'[d].with] = "taken"
          BY <1>4, <2>1
        <4>1. Decides(d) /\ doing'[d] = doing[d] /\ doing[d].with # doing[c].with
          BY <1>4, <2>3, <2>4
        <4>2. goals[doing[d].with] = "taken" /\ doing[d].with \in DOMAIN goals
          BY <1>0, <1>12, <4>1 DEF Goals, Decides
        <4> QED BY <1>5, <4>1, <4>2
      <3>6. \A d, e \in Tasks : Decides(d)' /\ Decides(e)' /\ doing'[d].with = doing'[e].with => d = e
        BY <1>0, <1>4, <2>3, <2>4 DEF Goals
      <3> QED BY <3>1, <3>2, <3>3, <3>4, <3>5, <3>6 DEF Goals
    <2>6. Said'
      BY <1>0, <1>2, <1>4, <2>1, SaidStays DEF At
    <2>7. Answering'
      <3> SUFFICES ASSUME NEW i \in 1..arrived, peer[i] = "acked"
                   PROVE  \E d \in Tasks : Answerable(d, i)'
        BY <1>2 DEF Answering
      <3>1. CASE i = doing[c].with
        BY <1>4, <2>1, <3>1 DEF Answerable, At
      <3>2. CASE i # doing[c].with
        <4>1. PICK d \in Tasks : Answerable(d, i)
          BY <1>0 DEF Answering
        <4>2. d # c
          BY <3>2, <4>1 DEF Answerable
        <4> QED BY <1>2, <1>4, <1>5, <1>11, <3>2, <4>1, <4>2 DEF Answerable, Cancelled, At
      <3> QED BY <3>1, <3>2
    <2> QED BY <1>6, <1>7, <1>8, <1>10, <2>5, <2>6, <2>7 DEF HandlesInv
  <1>14. CASE goals[doing[c].with] # "held"
    <2>1. doing'[c].at = "ended" /\ doing'[c].got = Raises("ValueError") /\ goals' = goals
      BY <1>3, <1>14 DEF Becomes
    <2>2. \A d \in Tasks : Decides(d)' => Decides(d)
      BY <1>4, <2>1, OutcomesDiffer DEF Decides, At
    <2>3. Goals'
      BY <1>0, <1>1, <1>2, <1>4, <1>11, <1>12, <2>1, <2>2, GoalsStay DEF At
    <2>4. \E e \in Tasks \ {c} : doing[e].op \in Deciding /\ doing[e].with = doing[c].with
      <3>1. PICK d \in Tasks : Received(d, doing[c].with) /\ future[d] = "returned"
        BY <1>0, <1>1 DEF Goals
      <3>2. \A e \in Tasks : Received(e, doing[c].with) => e = d
        <4>1. \A e \in Tasks : Received(e, doing[c].with) => Has(e, doing[c].with)
          BY DEF Received, Has, Receiving
        <4> QED BY <1>0, <1>1, <3>1, <4>1 DEF Held
      <3>3. goals[doing[c].with] # "dropped"
        BY <1>0, <1>1, <3>1, <3>2 DEF Goals
      <3>4. goals[doing[c].with] = "taken"
        BY <1>0, <1>1, <1>14, <3>3 DEF HandleTypes
      <3> QED BY <1>0, <1>1, <3>4 DEF Goals
    <2>5. Said'
      <3>1. "accept" \in Deciding /\ "reject" \in Deciding /\ "handle_next" \notin Deciding
            /\ "next_feedback" \notin Deciding
        BY DEF Deciding
      <3>2. \A a : Raises("ValueError") # Gives(a)
        BY OutcomesDiffer
      <3> HIDE DEF Deciding, Gets, Gives, Raises
      <3> QED BY <1>0, <1>1, <1>2, <1>4, <2>1, <2>4, <3>1, <3>2 DEF Said
    <2>6. Answering'
      <3>1. \A d \in Tasks, i \in 1..arrived :
              peer'[i] = "acked" /\ Answerable(d, i) => Answerable(d, i)'
        BY <1>1, <1>2, <1>4, <1>11, <2>1 DEF Answerable, Cancelled, At, Handling, Deciding
      <3> QED BY <1>0, <1>2, <3>1, AnsweringStays
    <2> QED BY <1>6, <1>7, <1>8, <1>10, <2>3, <2>5, <2>6 DEF HandlesInv
  <1> QED BY <1>13, <1>14

(* A goal that is being decided is one that an action server received.       *)
LEMMA DecidedIsReceived ==
  ASSUME HandleTypes, TasksCalling, Held, Goals, NEW c \in Tasks, doing[c].op \in Deciding
  PROVE  /\ doing[c].with \in 1..arrived /\ doing[c].with \in DOMAIN goals
         /\ \E d \in Tasks : Received(d, doing[c].with) /\ Has(d, doing[c].with)
         /\ \A d \in Tasks : Received(d, doing[c].with) => future[d] = "returned"
         /\ object = "action" /\ \A d \in Tasks : doing[d].op # "handle_next"
  <1>1. doing[c].with \in 1..arrived /\ doing[c].with \in DOMAIN goals
    BY DEF TasksCalling, CallShape, HandleTypes
  <1>2. PICK d \in Tasks : Received(d, doing[c].with) /\ future[d] = "returned"
    BY DEF Goals
  <1>3. \A e \in Tasks : Received(e, doing[c].with) => Has(e, doing[c].with)
    BY DEF Received, Has, Receiving
  <1>4. \A e \in Tasks : Received(e, doing[c].with) => e = d
    BY <1>1, <1>2, <1>3 DEF Held
  <1>5. object = "action"
    BY <1>2 DEF Received, TasksCalling, CallShape, Receiving, ObjectOf
  <1>6. \A e \in Tasks : doing[e].op # "handle_next"
    BY <1>5 DEF TasksCalling, CallShape, Receiving, ObjectOf
  <1> QED BY <1>1, <1>2, <1>3, <1>4, <1>5, <1>6

LEMMA TellDecisionStep ==
  ASSUME HandlesInv, NEW c \in Tasks, TellDecision(c) PROVE HandlesInv'
  <1>0. /\ HandleTypes /\ TasksCalling /\ InQueue /\ Held /\ Goals /\ Said /\ Answering
        /\ CallShape(c)
    BY DEF HandlesInv, TasksCalling
  <1>1. /\ doing[c].op \in Deciding /\ doing[c].got = <<>> /\ At(c) = "telling"
        /\ doing[c].at = "telling"
        /\ future[c] \in {"pending", "cancelled"} /\ doing[c].op \notin Receiving
    BY <1>0, CallIsUnderWay DEF CallShape, TellDecision, At, Deciding, Receiving
  <1>2. /\ doing[c].with \in 1..arrived /\ doing[c].with \in DOMAIN goals
        /\ \E d \in Tasks : Received(d, doing[c].with) /\ Has(d, doing[c].with)
        /\ \A d \in Tasks : doing[d].op # "handle_next"
    BY <1>0, <1>1, DecidedIsReceived
  <1>3. Decides(c) /\ goals[doing[c].with] = "taken"
    BY <1>0, <1>1 DEF Decides, Goals
  <1>4. UNCHANGED <<queue, future, object, unread, over, arrived, goals, exiting>>
    BY <1>0, <1>2, <1>3 DEF TellDecision, HandleTypes
  <1>5. PICK got \in {Gives(doing[c].op), Raises("RuntimeError")},
              what \in {"accepted", "rejected", "gone"} :
          /\ Ends(c, got) /\ PeerTold(doing[c].with, what)
          /\ got = Gives(doing[c].op) =>
               what = IF doing[c].op = "accept" THEN "accepted" ELSE "rejected"
    BY <1>1, OutcomesDiffer DEF TellDecision, PyError, Deciding
  <1>6. /\ peer' \in [1..arrived -> PeerStates] /\ peer'[doing[c].with] = what
        /\ \A i \in 1..arrived : i # doing[c].with => peer'[i] = peer[i]
    BY <1>0, <1>2, <1>5 DEF PeerTold, HandleTypes, PeerStates
  <1>7. /\ doing' \in [Tasks -> CallRecords]
        /\ \A d \in Tasks : d # c => doing'[d] = doing[d]
        /\ doing'[c].op = doing[c].op /\ doing'[c].at = "ended"
        /\ doing'[c].with = doing[c].with /\ doing'[c].got = got
    <2>1. got \in Outcomes
      BY <1>1, <1>5 DEF Outcomes, Deciding
    <2> QED BY <1>0, <1>5, <2>1, EndsWith DEF Becomes
  <1>8. got # <<>> /\ \A i : got # Gets(i)
    BY <1>5, OutcomesDiffer
  <1>9. HandleTypes'
    BY <1>0, <1>4, <1>6, <1>7 DEF HandleTypes
  <1>10. InQueue'
    BY <1>0, <1>1, <1>4, <1>7, QueueStays DEF At
  <1>11. TasksCalling'
    <2>1. CallShape(c)'
      BY <1>0, <1>1, <1>2, <1>4, <1>7, <1>8 DEF CallShape, Handling
    <2>2. /\ arrived' \in Nat /\ arrived <= arrived' /\ UNCHANGED object
          /\ DOMAIN goals \subseteq DOMAIN goals'
          /\ \A d \in Tasks : d # c => doing'[d] = doing[d] /\ future'[d] = future[d]
      BY <1>0, <1>4, <1>7 DEF HandleTypes
    <2> QED BY <1>0, <2>1, <2>2, CallsStay
  <1>13. Held'
    <2>1. \A i \in 1..arrived, d \in Tasks : Has(d, i)' <=> Has(d, i)
      BY <1>1, <1>7 DEF Has
    <2> QED BY <1>0, <1>2, <1>4, <1>6, <2>1, HeldStays
  <1>14. \A d \in Tasks, i \in DOMAIN goals : Received(d, i) => Received(d, i)'
    BY <1>1, <1>7 DEF Received, Deciding
  <1>15. \A d \in Tasks : Decides(d)' => Decides(d)
    BY <1>3, <1>7 DEF Decides, At
  <1>16. \A d \in Tasks : doing[d].op \in Deciding => doing[d].with \in DOMAIN goals
    BY <1>0 DEF TasksCalling, CallShape
  <1>17. Goals'
    BY <1>0, <1>1, <1>4, <1>7, <1>14, <1>15, <1>16, GoalsStay DEF At
  <1>18. Said'
    <2>1. ASSUME NEW d \in Tasks, d # c, At(d) = "ended", doing[d].op \in Deciding,
                 doing[d].got = Gives(doing[d].op)
          PROVE  peer'[doing[d].with] = peer[doing[d].with]
      <3>1. Decides(d)
        BY <2>1 DEF Decides
      <3>2. doing[d].with # doing[c].with
        BY <1>0, <1>3, <2>1, <3>1 DEF Goals
      <3>3. doing[d].with \in 1..arrived
        BY <1>0, <1>16, <2>1 DEF HandleTypes
      <3> QED BY <1>6, <3>2, <3>3
    <2>2. /\ {"accept", "reject"} \subseteq Deciding /\ "handle_next" \notin Deciding
          /\ "next_feedback" \notin Deciding
      BY DEF Deciding
    <2>3. \A a, b : Gives(a) = Gives(b) => a = b
      BY OutcomesDiffer
    <2>4. \A a, e : Gives(a) # Raises(e)
      BY OutcomesDiffer
    <2>5. Raises("RuntimeError") # Raises("ValueError")
      BY OutcomesDiffer
    <2>6. \A e \in Tasks : doing'[e].op = doing[e].op /\ doing'[e].with = doing[e].with
      BY <1>7
    <2> HIDE DEF Deciding, Gets, Gives, Raises
    <2> QED BY <1>0, <1>1, <1>2, <1>4, <1>5, <1>6, <1>7, <2>1, <2>2, <2>3, <2>4, <2>5, <2>6
            DEF Said, At
  <1>19. Answering'
    <2>1. \A d \in Tasks, i \in 1..arrived :
            peer'[i] = "acked" /\ Answerable(d, i) => Answerable(d, i)'
      <3> SUFFICES ASSUME NEW d \in Tasks, NEW i \in 1..arrived, peer'[i] = "acked",
                          Answerable(d, i), d # c
                   PROVE  Answerable(d, i)'
        BY <1>5, <1>6 DEF Answerable
      <3> QED BY <1>4, <1>7 DEF Answerable, Cancelled, At, Received
    <2> QED BY <1>0, <1>4, <1>5, <1>6, <2>1, AnsweringStays
  <1> QED BY <1>9, <1>10, <1>11, <1>13, <1>17, <1>18, <1>19 DEF HandlesInv

(* What becomes of the asyncio future alone.                                 *)
LEMMA FutureStep ==
  ASSUME HandlesInv, NEW c \in Tasks, Deliver(c) \/ CancelTask(c) PROVE HandlesInv'
  <1>0. /\ HandleTypes /\ TasksCalling /\ InQueue /\ Held /\ Goals /\ Said /\ Answering
        /\ CallShape(c)
    BY DEF HandlesInv, TasksCalling
  <1>1. /\ UNCHANGED <<doing, object, queue, unread, over, arrived, peer, goals, exiting>>
        /\ future[c] = "pending" /\ \A d \in Tasks : d # c => future'[d] = future[d]
        /\ future' \in [Tasks -> {"none", "pending", "cancelled", "returned", "raised"}]
        /\ \/ future'[c] = "cancelled"
           \/ future'[c] = "raised" /\ doing[c].at = "ended"
           \/ future'[c] = "returned" /\ doing[c].at = "ended" /\ doing[c].got[1] # "raises"
    <2>1. future \in [Tasks -> {"none", "pending", "cancelled", "returned", "raised"}]
      BY <1>0 DEF HandleTypes
    <2> QED BY <2>1 DEF Deliver, CancelTask, At
  <1>2. HandleTypes'
    BY <1>0, <1>1 DEF HandleTypes
  <1>3. TasksCalling'
    <2>1. CallShape(c)'
      BY <1>0, <1>1 DEF CallShape
    <2>2. /\ arrived' \in Nat /\ arrived <= arrived' /\ UNCHANGED object
          /\ DOMAIN goals \subseteq DOMAIN goals'
          /\ \A d \in Tasks : d # c => doing'[d] = doing[d] /\ future'[d] = future[d]
      BY <1>0, <1>1 DEF HandleTypes
    <2> QED BY <1>0, <2>1, <2>2, CallsStay
  <1>4. InQueue'
    BY <1>0, <1>1 DEF InQueue, At
  <1>5. Held'
    BY <1>0, <1>1 DEF Held, Has
  <1>6. Goals'
    <2>1. \A d \in Tasks : doing[d].op \in Deciding => doing[d].with \in DOMAIN goals
      BY <1>0 DEF TasksCalling, CallShape
    <2> QED BY <1>0, <1>1, <2>1, GoalsStay DEF At, Received, Decides
  <1>7. Said'
    BY <1>0, <1>1 DEF Said
  <1>8. Answering'
    <2>1. \A d \in Tasks, i \in 1..arrived : Answerable(d, i) => Answerable(d, i)'
      BY <1>1 DEF Answerable, Cancelled, At, Received
    <2> QED BY <1>0, <1>1, <2>1, AnsweringStays
  <1> QED BY <1>2, <1>3, <1>4, <1>5, <1>6, <1>7, <1>8 DEF HandlesInv

LEMMA DropFutureStep ==
  ASSUME HandlesInv, NEW c \in Tasks, DropFuture(c) PROVE HandlesInv'
  <1>0. /\ HandleTypes /\ TasksCalling /\ InQueue /\ Held /\ Goals /\ Said /\ Answering
        /\ CallShape(c)
    BY DEF HandlesInv, TasksCalling
  <1>1. /\ future[c] = "cancelled" /\ At(c) \notin {"none", "dropped"}
        /\ doing[c].at \notin {"none", "dropped"} /\ doing[c].op # "none"
        /\ UNCHANGED <<future, object, unread, over, arrived, exiting>>
    BY <1>0 DEF DropFuture, CallShape, At
  <1>2. /\ doing' \in [Tasks -> CallRecords]
        /\ \A d \in Tasks : d # c => doing'[d] = doing[d]
        /\ doing'[c].op = doing[c].op /\ doing'[c].at = "dropped"
        /\ doing'[c].with = doing[c].with /\ doing'[c].got = doing[c].got
    <2>1. "dropped" \in Ats
      BY DEF Ats
    <2> QED BY <1>0, <2>1, GoesOn DEF DropFuture, Becomes
  <1>3. InQueue' /\ queue' \in Seq(Tasks)
    BY <1>0, <1>2, QueueLeft DEF DropFuture
  <1> DEFINE gave == At(c) = "ended" /\ doing[c].op = "accept" /\ doing[c].got = Gives("accept")
             lost(i) == At(c) = "ended" /\ Received(c, i)
  <1>5. /\ peer' \in [1..arrived -> PeerStates]
        /\ ~gave => peer' = peer
        /\ gave => /\ doing[c].with \in 1..arrived /\ peer'[doing[c].with] = "abandoned"
                   /\ \A i \in 1..arrived : i # doing[c].with => peer'[i] = peer[i]
                   /\ Decides(c) /\ doing[c].op \in Deciding
    <2>1. CASE gave
      <3>1. doing[c].op \in Deciding /\ Decides(c)
        BY <2>1 DEF Deciding, Decides
      <3>2. doing[c].with \in 1..arrived
        BY <1>0, <3>1, DecidedIsReceived
      <3>3. peer' = [peer EXCEPT ![doing[c].with] = "abandoned"]
        BY <2>1 DEF DropFuture, AfterDiscard
      <3> QED BY <1>0, <2>1, <3>1, <3>2, <3>3 DEF HandleTypes, PeerStates
    <2>2. CASE ~gave
      <3>1. peer' = peer
        BY <2>2 DEF DropFuture, AfterDiscard
      <3> QED BY <1>0, <2>2, <3>1 DEF HandleTypes
    <2> QED BY <2>1, <2>2
  <1>6. /\ DOMAIN goals' = DOMAIN goals
        /\ \A i \in DOMAIN goals : goals'[i] = IF lost(i) THEN "dropped" ELSE goals[i]
    BY DEF DropFuture, Received
  <1> HIDE DEF gave, lost
  <1>7. goals' \in [DOMAIN goals' -> {"held", "taken", "dropped"}] /\ DOMAIN goals' \subseteq 1..arrived
    <2>1. goals' = [i \in DOMAIN goals' |-> goals'[i]]
      BY DEF DropFuture
    <2> QED BY <1>0, <1>6, <2>1 DEF HandleTypes
  <1>8. HandleTypes'
    BY <1>0, <1>1, <1>2, <1>3, <1>5, <1>7 DEF HandleTypes
  <1>9. TasksCalling'
    <2>1. CallShape(c)'
      BY <1>0, <1>1, <1>2, <1>6 DEF CallShape, Handling
    <2>2. /\ arrived' \in Nat /\ arrived <= arrived' /\ UNCHANGED object
          /\ DOMAIN goals \subseteq DOMAIN goals'
          /\ \A d \in Tasks : d # c => doing'[d] = doing[d] /\ future'[d] = future[d]
      BY <1>0, <1>1, <1>2, <1>6 DEF HandleTypes
    <2> QED BY <1>0, <2>1, <2>2, CallsStay
  <1>10. Held'
    <2>1. \A i \in 1..arrived, d \in Tasks : Has(d, i)' <=> Has(d, i)
      BY <1>2 DEF Has
    <2>2. gave => \E d \in Tasks : Has(d, doing[c].with)
      BY <1>0, <1>5, DecidedIsReceived
    <2> QED BY <1>0, <1>1, <1>5, <2>1, <2>2, HeldStays
  <1>11. \A i : \A d \in Tasks : Received(d, i)' <=> Received(d, i)
    BY <1>2 DEF Received
  <1>12. \A d \in Tasks : Decides(d)' => Decides(d) /\ d # c
    BY <1>2 DEF Decides, At
  <1>13. ASSUME NEW d \in Tasks, doing[d].op \in Deciding PROVE ~lost(doing[d].with)
    BY <1>0, <1>1, <1>13, DecidedIsReceived DEF lost
  <1>14. \A d \in Tasks : doing[d].op \in Deciding => doing[d].with \in DOMAIN goals
    BY <1>0 DEF TasksCalling, CallShape
  <1>15. Goals'
    <2>1. \A i \in DOMAIN goals' : \E d \in Tasks : Received(d, i)'
      BY <1>0, <1>6, <1>11 DEF Goals
    <2>2. \A i \in DOMAIN goals' : goals'[i] = "dropped" =>
            \E d \in Tasks : Received(d, i)' /\ future'[d] = "cancelled"
      <3> SUFFICES ASSUME NEW i \in DOMAIN goals, goals'[i] = "dropped"
                   PROVE  \E d \in Tasks : Received(d, i)' /\ future'[d] = "cancelled"
        BY <1>6
      <3>1. CASE lost(i)
        BY <1>1, <1>11, <3>1 DEF lost
      <3>2. CASE ~lost(i)
        BY <1>0, <1>1, <1>6, <1>11, <3>2 DEF Goals
      <3> QED BY <3>1, <3>2
    <2>3. \A i \in DOMAIN goals' : goals'[i] = "taken" =>
            \E d \in Tasks : doing'[d].op \in Deciding /\ doing'[d].with = i /\ At(d)' # "deciding"
      <3> SUFFICES ASSUME NEW i \in DOMAIN goals, goals'[i] = "taken"
                   PROVE  \E d \in Tasks : doing'[d].op \in Deciding /\ doing'[d].with = i
                                             /\ At(d)' # "deciding"
        BY <1>6
      <3>1. PICK d \in Tasks : doing[d].op \in Deciding /\ doing[d].with = i /\ At(d) # "deciding"
        BY <1>0, <1>6 DEF Goals
      <3> QED BY <1>2, <3>1 DEF At
    <2>4. \A d \in Tasks : doing'[d].op \in Deciding =>
            \E e \in Tasks : Received(e, doing[d].with)' /\ future'[e] = "returned"
      <3> SUFFICES ASSUME NEW d \in Tasks, doing'[d].op \in Deciding
                   PROVE  \E e \in Tasks : Received(e, doing[d].with)' /\ future'[e] = "returned"
        OBVIOUS
      <3>1. doing[d].op \in Deciding /\ doing'[d].with = doing[d].with
        BY <1>2
      <3>2. PICK e \in Tasks : Received(e, doing[d].with) /\ future[e] = "returned"
        BY <1>0, <3>1 DEF Goals
      <3>3. Received(e, doing[d].with)'
        BY <1>2, <3>1, <3>2 DEF Received
      <3> QED BY <1>1, <3>2, <3>3
    <2>5. \A d \in Tasks : Decides(d)' => goals'[doing'[d].with] = "taken"
      <3> SUFFICES ASSUME NEW d \in Tasks, Decides(d)' PROVE goals'[doing'[d].with] = "taken"
        OBVIOUS
      <3>1. Decides(d) /\ doing'[d] = doing[d] /\ doing[d].op \in Deciding
        BY <1>2, <1>12 DEF Decides
      <3>2. goals[doing[d].with] = "taken" /\ ~lost(doing[d].with) /\ doing[d].with \in DOMAIN goals
        BY <1>0, <1>13, <1>14, <3>1 DEF Goals
      <3> QED BY <1>6, <3>1, <3>2
    <2>6. \A d, e \in Tasks : Decides(d)' /\ Decides(e)' /\ doing'[d].with = doing'[e].with => d = e
      BY <1>0, <1>2, <1>12 DEF Goals
    <2> QED BY <2>1, <2>2, <2>3, <2>4, <2>5, <2>6 DEF Goals
  <1>16. Said'
    <2>1. ASSUME NEW d \in Tasks, At(d)' = "ended",
                 \/ doing[d].op \in Deciding /\ doing[d].got = Gives(doing[d].op)
                 \/ doing[d].op = "handle_next"
          PROVE  peer'[doing[d].with] = peer[doing[d].with]
      <3>1. d # c /\ doing'[d] = doing[d] /\ At(d) = "ended"
        BY <1>2, <2>1 DEF At
      <3>2. CASE ~gave
        BY <1>5, <3>2
      <3>3. CASE gave
        <4>1. doing[d].op # "handle_next"
          BY <1>0, <1>5, <3>3, DecidedIsReceived
        <4>2. Decides(d) /\ doing[d].with \in DOMAIN goals
          BY <1>14, <2>1, <3>1, <4>1 DEF Decides
        <4>3. doing[d].with # doing[c].with
          BY <1>0, <1>5, <3>1, <3>3, <4>2 DEF Goals
        <4> QED BY <1>0, <1>5, <3>3, <4>2, <4>3 DEF HandleTypes
      <3> QED BY <3>2, <3>3
    <2>2. \A d \in Tasks : At(d)' = "ended" => doing'[d] = doing[d]
      BY <1>2 DEF At
    <2>3. \A d \in Tasks : doing'[d].op = doing[d].op /\ doing'[d].with = doing[d].with
      BY <1>2
    <2> QED BY <1>0, <1>1, <2>1, <2>2, <2>3, SaidStays
  <1>17. Answering'
    <2>1. \A i \in 1..arrived : peer'[i] = "acked" => peer[i] = "acked"
      BY <1>5
    <2>2. ASSUME NEW d \in Tasks, NEW i \in 1..arrived, Answerable(d, i)
          PROVE  \E e \in Tasks : Answerable(e, i)'
      <3>1. CASE d = c
        BY <1>1, <1>2, <2>2, <3>1 DEF Answerable, Cancelled
      <3>2. CASE d # c /\ lost(i)
        <4>1. doing[c].with = i
          BY <1>0, <3>2 DEF lost, Received, CallShape
        <4> QED BY <1>1, <1>2, <4>1 DEF Answerable, Cancelled
      <3>3. CASE d # c /\ ~lost(i)
        BY <1>1, <1>2, <1>6, <1>11, <2>2, <3>3 DEF Answerable, Cancelled, At
      <3> QED BY <3>1, <3>2, <3>3
    <2> QED BY <1>0, <1>1, <2>1, <2>2, AnsweringStays
  <1> QED BY <1>3, <1>8, <1>9, <1>10, <1>15, <1>16, <1>17 DEF HandlesInv

(* A call of a task that has made none yet.                                  *)
LEMMA CallStarts ==
  ASSUME HandlesInv, NEW c \in Tasks, future[c] = "none", NEW call \in CallRecords,
         doing' = [doing EXCEPT ![c] = call],
         future' \in [Tasks -> {"none", "pending", "cancelled", "returned", "raised"}],
         \A d \in Tasks : d # c => future'[d] = future[d],
         call.at \in {"waiting", "deciding", "none"}, \A i \in Nat : call.got # Gets(i),
         call.op \in Receiving => call.with = 0,
         call.op \in Deciding =>
           \E d \in Tasks : Received(d, call.with) /\ future[d] = "returned",
         CallShape(c)', InQueue', queue' \in Seq(Tasks),
         UNCHANGED <<object, unread, over, arrived, peer, goals, exiting>>
  PROVE  HandlesInv'
  <1>0. /\ HandleTypes /\ TasksCalling /\ InQueue /\ Held /\ Goals /\ Said /\ Answering
        /\ CallShape(c)
    BY DEF HandlesInv, TasksCalling
  <1>1. /\ doing[c].op = "none" /\ doing[c].at = "none" /\ doing[c].with = 0 /\ doing[c].got = <<>>
    BY <1>0 DEF CallShape, NoCall, Call
  <1>2. /\ doing' \in [Tasks -> CallRecords] /\ doing'[c] = call
        /\ \A d \in Tasks : d # c => doing'[d] = doing[d]
    BY <1>0 DEF HandleTypes
  <1>3. HandleTypes'
    BY <1>0, <1>2 DEF HandleTypes
  <1>4. TasksCalling'
    <2>1. /\ arrived' \in Nat /\ arrived <= arrived' /\ UNCHANGED object
          /\ DOMAIN goals \subseteq DOMAIN goals'
          /\ \A d \in Tasks : d # c => doing'[d] = doing[d] /\ future'[d] = future[d]
      BY <1>0, <1>2 DEF HandleTypes
    <2> QED BY <1>0, <2>1, CallsStay
  <1>5. "none" \notin Receiving \cup Deciding \cup {"next_goal"}
    BY DEF Receiving, Deciding
  <1>6. \A d \in Tasks, i \in 1..arrived : Has(d, i)' <=> Has(d, i)
    <2>1. \A i \in 1..arrived : i # 0 /\ i \in Nat
      OBVIOUS
    <2> QED BY <1>1, <1>2, <1>5, <2>1 DEF Has
  <1>7. Held'
    BY <1>0, <1>6, HeldStays
  <1>8. \A i \in Nat : \A d \in Tasks : Received(d, i)' <=> Received(d, i)
    BY <1>1, <1>2, <1>5 DEF Received
  <1>9. \A d \in Tasks : Decides(d)' <=> (Decides(d) /\ d # c)
    <2>1. call.got # Gives(call.op) \/ call.at # "ended"
      OBVIOUS
    <2> QED BY <1>2, <2>1 DEF Decides, At
  <1>10. \A d \in Tasks : doing[d].op \in Deciding =>
           /\ doing[d].with \in DOMAIN goals /\ d # c
    BY <1>0, <1>1, <1>5 DEF TasksCalling, CallShape
  <1>11. \A i \in DOMAIN goals : i \in Nat
    BY <1>0 DEF HandleTypes
  <1>12. Goals'
    <2>1. \A i \in DOMAIN goals : \E d \in Tasks : Received(d, i)'
      BY <1>0, <1>8, <1>11 DEF Goals
    <2>2. \A i \in DOMAIN goals : goals[i] = "dropped" =>
            \E d \in Tasks : Received(d, i)' /\ future'[d] = "cancelled"
      BY <1>0, <1>1, <1>5, <1>8, <1>11 DEF Goals
    <2>3. \A i \in DOMAIN goals : goals[i] = "taken" =>
            \E d \in Tasks : doing'[d].op \in Deciding /\ doing'[d].with = i /\ At(d)' # "deciding"
      <3> SUFFICES ASSUME NEW i \in DOMAIN goals, goals[i] = "taken"
                   PROVE  \E d \in Tasks : doing'[d].op \in Deciding /\ doing'[d].with = i
                                             /\ At(d)' # "deciding"
        OBVIOUS
      <3>1. PICK d \in Tasks : doing[d].op \in Deciding /\ doing[d].with = i /\ At(d) # "deciding"
        BY <1>0 DEF Goals
      <3> QED BY <1>2, <1>10, <3>1 DEF At
    <2>4. \A d \in Tasks : doing'[d].op \in Deciding =>
            \E e \in Tasks : Received(e, doing[d].with)' /\ future'[e] = "returned"
      <3> SUFFICES ASSUME NEW d \in Tasks, doing'[d].op \in Deciding
                   PROVE  \E e \in Tasks : Received(e, doing[d].with)' /\ future'[e] = "returned"
        OBVIOUS
      <3>1. PICK e \in Tasks : Received(e, doing'[d].with) /\ future[e] = "returned"
        <4>1. CASE d = c
          BY <1>2, <4>1
        <4>2. CASE d # c
          BY <1>0, <1>2, <4>2 DEF Goals
        <4> QED BY <4>1, <4>2
      <3>2. e # c
        BY <3>1
      <3>3. Received(e, doing[d].with)'
        BY <1>2, <3>1, <3>2 DEF Received
      <3> QED BY <3>1, <3>2, <3>3
    <2>5. \A d \in Tasks : Decides(d)' => goals[doing'[d].with] = "taken"
      BY <1>0, <1>2, <1>9 DEF Goals
    <2>6. \A d, e \in Tasks : Decides(d)' /\ Decides(e)' /\ doing'[d].with = doing'[e].with => d = e
      BY <1>0, <1>2, <1>9 DEF Goals
    <2> QED BY <2>1, <2>2, <2>3, <2>4, <2>5, <2>6 DEF Goals
  <1>13. Said'
    <2>1. \A d \in Tasks : At(d)' = "ended" => doing'[d] = doing[d]
      BY <1>2 DEF At
    <2>2. \A d \in Tasks : doing[d].op \in Deciding =>
            doing'[d].op = doing[d].op /\ doing'[d].with = doing[d].with
      BY <1>2, <1>10
    <2> QED BY <1>0, <2>1, <2>2, SaidStays
  <1>14. Answering'
    <2>1. \A d \in Tasks, i \in 1..arrived : Answerable(d, i) => Answerable(d, i)'
      <3> SUFFICES ASSUME NEW d \in Tasks, NEW i \in 1..arrived, Answerable(d, i)
                   PROVE  Answerable(d, i)'
        OBVIOUS
      <3>1. d # c
        BY <1>1 DEF Answerable
      <3> QED BY <1>2, <3>1 DEF Answerable, Cancelled, At, Received
    <2> QED BY <1>0, <2>1, AnsweringStays
  <1> QED BY <1>3, <1>4, <1>7, <1>12, <1>13, <1>14 DEF HandlesInv

LEMMA LinedUp ==
  ASSUME HandlesInv, NEW c \in Tasks, future[c] = "none",
         queue' = Append(queue, c) \/ queue' = queue,
         queue' = Append(queue, c) => doing'[c].at = "waiting",
         \A d \in Tasks : d # c => doing'[d] = doing[d]
  PROVE  InQueue' /\ queue' \in Seq(Tasks)
  <1>0. HandleTypes /\ InQueue /\ CallShape(c)
    BY DEF HandlesInv, TasksCalling
  <1>1. /\ queue \in Seq(Tasks) /\ \A k \in DOMAIN queue : queue[k] \in Tasks
    BY <1>0 DEF HandleTypes
  <1>2. \A k \in DOMAIN queue : queue[k] # c
    BY <1>0 DEF InQueue, CallShape, NoCall, Call, At
  <1>3. CASE queue' = queue
    BY <1>0, <1>1, <1>2, <1>3 DEF InQueue, At
  <1>4. CASE queue' = Append(queue, c)
    <2>1. /\ queue' \in Seq(Tasks) /\ DOMAIN queue = 1..Len(queue) /\ Len(queue) \in Nat
          /\ DOMAIN queue' = 1..Len(queue) + 1
          /\ \A k \in 1..Len(queue) : queue'[k] = queue[k]
          /\ queue'[Len(queue) + 1] = c
      BY <1>1, <1>4
    <2> QED BY <1>0, <1>1, <1>2, <1>4, <2>1 DEF InQueue, At
  <1> QED BY <1>3, <1>4

LEMMA TaskCallStep ==
  ASSUME HandlesInv, NEW c \in Tasks, CallReceive(c) \/ CallDecide(c) \/ CallSend(c)
  PROVE  HandlesInv'
  <1>0. /\ HandleTypes /\ TasksCalling /\ CallShape(c) /\ Goals
    BY DEF HandlesInv, TasksCalling
  <1>1. future[c] = "none" /\ UNCHANGED <<object, unread, over, arrived, peer, goals, exiting>>
    BY DEF CallReceive, CallDecide, CallSend, IsNext, Tasks
  <1>2. PICK op \in Receiving \cup Deciding \cup Sending, at \in {"waiting", "deciding", "none"},
             with \in {0} \cup DOMAIN goals, got \in {<<>>, Raises("ValueError")},
             state \in {"pending", "raised"} :
          /\ doing' = [doing EXCEPT ![c] = [op |-> op, at |-> at, with |-> with, got |-> got]]
          /\ future' = [future EXCEPT ![c] = state]
          /\ \/ op \in Receiving /\ at = "waiting" /\ with = 0 /\ got = <<>> /\ state = "pending"
                  /\ ObjectOf(op) = object /\ (queue' = Append(queue, c) \/ queue' = queue)
             \/ op \in Deciding /\ at = "deciding" /\ got = <<>> /\ state = "pending"
                  /\ with \in DOMAIN goals /\ queue' = queue
                  /\ \E d \in Tasks : future[d] = "returned" /\ Received(d, with)
             \/ op \in Sending /\ at = "waiting" /\ with = 0 /\ got = <<>> /\ state = "pending"
                  /\ (queue' = Append(queue, c) \/ queue' = queue)
             \/ op \in Sending /\ at = "none" /\ with = 0 /\ got = Raises("ValueError")
                  /\ state = "raised" /\ queue' = queue
    <2>1. CASE CallReceive(c)
      <3>1. PICK op \in Receiving :
              /\ ObjectOf(op) = object /\ Starts(c, Call(op, "waiting", 0)) /\ InLine(c, op)
        BY <2>1 DEF CallReceive
      <3>2. queue' = Append(queue, c) \/ queue' = queue
        BY <3>1 DEF InLine
      <3> QED BY <3>1, <3>2 DEF Starts, Call
    <2>2. CASE CallDecide(c)
      <3>1. PICK op \in Deciding, g \in DOMAIN goals :
              /\ Starts(c, Call(op, "deciding", g)) /\ queue' = queue
              /\ \E d \in Tasks : future[d] = "returned" /\ Received(d, g)
        BY <2>2 DEF CallDecide, Received
      <3> QED BY <3>1 DEF Starts, Call
    <2>3. CASE CallSend(c)
      <3>1. PICK op \in SentBeside(object), argument \in {"good", "bad"} :
              IF Valid(argument) THEN Starts(c, Call(op, "waiting", 0)) /\ InLine(c, op)
              ELSE /\ UNCHANGED queue
                   /\ future' = [future EXCEPT ![c] = "raised"]
                   /\ doing' = [doing EXCEPT ![c] = [Call(op, "none", 0)
                                                       EXCEPT !.got = Raises("ValueError")]]
        BY <2>3 DEF CallSend
      <3>2. op \in Sending
        BY <1>0 DEF SentBeside, Sending, HandleTypes, Objects
      <3>3. CASE Valid(argument)
        <4>1. queue' = Append(queue, c) \/ queue' = queue
          BY <3>1, <3>3 DEF InLine
        <4> QED BY <3>1, <3>2, <3>3, <4>1 DEF Starts, Call
      <3>4. CASE ~Valid(argument)
        <4>1. [Call(op, "none", 0) EXCEPT !.got = Raises("ValueError")] =
                [op |-> op, at |-> "none", with |-> 0, got |-> Raises("ValueError")]
          BY DEF Call
        <4> QED BY <3>1, <3>2, <3>4, <4>1
      <3> QED BY <3>3, <3>4
    <2> QED BY <2>1, <2>2, <2>3
  <1> DEFINE call == [op |-> op, at |-> at, with |-> with, got |-> got]
  <1>3. call \in CallRecords
    <2>1. op \in Ops /\ at \in Ats /\ with \in Nat /\ got \in Outcomes
      BY <1>0 DEF Ops, Ats, Outcomes, HandleTypes
    <2> QED BY <2>1 DEF CallRecords
  <1>4. /\ call.op = op /\ call.at = at /\ call.with = with /\ call.got = got
    OBVIOUS
  <1> HIDE DEF call
  <1>5. /\ doing' = [doing EXCEPT ![c] = call] /\ doing'[c] = call
        /\ \A d \in Tasks : d # c => doing'[d] = doing[d]
    BY <1>0, <1>2 DEF call, HandleTypes
  <1>6. /\ future' \in [Tasks -> {"none", "pending", "cancelled", "returned", "raised"}]
        /\ future'[c] = state /\ \A d \in Tasks : d # c => future'[d] = future[d]
    BY <1>0, <1>2 DEF HandleTypes
  <1>7. InQueue' /\ queue' \in Seq(Tasks)
    BY <1>1, <1>2, <1>4, <1>5, LinedUp
  <1>8. /\ {"none"} \cap (Receiving \cup Deciding \cup Sending) = {}
        /\ Receiving \cap Deciding = {} /\ Receiving \cap Sending = {} /\ Deciding \cap Sending = {}
    BY DEF Receiving, Deciding, Sending
  <1>9. \A i \in Nat : call.got # Gets(i)
    BY <1>2, <1>4, OutcomesDiffer
  <1>10. with \in 0..arrived
    BY <1>0 DEF HandleTypes
  <1>11. CallShape(c)'
    BY <1>0, <1>1, <1>2, <1>4, <1>5, <1>6, <1>8, <1>9, <1>10 DEF CallShape, Handling
  <1>12. call.op \in Deciding =>
           \E d \in Tasks : Received(d, call.with) /\ future[d] = "returned"
    BY <1>2, <1>4, <1>8
  <1>13. call.op \in Receiving => call.with = 0
    BY <1>2, <1>4, <1>8
  <1>14. call.at \in {"waiting", "deciding", "none"}
    BY <1>2, <1>4
  <1> QED BY <1>1, <1>3, <1>5, <1>6, <1>7, <1>9, <1>11, <1>12, <1>13, <1>14, CallStarts

LEMMA ArrivesStep ==
  ASSUME HandlesInv, Arrives PROVE HandlesInv'
  <1>0. HandleTypes /\ TasksCalling /\ InQueue /\ Held /\ Goals /\ Said /\ Answering
    BY DEF HandlesInv
  <1>1. /\ arrived' = arrived + 1 /\ unread' = Append(unread, arrived + 1) /\ arrived \in Nat
        /\ UNCHANGED <<doing, future, object, queue, over, goals, exiting>>
    BY <1>0 DEF Arrives, HandleTypes
  <1>2. /\ arrived' \in Nat /\ arrived <= arrived' /\ 1..arrived \subseteq 1..arrived'
        /\ \A i \in 1..arrived' : i \in 1..arrived \/ i = arrived + 1
        /\ arrived + 1 \notin 1..arrived
    BY <1>1
  <1>3. /\ peer' \in [1..arrived' -> PeerStates]
        /\ \A i \in 1..arrived : peer'[i] = peer[i]
        /\ peer'[arrived + 1] = "waits"
    <2>1. DOMAIN peer = 1..arrived /\ peer \in [1..arrived -> PeerStates]
      BY <1>0 DEF HandleTypes
    <2>2. 1..arrived \cup {arrived + 1} = 1..arrived'
      BY <1>1
    <2>3. peer' = [i \in 1..arrived' |-> IF i \in 1..arrived THEN peer[i] ELSE "waits"]
      BY <2>1, <2>2 DEF Arrives
    <2>4. /\ arrived + 1 \in 1..arrived'
          /\ \A i \in 1..arrived : i \in 1..arrived' /\ peer'[i] = peer[i]
          /\ peer'[arrived + 1] = "waits"
      BY <1>1, <1>2, <2>3
    <2>5. \A i \in 1..arrived' : peer'[i] \in PeerStates
      BY <1>2, <2>1, <2>4 DEF PeerStates
    <2>6. peer' \in [1..arrived' -> PeerStates]
      BY <2>3, <2>5
    <2> QED BY <2>4, <2>6
  <1>4. /\ unread' \in Seq(Nat) /\ DOMAIN unread = 1..Len(unread) /\ Len(unread) \in Nat
        /\ DOMAIN unread' = 1..Len(unread) + 1 /\ unread'[Len(unread) + 1] = arrived + 1
        /\ \A k \in 1..Len(unread) : unread'[k] = unread[k]
    <2>1. unread \in Seq(Nat)
      BY <1>0 DEF HandleTypes
    <2> QED BY <1>1, <2>1
  <1>5. HandleTypes'
    BY <1>0, <1>1, <1>2, <1>3, <1>4 DEF HandleTypes
  <1>6. TasksCalling'
    <2> SUFFICES ASSUME NEW c \in Tasks PROVE CallShape(c)'
      BY DEF TasksCalling
    <2>1. CallShape(c) /\ doing'[c] = doing[c] /\ future'[c] = future[c] /\ doing[c].with \in Nat
      BY <1>0, <1>1, CallIsRecord DEF TasksCalling
    <2>2. \A n \in Nat : (n \in 1..arrived => n \in 1..arrived')
                         /\ (n \in 0..arrived => n \in 0..arrived')
      BY <1>1
    <2> QED BY <1>1, <2>1, <2>2 DEF CallShape
  <1>7. InQueue'
    BY <1>0, <1>1 DEF InQueue, At
  <1>8. \A c \in Tasks : ~Has(c, arrived + 1)
    <2> SUFFICES ASSUME NEW c \in Tasks, Has(c, arrived + 1) PROVE FALSE
      OBVIOUS
    <2>1. CallShape(c)
      BY <1>0 DEF TasksCalling
    <2>2. arrived + 1 \notin 0..arrived /\ arrived + 1 \notin 1..arrived /\ arrived + 1 \in Nat
      BY <1>1
    <2>3. doing[c].with # arrived + 1
      BY <2>1, <2>2 DEF CallShape
    <2>4. doing[c].got # Gets(arrived + 1)
      BY <2>1, <2>2 DEF CallShape
    <2> QED BY <2>3, <2>4 DEF Has
  <1>9. \A i : \A c \in Tasks : Has(c, i)' <=> Has(c, i)
    BY <1>1 DEF Has
  <1>10. Held'
    <2>1. \A k \in DOMAIN unread' : /\ unread'[k] \in 1..arrived'
                                    /\ \A c \in Tasks : ~Has(c, unread[k])'
      <3> SUFFICES ASSUME NEW k \in 1..Len(unread) + 1
                   PROVE  /\ unread'[k] \in 1..arrived'
                          /\ \A c \in Tasks : ~Has(c, unread'[k])
        BY <1>1, <1>4 DEF Has
      <3>1. CASE k \in 1..Len(unread)
        BY <1>0, <1>2, <1>4, <3>1 DEF Held
      <3>2. CASE k = Len(unread) + 1
        BY <1>1, <1>4, <1>8, <3>2
      <3> QED BY <1>4, <3>1, <3>2
    <2>2. \A k, l \in DOMAIN unread' : k < l => unread'[k] < unread'[l]
      <3> SUFFICES ASSUME NEW k \in 1..Len(unread) + 1, NEW l \in 1..Len(unread) + 1, k < l
                   PROVE  unread'[k] < unread'[l]
        BY <1>4
      <3>1. k \in 1..Len(unread) /\ unread[k] \in 1..arrived
        BY <1>0, <1>4 DEF Held
      <3>2. CASE l \in 1..Len(unread)
        BY <1>0, <1>4, <3>1, <3>2 DEF Held
      <3>3. CASE l = Len(unread) + 1
        BY <1>1, <1>4, <3>1, <3>3
      <3> QED BY <1>4, <3>2, <3>3
    <2>3. \A i \in 1..arrived', c, d \in Tasks : Has(c, i)' /\ Has(d, i)' => c = d
      BY <1>0, <1>2, <1>8, <1>9 DEF Held
    <2>4. ASSUME NEW i \in 1..arrived'
          PROVE  \/ \E k \in DOMAIN unread' : unread'[k] = i
                 \/ \E c \in Tasks : Has(c, i)'
                 \/ peer'[i] = "gone"
      <3>1. CASE i = arrived + 1
        BY <1>4, <3>1
      <3>2. CASE i \in 1..arrived
        BY <1>0, <1>3, <1>4, <1>9, <3>2 DEF Held
      <3> QED BY <1>2, <3>1, <3>2
    <2> QED BY <2>1, <2>2, <2>3, <2>4 DEF Held
  <1>11. Goals'
    BY <1>0, <1>1 DEF Goals, Received, Decides, At
  <1>12. Said'
    <2>1. ASSUME NEW d \in Tasks, At(d) = "ended",
                 \/ doing[d].op \in Deciding
                 \/ doing[d].op = "handle_next" /\ doing[d].got = Gives("True")
          PROVE  peer'[doing[d].with] = peer[doing[d].with]
      <3>1. doing[d].with \in 1..arrived
        <4>1. CASE doing[d].op \in Deciding
          BY <1>0, <4>1 DEF TasksCalling, CallShape, HandleTypes
        <4>2. CASE doing[d].op = "handle_next" /\ doing[d].got = Gives("True")
          BY <1>0, <2>1, <4>2 DEF Said, At
        <4> QED BY <2>1, <4>1, <4>2
      <3> QED BY <1>3, <3>1
    <2>2. \A d \in Tasks : At(d)' = "ended" => doing'[d] = doing[d] /\ At(d) = "ended"
      BY <1>1 DEF At
    <2>3. \A i \in 1..arrived : i \in 1..arrived'
      BY <1>2
    <2> QED BY <1>0, <1>1, <2>1, <2>2, <2>3, SaidStays
  <1>13. Answering'
    <2> SUFFICES ASSUME NEW i \in 1..arrived', peer'[i] = "acked"
                 PROVE  \E c \in Tasks : Answerable(c, i)'
      BY DEF Answering
    <2>1. i \in 1..arrived /\ peer[i] = "acked"
      BY <1>2, <1>3
    <2>2. PICK c \in Tasks : Answerable(c, i)
      BY <1>0, <2>1 DEF Answering
    <2>3. Answerable(c, i)'
      BY <1>1, <2>2 DEF Answerable, Cancelled, At, Received
    <2> QED BY <2>3
  <1> QED BY <1>5, <1>6, <1>7, <1>10, <1>11, <1>12, <1>13 DEF HandlesInv

(* What is going on in Python and at the other side.                         *)
LEMMA OthersStep ==
  ASSUME HandlesInv, PeerEnds \/ InterpreterExits \/ UNCHANGED handleVars
  PROVE  HandlesInv'
  <1>0. HandleTypes /\ TasksCalling /\ InQueue /\ Held /\ Goals /\ Said /\ Answering
    BY DEF HandlesInv
  <1>1. /\ UNCHANGED <<doing, future, object, queue, unread, arrived, peer, goals>>
        /\ over' \in {"open", "closed", "gone"} /\ (over # "open" => over' = over)
        /\ exiting' \in BOOLEAN /\ (exiting => exiting')
    BY <1>0 DEF PeerEnds, InterpreterExits, handleVars, HandleTypes
  <1>2. HandleTypes'
    BY <1>0, <1>1 DEF HandleTypes
  <1>3. TasksCalling'
    BY <1>0, <1>1 DEF TasksCalling, CallShape
  <1>4. InQueue'
    BY <1>0, <1>1 DEF InQueue, At
  <1>5. Held'
    BY <1>0, <1>1 DEF Held, Has
  <1>6. Goals'
    BY <1>0, <1>1 DEF Goals, Received, Decides, At
  <1>7. Said'
    <2>1. \A d \in Tasks : At(d)' = "ended" => doing'[d] = doing[d]
      BY <1>1
    <2>2. \A i \in 1..arrived : i \in 1..arrived'
      BY <1>1
    <2> QED BY <1>0, <1>1, <2>1, <2>2, SaidStays
  <1>8. Answering'
    <2>1. \A d \in Tasks, i \in 1..arrived : Answerable(d, i) => Answerable(d, i)'
      BY <1>1 DEF Answerable, Cancelled, At, Received
    <2> QED BY <1>0, <1>1, <2>1, AnsweringStays
  <1> QED BY <1>2, <1>3, <1>4, <1>5, <1>6, <1>7, <1>8 DEF HandlesInv

LEMMA HandlesBegin ==
  ASSUME HandlesInit PROVE HandlesInv
  <1>1. /\ doing = [c \in Tasks |-> NoCall] /\ future = [c \in Tasks |-> "none"]
        /\ object \in Objects /\ queue = <<>> /\ unread = <<>> /\ over = "open" /\ arrived = 0
        /\ DOMAIN peer = {} /\ DOMAIN goals = {} /\ exiting = FALSE
        /\ peer = [i \in {} |-> "waits"] /\ goals = [i \in {} |-> "held"]
    BY DEF HandlesInit
  <1>2. /\ NoCall \in CallRecords /\ NoCall.op = "none" /\ NoCall.at = "none" /\ NoCall.with = 0
        /\ NoCall.got = <<>>
    BY DEF NoCall, Call, CallRecords, Ops, Ats, Outcomes
  <1>3. 1..arrived = {} /\ 0..arrived = {0}
    BY <1>1
  <1>4. HandleTypes
    <2>1. queue \in Seq(Tasks) /\ unread \in Seq(Nat)
      BY <1>1
    <2>2. doing \in [Tasks -> CallRecords]
      BY <1>1, <1>2
    <2>3. peer \in [1..arrived -> PeerStates] /\ goals \in [DOMAIN goals -> {"held", "taken", "dropped"}]
      BY <1>1, <1>3
    <2> QED BY <1>1, <2>1, <2>2, <2>3 DEF HandleTypes
  <1>5. /\ {"none"} \cap (Receiving \cup Deciding \cup Sending) = {}
        /\ "none" \notin Handling
    BY DEF Receiving, Deciding, Sending, Handling
  <1>6. TasksCalling
    <2> SUFFICES ASSUME NEW c \in Tasks PROVE CallShape(c)
      BY DEF TasksCalling
    <2>1. doing[c] = NoCall /\ future[c] = "none"
      BY <1>1
    <2> QED BY <1>2, <1>3, <1>5, <2>1, OutcomesDiffer DEF CallShape
  <1>7. DOMAIN queue = {} /\ DOMAIN unread = {}
    BY <1>1
  <1>8. InQueue /\ Held
    BY <1>3, <1>7 DEF InQueue, Held
  <1>9. Goals
    BY <1>1, <1>2, <1>5 DEF Goals, Decides
  <1>10. Said
    BY <1>1, <1>2 DEF Said
  <1>11. Answering
    BY <1>3 DEF Answering
  <1> QED BY <1>4, <1>6, <1>8, <1>9, <1>10, <1>11 DEF HandlesInv

LEMMA HandlesStep ==
  ASSUME HandlesInv, [HandlesNext]_handleVars PROVE HandlesInv'
  <1>1. CASE Arrives
    BY <1>1, ArrivesStep
  <1>2. CASE PeerEnds \/ InterpreterExits \/ UNCHANGED handleVars
    BY <1>2, OthersStep
  <1>3. ASSUME NEW c \in Tasks, CallReceive(c) \/ CallDecide(c) \/ CallSend(c) PROVE HandlesInv'
    BY <1>3, TaskCallStep
  <1>4. ASSUME NEW c \in Tasks, RustStep(c) PROVE HandlesInv'
    <2>1. CASE TakeNext(c) \/ FindsEnd(c)
      BY <2>1, TakeNextStep, FindsEndStep
    <2>2. CASE Acknowledge(c)
      BY <2>2, AcknowledgeStep, AcknowledgeFails
    <2>3. CASE Declare(c)
      <3>1. \/ /\ Ends(c, Gets(doing[c].with))
               /\ goals' = [i \in DOMAIN goals \cup {doing[c].with} |->
                              IF i = doing[c].with THEN "held" ELSE goals[i]]
            \/ Ends(c, Raises("RuntimeError")) /\ UNCHANGED goals
        BY <2>3 DEF Declare, PyError
      <3> QED BY <2>3, <3>1, DeclareStep, DeclareFails
    <2>4. CASE CallHandler(c) \/ AnswerPeer(c)
      BY <2>4, CallHandlerStep, AnswerPeerStep
    <2>5. CASE TakePending(c) \/ TellDecision(c) \/ SendEnds(c)
      BY <2>5, TakePendingStep, TellDecisionStep, SendEndsStep
    <2> QED BY <1>4, <2>1, <2>2, <2>3, <2>4, <2>5 DEF RustStep
  <1>5. ASSUME NEW c \in Tasks, HandlerEnds(c) PROVE HandlesInv'
    BY <1>5, HandlerEndsStep
  <1>6. ASSUME NEW c \in Tasks, Deliver(c) \/ CancelTask(c) PROVE HandlesInv'
    BY <1>6, FutureStep
  <1>7. ASSUME NEW c \in Tasks, DropFuture(c) PROVE HandlesInv'
    BY <1>7, DropFutureStep
  <1> QED BY <1>1, <1>2, <1>3, <1>4, <1>5, <1>6, <1>7 DEF HandlesNext

-----------------------------------------------------------------------------
(* What the invariant means for the tasks                                    *)

LEMMA AnsweredByInv ==
  ASSUME HandlesInv PROVE RequestsAnswered
  <1>0. HandleTypes /\ TasksCalling /\ Answering
    BY DEF HandlesInv
  <1> SUFFICES ASSUME NEW i \in 1..arrived, peer[i] = "acked" PROVE LeftWaiting(i)
    BY <1>0 DEF RequestsAnswered, HandleTypes
  <1>1. PICK c \in Tasks : Answerable(c, i)
    BY <1>0 DEF Answering
  <1>2. doing[c].with = i
    BY <1>1 DEF Answerable
  <1>3. At(c) \in Handling \cup {"declaring", "telling"} => HasInHand(c, i)
    BY <1>2 DEF HasInHand, Handling
  <1>4. PyError("envelope") = "RuntimeError"
    BY DEF PyError
  <1> QED BY <1>1, <1>2, <1>3, <1>4 DEF LeftWaiting, Answerable

LEMMA ToldByInv ==
  ASSUME HandlesInv PROVE ToldAlike
  <1>0. HandleTypes /\ TasksCalling /\ Goals /\ Said
    BY DEF HandlesInv
  <1> SUFFICES ASSUME NEW c \in Tasks, future[c] = "returned"
               PROVE  /\ doing[c].op = "accept" => peer[doing[c].with] = "accepted"
                      /\ doing[c].op = "reject" => peer[doing[c].with] = "rejected"
                      /\ doing[c].op = "handle_next" /\ doing[c].got = Gives("True") =>
                           peer[doing[c].with] \in {"answered", "error"}
    BY DEF ToldAlike, HasReturned
  <1>1. doing[c].at = "ended" /\ doing[c].got[1] # "raises"
    BY <1>0 DEF TasksCalling, CallShape
  <1>2. doing[c].op \in Deciding => doing[c].got = Gives(doing[c].op)
    BY <1>0, <1>1 DEF Said, Raises
  <1>3. {"accept", "reject"} \subseteq Deciding
    BY DEF Deciding
  <1> HIDE DEF Deciding, Gives, Gets, Raises
  <1> QED BY <1>0, <1>1, <1>2, <1>3 DEF Said

LEMMA DecidedByInv ==
  ASSUME HandlesInv PROVE OneDecision
  <1>0. HandleTypes /\ TasksCalling /\ Goals /\ Said
    BY DEF HandlesInv
  <1>1. \A c \in Tasks : future[c] = "returned" /\ doing[c].op \in Deciding => Decides(c)
    <2> SUFFICES ASSUME NEW c \in Tasks, future[c] = "returned", doing[c].op \in Deciding
                 PROVE  Decides(c)
      OBVIOUS
    <2>1. doing[c].at = "ended" /\ doing[c].got[1] # "raises"
      BY <1>0 DEF TasksCalling, CallShape
    <2>2. doing[c].got = Gives(doing[c].op)
      BY <1>0, <2>1 DEF Said, Raises
    <2> QED BY <2>1, <2>2 DEF Decides, At
  <1>2. {"accept", "reject"} \subseteq Deciding
    BY DEF Deciding
  <1>3. \A c, d \in Tasks : (c # d /\ HasReturned(c, "accept") /\ doing[c].with = doing[d].with) =>
          ~HasReturned(d, "reject") /\ ~HasReturned(d, "accept")
    BY <1>0, <1>1, <1>2 DEF Goals, HasReturned
  <1>4. ASSUME NEW c \in Tasks, doing[c].op \in Deciding, Raised(c, "ValueError")
        PROVE  \E e \in Tasks \ {c} : doing[e].op \in Deciding /\ doing[e].with = doing[c].with
    <2>1. doing[c].at = "ended" /\ doing[c].got = Raises("ValueError")
      BY <1>0, <1>4 DEF TasksCalling, CallShape, Raised, Deciding
    <2> HIDE DEF Deciding, Gives, Gets, Raises
    <2> QED BY <1>0, <1>4, <2>1 DEF Said
  <1> QED BY <1>3, <1>4 DEF OneDecision

LEMMA NoneLostByInv ==
  ASSUME HandlesInv PROVE NoneLost
  <1>0. HandleTypes /\ Held
    BY DEF HandlesInv
  <1> SUFFICES ASSUME NEW i \in 1..arrived
               PROVE  IF Contains(unread, i) THEN Holders(i) = {}
                      ELSE Cardinality(Holders(i)) = 1 \/ peer[i] = "gone"
    BY <1>0 DEF NoneLost, HandleTypes
  <1>1. Holders(i) = {c \in Tasks : Has(c, i)}
    BY DEF Holders, Has
  <1>2. unread \in Seq(Nat) /\ DOMAIN unread = 1..Len(unread)
    BY <1>0 DEF HandleTypes
  <1>3. CASE Contains(unread, i)
    <2>1. PICK k \in DOMAIN unread : unread[k] = i
      BY <1>2, <1>3 DEF Contains
    <2> QED BY <1>0, <1>1, <1>3, <2>1 DEF Held
  <1>4. CASE ~Contains(unread, i)
    <2>1. ~\E k \in DOMAIN unread : unread[k] = i
      BY <1>2, <1>4 DEF Contains
    <2>2. (\E c \in Tasks : Has(c, i)) \/ peer[i] = "gone"
      BY <1>0, <2>1 DEF Held
    <2>3. ASSUME NEW c \in Tasks, Has(c, i) PROVE Cardinality(Holders(i)) = 1
      <3>1. Holders(i) = {c}
        BY <1>0, <1>1, <2>3 DEF Held
      <3> QED BY <3>1, FS_Singleton
    <2> QED BY <1>4, <2>2, <2>3
  <1> QED BY <1>3, <1>4

LEMMA ToldApartByInv ==
  ASSUME HandlesInv PROVE ErrorsTellApart
  <1>0. HandleTypes /\ TasksCalling /\ Said
    BY DEF HandlesInv
  <1> SUFFICES ASSUME NEW c \in Tasks, doing[c].op = "next_feedback", doing[c].at = "ended",
                      doing[c].got[1] = "raises"
               PROVE  doing[c].got = Raises("ConnectionError") <=> over = "gone"
    BY DEF ErrorsTellApart, At
  <1>1. \A i \in Nat : doing[c].got # Gets(i)
    BY DEF Gets
  <1>2. doing[c].got = Raises(IF over = "gone" THEN "ConnectionError" ELSE "RuntimeError")
    BY <1>0, <1>1 DEF Said
  <1> QED BY <1>2, OutcomesDiffer

LEMMA UnstuckByInv ==
  ASSUME HandlesInv PROVE NobodyStuck
  <1>0. HandleTypes /\ InQueue
    BY DEF HandlesInv
  <1>1. \A k \in 1..Len(queue) : At(queue[k]) \in {"waiting", "acking", "declaring"}
    BY <1>0 DEF InQueue, HandleTypes
  <1>2. "poll" \notin Receiving
    BY DEF Receiving
  <1> QED BY <1>1, <1>2 DEF NobodyStuck, Contains, First, Locks

(* Objects that Python tasks share lose nothing to their being shared: what  *)
(* arrives is skipped by nobody and given once, a goal is decided once, a    *)
(* task is told what the other side was told, errors are told apart, and     *)
(* whoever holds the lock needs it, for any number of tasks                  *)
(* (peppylib-py/src/messaging/).                                             *)
THEOREM SharedCorrect == HandlesSpec => []SharedSafely
  <1>1. HandlesInit => HandlesInv
    BY HandlesBegin
  <1>2. HandlesInv /\ [HandlesNext]_handleVars => HandlesInv'
    BY HandlesStep
  <1>3. HandlesInv => SharedSafely
    BY AnsweredByInv, ToldByInv, DecidedByInv, NoneLostByInv, ToldApartByInv, UnstuckByInv
       DEF SharedSafely
  <1> QED BY <1>1, <1>2, <1>3, PTL DEF HandlesSpec

=============================================================================
