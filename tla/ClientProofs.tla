---------------------------- MODULE ClientProofs ----------------------------
(***************************************************************************)
(* Proofs about the clients of a node: ActionClient, for every number of   *)
(* starts, flaps and feedback messages, and CoreNodeClient, for every set  *)
(* of daemons, callers, keys and values.                                   *)
(***************************************************************************)
EXTENDS ActionClient, CoreNodeClient, TLAPS

-----------------------------------------------------------------------------
(* ActionClient                                                              *)

CountTypes ==
  /\ life \in Nat /\ owner \in Nat /\ blamed \in Nat
  /\ absent \in Nat /\ misled \in Nat
  /\ sent \in Nat /\ got \in Nat
  /\ wire \in Seq(Nat) /\ buffer \in Seq(Nat)

(* A start of the producer runs, or is over for good.                        *)
Started ==
  /\ up => life > 0
  /\ owner <= life /\ blamed <= life

(* What the watcher has found out at each of its steps.  Of the probes that  *)
(* found no token, one that was not misled met a producer that did not run.  *)
Probing ==
  /\ watcher \in {"off", "resolve", "steady"} => absent = 0 /\ misled = 0 /\ ~gone
  /\ watcher \in {"delay", "probe"} => absent < PRODUCER_GONE_CONFIRM_PROBES /\ ~gone
  /\ watcher = "declare" => absent = PRODUCER_GONE_CONFIRM_PROBES
  /\ gone => absent = PRODUCER_GONE_CONFIRM_PROBES
  /\ watcher \in {"off", "resolve", "steady", "delay", "probe", "declare",
                  "notify", "ended"}
  /\ phase \in {"idle", "subscribed"} => watcher = "off"
  /\ misled <= FlapLimit
  /\ misled < absent /\ blamed # 0 => ~Alive(blamed)

(* The read that is under way, and when there is nothing to read yet.        *)
Listening ==
  /\ reader \in {"idle", "check", "recheck", "parked"}
  /\ reader # "idle" => phase = "held" /\ told = "none"
  /\ told # "none" => phase = "held"
  /\ ready = FALSE
  /\ phase \in {"idle", "subscribed", "watched"} => owner = 0
  /\ phase = "held" => owner # 0
  /\ owner = 0 => /\ sent = 0 /\ ~ended /\ got = 0
                 /\ buffer = <<>> /\ wire = <<>>

Streamed == phase \in {"asked", "held"} /\ open

(***************************************************************************)
(* While the stream is open, everything published by a producer that lives *)
(* is returned, buffered or under way; and the sentinel, wherever it is,   *)
(* comes after exactly the messages that were sent.                        *)
(***************************************************************************)
Flowing ==
  Streamed =>
    /\ Alive(owner) /\ ~ended => sent = got + Len(buffer) + Len(wire)
    /\ \A i \in 1..Len(buffer) : buffer[i] = End => ended /\ sent = got + i - 1
    /\ \A i \in 1..Len(wire) :
         wire[i] = End => ended /\ sent = got + Len(buffer) + i - 1
    /\ told = "closed" => ended /\ got = sent

LEMMA AppendIsLast ==
  ASSUME NEW s \in Seq(Nat), NEW m \in Nat
  PROVE  /\ Len(Append(s, m)) = Len(s) + 1
         /\ \A i \in 1..Len(s) : Append(s, m)[i] = s[i]
         /\ Append(s, m)[Len(s) + 1] = m
  OBVIOUS

LEMMA TailIsRest ==
  ASSUME NEW s \in Seq(Nat), s # <<>>
  PROVE  /\ Len(s) \in Nat /\ Len(s) > 0
         /\ Len(Tail(s)) = Len(s) - 1 /\ Tail(s) \in Seq(Nat)
         /\ \A i \in 1..Len(Tail(s)) : i + 1 \in 1..Len(s) /\ Tail(s)[i] = s[i + 1]
         /\ Head(s) = s[1]
  OBVIOUS

LEMMA CountStep ==
  ASSUME CountTypes, [Next]_vars PROVE CountTypes'
  <1> USE ClientAssumption
      DEF CountTypes, vars, producerVars, goalVars, watchVars, readVars
  <1>1. ASSUME Producer PROVE CountTypes'
    <2>1. CASE StartProducer
      BY <2>1 DEF StartProducer
    <2>7. CASE Announce
      BY <2>7 DEF Announce
    <2>8. CASE Withdraw
      BY <2>8 DEF Withdraw
    <2>9. CASE TakeGoal
      BY <2>9 DEF TakeGoal
    <2>5. CASE CloseSession
      <3>1. wire' \in Seq(Nat)
        BY <2>5 DEF CloseSession
      <3> QED BY <2>5, <3>1 DEF CloseSession
    <2>2. CASE Crash
      <3>1. PICK n \in 0..Len(wire) : wire' = SubSeq(wire, 1, n)
        BY <2>2 DEF Crash
      <3>2. wire' \in Seq(Nat)
        BY <3>1
      <3> QED BY <2>2, <3>2 DEF Crash
    <2>3. CASE PublishFeedback
      <3>1. wire' \in Seq(Nat)
        BY <2>3 DEF PublishFeedback, Publish
      <3> QED BY <2>3, <3>1 DEF PublishFeedback
    <2>6. CASE PublishEnd
      <3>1. wire' \in Seq(Nat)
        BY <2>6 DEF PublishEnd, Publish, End
      <3> QED BY <2>6, <3>1 DEF PublishEnd
    <2>4. CASE DeliverMessage
      <3>1. wire' \in Seq(Nat) /\ buffer' \in Seq(Nat)
        BY <2>4 DEF DeliverMessage
      <3> QED BY <2>4, <3>1 DEF DeliverMessage
    <2> QED BY <1>1, <2>1, <2>2, <2>3, <2>4, <2>5, <2>6, <2>7, <2>8, <2>9 DEF Producer
  <1>2. ASSUME Goal PROVE CountTypes'
    <2>1. CASE Subscribe \/ Watch \/ SendGoal \/ GoalReply
      BY <2>1 DEF Subscribe, Watch, SendGoal, GoalReply
    <2>2. CASE FailGoal \/ DropHandle
      <3>1. wire' = <<>> /\ buffer' = <<>>
        BY <2>2 DEF FailGoal, DropHandle, Release
      <3>2. wire' \in Seq(Nat) /\ buffer' \in Seq(Nat)
        BY <3>1
      <3>3. blamed' = 0 /\ absent' = 0 /\ misled' = 0 /\ got' = 0
        BY <2>2 DEF FailGoal, DropHandle, Release
      <3>4. UNCHANGED <<life, owner, sent, up, ended, open>>
        BY <2>2 DEF FailGoal, DropHandle, Release
      <3> QED BY <3>2, <3>3, <3>4
    <2> QED BY <1>2, <2>1, <2>2 DEF Goal
  <1>3. ASSUME Watcher PROVE CountTypes'
    <2>1. CASE WatcherReads
      BY <2>1 DEF WatcherReads, Suspect, WatchOn
    <2>2. CASE ResolveTimesOut \/ WatcherStops
      BY <2>2 DEF ResolveTimesOut, WatcherStops, Suspect, SuspectOnTimeout, WatchOn
    <2>3. CASE IssueProbe \/ ProbeSeesToken
      BY <2>3 DEF IssueProbe, ProbeSeesToken, WatchOn, Acquit
    <2>4. CASE ProbeFindsNone
      BY <2>4 DEF ProbeFindsNone
    <2>5. CASE StoreLatch
      BY <2>5 DEF StoreLatch
    <2>6. CASE NotifyWaiters
      BY <2>6 DEF NotifyWaiters, WatchOn
    <2> QED BY <1>3, <2>1, <2>2, <2>3, <2>4, <2>5, <2>6 DEF Watcher
  <1>4. ASSUME Reader PROVE CountTypes'
    <2>1. CASE TakeFeedback
      <3>1. buffer' \in Seq(Nat)
        BY <2>1 DEF TakeFeedback
      <3> QED BY <2>1, <3>1 DEF TakeFeedback, Reading
    <2>2. CASE \/ SessionEnded \/ NothingBuffered \/ ReportGone \/ NothingYet
               \/ EnableNotified \/ Park
      BY <2>2 DEF SessionEnded, NothingBuffered, ReportGone, NothingYet,
                  EnableNotified, Park, Reading
    <2> QED BY <1>4, <2>1, <2>2 DEF Reader
  <1>5. ASSUME Result \/ UNCHANGED vars PROVE CountTypes'
    BY <1>5 DEF Result, ResultOfGone, ResultProbeFindsNone, Abandon
  <1> QED BY <1>1, <1>2, <1>3, <1>4, <1>5 DEF Next

LEMMA ProbingStep ==
  ASSUME CountTypes, Started, Probing, FlapLimit < PRODUCER_GONE_CONFIRM_PROBES,
         [Next]_vars
  PROVE  Started' /\ Probing'
  <1> USE ClientAssumption
      DEF CountTypes, Started, Probing, Alive, PRODUCER_GONE_CONFIRM_PROBES,
          vars, producerVars, goalVars, watchVars, readVars
  <1>1. ASSUME Producer PROVE Started' /\ Probing'
    <2>1. CASE StartProducer \/ Announce \/ Withdraw
      BY <2>1 DEF StartProducer, Announce, Withdraw
    <2>2. CASE Crash \/ TakeGoal \/ PublishFeedback
      BY <2>2 DEF Crash, TakeGoal, PublishFeedback
    <2>3. CASE PublishEnd \/ DeliverMessage \/ CloseSession
      BY <2>3 DEF PublishEnd, DeliverMessage, CloseSession
    <2> QED BY <1>1, <2>1, <2>2, <2>3 DEF Producer
  <1>2. ASSUME Goal PROVE Started' /\ Probing'
    <2>1. CASE Subscribe \/ SendGoal \/ GoalReply
      BY <2>1 DEF Subscribe, SendGoal, GoalReply, Step
    <2>2. CASE Watch
      BY <2>2 DEF Watch, Step
    <2>3. CASE FailGoal \/ DropHandle
      BY <2>3 DEF FailGoal, DropHandle, Release
    <2> QED BY <1>2, <2>1, <2>2, <2>3 DEF Goal
  <1>3. ASSUME Watcher PROVE Started' /\ Probing'
    <2>1. CASE WatcherReads \/ ResolveTimesOut \/ WatcherStops
      BY <2>1 DEF WatcherReads, ResolveTimesOut, WatcherStops, Suspect,
                  SuspectOnTimeout, WatchOn
    <2>2. CASE IssueProbe \/ ProbeSeesToken
      BY <2>2 DEF IssueProbe, ProbeSeesToken, WatchOn, Acquit
    <2>3. CASE ProbeFindsNone
      BY <2>3 DEF ProbeFindsNone, Confirmed
    <2>4. CASE StoreLatch \/ NotifyWaiters
      BY <2>4 DEF StoreLatch, NotifyWaiters, WatchOn
    <2> QED BY <1>3, <2>1, <2>2, <2>3, <2>4 DEF Watcher
  <1>4. ASSUME Reader PROVE Started' /\ Probing'
    BY <1>4 DEF Reader, TakeFeedback, SessionEnded, NothingBuffered,
                ReportGone, NothingYet, EnableNotified, Park, Reading
  <1>5. ASSUME Result \/ UNCHANGED vars PROVE Started' /\ Probing'
    BY <1>5 DEF Result, ResultOfGone, ResultProbeFindsNone, Abandon
  <1> QED BY <1>1, <1>2, <1>3, <1>4, <1>5 DEF Next

LEMMA StartedStep ==
  ASSUME CountTypes, Started, [Next]_vars PROVE Started'
  <1> USE DEF CountTypes, Started, vars, producerVars, goalVars, watchVars, readVars
  <1>1. CASE Producer
    BY <1>1 DEF Producer, StartProducer, Announce, Withdraw, Crash, TakeGoal,
       PublishFeedback, PublishEnd, DeliverMessage, CloseSession
  <1>2. CASE Goal
    BY <1>2 DEF Goal, Subscribe, Watch, SendGoal, GoalReply, FailGoal,
                DropHandle, Release
  <1>3. CASE Watcher
    BY <1>3 DEF Watcher, WatcherReads, ResolveTimesOut, WatcherStops,
       IssueProbe, ProbeSeesToken, ProbeFindsNone, StoreLatch, NotifyWaiters,
       Suspect, SuspectOnTimeout, WatchOn, Acquit
  <1>4. CASE Reader \/ Result \/ UNCHANGED vars
    BY <1>4 DEF Reader, TakeFeedback, SessionEnded, NothingBuffered, ReportGone,
       NothingYet, EnableNotified, Park, Reading, Result, ResultOfGone,
       ResultProbeFindsNone, Abandon
  <1> QED BY <1>1, <1>2, <1>3, <1>4 DEF Next

LEMMA ListeningStep ==
  ASSUME CountTypes, Started, Listening, [Next]_vars PROVE Listening'
  <1> USE ClientAssumption
      DEF CountTypes, Started, Listening, Alive,
          vars, producerVars, goalVars, watchVars, readVars
  <1>1. ASSUME Producer PROVE Listening'
    <2>1. CASE StartProducer
      BY <2>1 DEF StartProducer
    <2>2. CASE Announce \/ Withdraw
      BY <2>2 DEF Announce, Withdraw
    <2>3. CASE Crash
      <3>1. PICK n \in 0..Len(wire) : wire' = SubSeq(wire, 1, n)
        BY <2>3 DEF Crash
      <3>2. wire = <<>> => wire' = <<>>
        BY <3>1
      <3>3. UNCHANGED <<reader, phase, told, ready, owner, sent, ended, got, buffer>>
        BY <2>3 DEF Crash
      <3> QED BY <3>2, <3>3
    <2>4. CASE TakeGoal
      BY <2>4 DEF TakeGoal
    <2>5. CASE PublishFeedback
      BY <2>5 DEF PublishFeedback
    <2>6. CASE PublishEnd
      BY <2>6 DEF PublishEnd
    <2>7. CASE DeliverMessage
      BY <2>7 DEF DeliverMessage
    <2>8. CASE CloseSession
      BY <2>8 DEF CloseSession
    <2> QED BY <1>1, <2>1, <2>2, <2>3, <2>4, <2>5, <2>6, <2>7, <2>8 DEF Producer
  <1>2. ASSUME Goal PROVE Listening'
    <2>1. CASE Subscribe \/ Watch \/ SendGoal
      BY <2>1 DEF Subscribe, Watch, SendGoal, Step
    <2>2. CASE GoalReply
      BY <2>2 DEF GoalReply, Step
    <2>3. CASE FailGoal
      BY <2>3 DEF FailGoal, Release
    <2>4. CASE DropHandle
      BY <2>4 DEF DropHandle, Release
    <2> QED BY <1>2, <2>1, <2>2, <2>3, <2>4 DEF Goal
  <1>3. ASSUME Watcher PROVE Listening'
    <2>1. UNCHANGED <<goalVars, reader, phase, told, ready, got, buffer, wire>>
      BY <1>3 DEF Watcher, WatcherReads, ResolveTimesOut, WatcherStops,
         IssueProbe, ProbeSeesToken, ProbeFindsNone, StoreLatch, NotifyWaiters
    <2> QED BY <2>1
  <1>4. ASSUME Reader PROVE Listening'
    <2>1. CASE TakeFeedback
      BY <2>1 DEF TakeFeedback, Reading, Polled
    <2>2. CASE SessionEnded
      BY <2>2 DEF SessionEnded, Reading, Polled
    <2>3. CASE NothingBuffered
      BY <2>3 DEF NothingBuffered, Reading, Polled, LooksAtLatch
    <2>4. CASE ReportGone \/ NothingYet
      BY <2>4 DEF ReportGone, NothingYet, Reading
    <2>5. CASE EnableNotified \/ Park
      BY <2>5 DEF EnableNotified, Park, Reading
    <2> QED BY <1>4, <2>1, <2>2, <2>3, <2>4, <2>5 DEF Reader
  <1>5. ASSUME Result \/ UNCHANGED vars PROVE Listening'
    BY <1>5 DEF Result, ResultOfGone, ResultProbeFindsNone, Abandon
  <1> QED BY <1>1, <1>2, <1>3, <1>4, <1>5 DEF Next

LEMMA FlowingStep ==
  ASSUME CountTypes, Started, Listening, Flowing, [Next]_vars PROVE Flowing'
  <1> USE ClientAssumption
      DEF CountTypes, Flowing, Streamed, Alive, End,
          producerVars, goalVars, watchVars, readVars
  <1>1. ASSUME Producer PROVE Flowing'
    <2>1. CASE StartProducer
      BY <2>1 DEF StartProducer, Started
    <2>2. CASE Announce \/ Withdraw
      BY <2>2 DEF Announce, Withdraw
    <2>3. CASE Crash
      <3>1. PICK n \in 0..Len(wire) : wire' = SubSeq(wire, 1, n)
        BY <2>3 DEF Crash
      <3>2. Len(wire') <= Len(wire) /\ \A i \in 1..Len(wire') : wire'[i] = wire[i]
        BY <3>1
      <3>3. UNCHANGED <<phase, told, open, owner, sent, ended, got, buffer>> /\ ~up'
        BY <2>3 DEF Crash
      <3> QED BY <3>1, <3>2, <3>3
    <2>4. CASE TakeGoal
      BY <2>4 DEF TakeGoal, Listening
    <2>5. CASE PublishFeedback
      <3>1. UNCHANGED <<phase, told, open, owner, ended, got, buffer, up, life>>
        BY <2>5 DEF PublishFeedback
      <3>2. ~ended /\ Alive(owner) /\ sent' = sent + 1
        BY <2>5 DEF PublishFeedback
      <3>3. ASSUME Streamed PROVE wire' = Append(wire, sent + 1)
        BY <2>5, <3>3 DEF PublishFeedback, Publish, Subscribed
      <3>4. ASSUME Streamed
            PROVE /\ Len(wire') = Len(wire) + 1
                  /\ \A i \in 1..Len(wire) : wire'[i] = wire[i]
                  /\ wire'[Len(wire) + 1] = sent + 1
        BY <3>3, <3>4
      <3>5. ASSUME Streamed, NEW i \in 1..Len(wire')
            PROVE  wire'[i] # 0
        <4>1. Len(wire) \in Nat /\ i \in 1..(Len(wire) + 1)
          BY <3>4, <3>5
        <4>2. CASE i \in 1..Len(wire)
          BY <4>2, <3>2, <3>4, <3>5
        <4>3. CASE i = Len(wire) + 1
          BY <4>3, <3>4, <3>5
        <4> QED BY <4>1, <4>2, <4>3
      <3>6. ASSUME Streamed
            PROVE  told # "closed" /\ \A i \in 1..Len(buffer) : buffer[i] # 0
        BY <3>2, <3>6
      <3>7. ASSUME Streamed PROVE sent' = got + Len(buffer) + Len(wire')
        <4>1. Len(wire) \in Nat /\ Len(buffer) \in Nat
          OBVIOUS
        <4> QED BY <4>1, <3>2, <3>4, <3>7
      <3> QED BY <3>1, <3>2, <3>5, <3>6, <3>7
    <2>6. CASE PublishEnd
      <3>1. UNCHANGED <<phase, told, open, owner, sent, got, buffer, up, life>>
        BY <2>6 DEF PublishEnd
      <3>2. ~ended /\ Alive(owner) /\ ended'
        BY <2>6 DEF PublishEnd
      <3>3. ASSUME Streamed PROVE wire' = Append(wire, 0)
        BY <2>6, <3>3 DEF PublishEnd, Publish, Subscribed
      <3>4. ASSUME Streamed
            PROVE /\ Len(wire') = Len(wire) + 1
                  /\ \A i \in 1..Len(wire) : wire'[i] = wire[i]
        <4>1. wire' = Append(wire, 0) /\ 0 \in Nat
          BY <3>3, <3>4
        <4> QED BY <4>1, AppendIsLast
      <3>5. ASSUME Streamed PROVE sent = got + Len(buffer) + Len(wire)
        BY <3>2, <3>5
      <3>6. ASSUME Streamed, NEW i \in 1..Len(wire'), wire'[i] = 0
            PROVE  sent = got + Len(buffer) + i - 1
        <4>1. Len(wire) \in Nat /\ Len(buffer) \in Nat /\ i \in 1..(Len(wire) + 1)
          BY <3>4, <3>6
        <4>2. i \notin 1..Len(wire)
          BY <3>2, <3>4, <3>6
        <4>3. i = Len(wire) + 1
          BY <4>1, <4>2
        <4> QED BY <4>1, <4>3, <3>5, <3>6
      <3>7. ASSUME Streamed
            PROVE  told # "closed" /\ \A i \in 1..Len(buffer) : buffer[i] # 0
        BY <3>2, <3>7
      <3> QED BY <3>1, <3>2, <3>6, <3>7
    <2>7. CASE DeliverMessage
      <3>1. UNCHANGED <<phase, told, open, owner, sent, ended, got, up, life>>
        BY <2>7 DEF DeliverMessage
      <3>2. wire # <<>> /\ wire' = Tail(wire) /\ buffer' = Append(buffer, Head(wire))
        BY <2>7 DEF DeliverMessage
      <3>3. /\ Len(wire) \in Nat /\ Len(wire) > 0 /\ Len(wire') = Len(wire) - 1
            /\ \A i \in 1..Len(wire') :
                 i + 1 \in 1..Len(wire) /\ wire'[i] = wire[i + 1]
            /\ Head(wire) = wire[1] /\ 1 \in 1..Len(wire)
        BY <3>2, TailIsRest
      <3>9. buffer' = Append(buffer, wire[1]) /\ wire[1] \in Nat
        BY <3>2, <3>3
      <3>4. /\ Len(buffer) \in Nat /\ Len(buffer') = Len(buffer) + 1
            /\ \A i \in 1..Len(buffer) : buffer'[i] = buffer[i]
            /\ buffer'[Len(buffer) + 1] = wire[1]
        BY <3>9, AppendIsLast
      <3>5. Len(buffer') + Len(wire') = Len(buffer) + Len(wire)
        BY <3>3, <3>4
      <3>6. ASSUME Streamed, NEW i \in 1..Len(buffer'), buffer'[i] = 0
            PROVE  ended /\ sent = got + i - 1
        <4>1. CASE i \in 1..Len(buffer)
          BY <4>1, <3>4, <3>6
        <4>2. CASE i = Len(buffer) + 1
          <5>1. wire[1] = 0
            BY <4>2, <3>4, <3>6
          <5>2. ended /\ sent = got + Len(buffer) + 1 - 1
            BY <5>1, <3>3, <3>6
          <5> QED BY <5>2, <4>2, <3>4
        <4> QED BY <4>1, <4>2, <3>4
      <3>7. ASSUME Streamed, NEW i \in 1..Len(wire'), wire'[i] = 0
            PROVE  ended /\ sent = got + Len(buffer') + i - 1
        <4>1. i + 1 \in 1..Len(wire) /\ wire[i + 1] = 0
          BY <3>2, <3>3, <3>7
        <4>2. ended /\ sent = got + Len(buffer) + (i + 1) - 1
          BY <4>1, <3>7
        <4> QED BY <4>2, <3>4
      <3>8. ASSUME Streamed, Alive(owner), ~ended
            PROVE  sent = got + Len(buffer') + Len(wire')
        <4>1. sent = got + Len(buffer) + Len(wire)
          BY <3>8
        <4> QED BY <4>1, <3>3, <3>4
      <3> QED BY <3>1, <3>6, <3>7, <3>8
    <2>8. CASE CloseSession
      BY <2>8 DEF CloseSession
    <2> QED BY <1>1, <2>1, <2>2, <2>3, <2>4, <2>5, <2>6, <2>7, <2>8 DEF Producer
  <1>2. ASSUME Goal PROVE Flowing'
    <2>1. CASE Subscribe \/ Watch
      BY <2>1 DEF Subscribe, Watch, Step
    <2>2. CASE SendGoal
      BY <2>2 DEF SendGoal, Step, Listening
    <2>3. CASE GoalReply
      BY <2>3 DEF GoalReply, Step
    <2>4. CASE FailGoal \/ DropHandle
      <3>1. phase' \in {"failed", "dropped"}
        BY <2>4 DEF FailGoal, DropHandle, Release
      <3> QED BY <3>1
    <2> QED BY <1>2, <2>1, <2>2, <2>3, <2>4 DEF Goal
  <1>3. ASSUME Watcher PROVE Flowing'
    <2>1. UNCHANGED <<producerVars, goalVars, phase, told, open, got, buffer, wire>>
      BY <1>3 DEF Watcher, WatcherReads, ResolveTimesOut, WatcherStops,
         IssueProbe, ProbeSeesToken, ProbeFindsNone, StoreLatch, NotifyWaiters
    <2> QED BY <2>1
  <1>4. ASSUME Reader PROVE Flowing'
    <2>1. CASE TakeFeedback
      <3>1. UNCHANGED <<producerVars, goalVars, phase, open, wire>>
        BY <2>1 DEF TakeFeedback, Reading
      <3>2. buffer # <<>> /\ buffer' = Tail(buffer) /\ Head(buffer) = buffer[1]
        BY <2>1 DEF TakeFeedback
      <3>3. /\ Len(buffer) \in Nat /\ Len(buffer) > 0 /\ Len(buffer') = Len(buffer) - 1
            /\ \A i \in 1..Len(buffer') :
                 i + 1 \in 1..Len(buffer) /\ buffer'[i] = buffer[i + 1]
            /\ 1 \in 1..Len(buffer)
        BY <3>2, TailIsRest
      <3>4. CASE buffer[1] = 0
        <4>1. told' = "closed" /\ got' = got
          BY <2>1, <3>2, <3>4 DEF TakeFeedback
        <4> QED BY <3>1, <3>3, <3>4, <4>1
      <3>5. CASE buffer[1] # 0
        <4>1. told' = told /\ got' = got + 1
          BY <2>1, <3>2, <3>5 DEF TakeFeedback
        <4>2. told # "closed"
          BY <2>1 DEF TakeFeedback, Polled, Listening
        <4>3. ASSUME Streamed, NEW i \in 1..Len(buffer'), buffer'[i] = 0
              PROVE  ended /\ sent = got' + i - 1
          <5>1. i + 1 \in 1..Len(buffer) /\ buffer[i + 1] = 0
            BY <3>2, <3>3, <4>3
          <5>2. ended /\ sent = got + (i + 1) - 1
            BY <5>1, <4>3
          <5> QED BY <5>2, <4>1
        <4>4. ASSUME Streamed, NEW i \in 1..Len(wire), wire[i] = 0
              PROVE  ended /\ sent = got' + Len(buffer') + i - 1
          <5>1. ended /\ sent = got + Len(buffer) + i - 1
            BY <4>4
          <5>2. Len(wire) \in Nat
            OBVIOUS
          <5>3. i \in Nat
            BY <5>2, <4>4
          <5> QED BY <5>1, <5>3, <3>3, <4>1
        <4>5. ASSUME Streamed, Alive(owner), ~ended
              PROVE  sent = got' + Len(buffer') + Len(wire)
          <5>1. sent = got + Len(buffer) + Len(wire)
            BY <4>5
          <5>2. Len(wire) \in Nat
            OBVIOUS
          <5> QED BY <5>1, <5>2, <3>3, <4>1
        <4> QED BY <3>1, <4>1, <4>2, <4>3, <4>4, <4>5
      <3> QED BY <3>4, <3>5
    <2>2. CASE SessionEnded
      BY <2>2 DEF SessionEnded, Reading
    <2>3. CASE NothingBuffered \/ NothingYet \/ EnableNotified \/ Park
      <3>1. UNCHANGED <<producerVars, goalVars, phase, told, open, got, buffer, wire>>
        BY <2>3 DEF NothingBuffered, NothingYet, EnableNotified, Park, Reading
      <3> QED BY <3>1
    <2>4. CASE ReportGone
      <3>1. UNCHANGED <<producerVars, goalVars, phase, open, got, buffer, wire>>
            /\ told' = "gone"
        BY <2>4 DEF ReportGone, Reading
      <3> QED BY <3>1
    <2> QED BY <1>4, <2>1, <2>2, <2>3, <2>4 DEF Reader
  <1>5. ASSUME Result \/ UNCHANGED vars PROVE Flowing'
    <2>1. UNCHANGED <<producerVars, goalVars, phase, told, open, got, buffer, wire>>
      BY <1>5 DEF Result, ResultOfGone, ResultProbeFindsNone, Abandon, vars
    <2> QED BY <2>1
  <1> QED BY <1>1, <1>2, <1>3, <1>4, <1>5 DEF Next

(***************************************************************************)
(* "A flap or an inconclusive probe never fabricates a producer death"     *)
(* (confirm_producer_gone), whatever the number of starts and flaps: of    *)
(* the two probes in a row that the confirmation takes, fewer may miss a   *)
(* producer that runs.                                                     *)
(***************************************************************************)
THEOREM GoneCorrect ==
  ASSUME FlapLimit < PRODUCER_GONE_CONFIRM_PROBES
  PROVE  Spec => []GoneIsTrue
  <1>1. Init => CountTypes /\ Started /\ Probing
    <2> SUFFICES ASSUME Init PROVE CountTypes /\ Started /\ Probing
      OBVIOUS
    <2>1. CountTypes /\ Started
      <3>1. <<>> \in Seq(Nat)
        OBVIOUS
      <3>2. wire \in Seq(Nat) /\ buffer \in Seq(Nat)
        BY <3>1 DEF Init
      <3>3. /\ life = 0 /\ owner = 0 /\ blamed = 0 /\ absent = 0 /\ misled = 0
            /\ sent = 0 /\ got = 0 /\ up = FALSE /\ ended = FALSE /\ open = TRUE
        BY DEF Init
      <3> QED BY <3>2, <3>3 DEF Init, CountTypes, Started
    <2>2. Probing
      BY ClientAssumption DEF Init, Probing
    <2> QED BY <2>1, <2>2
  <1>2. CountTypes /\ Started /\ Probing /\ [Next]_vars
        => (CountTypes /\ Started /\ Probing)'
    BY CountStep, ProbingStep
  <1>3. CountTypes /\ Started /\ Probing => GoneIsTrue
    BY ClientAssumption DEF CountTypes, Probing, GoneIsTrue, PRODUCER_GONE_CONFIRM_PROBES
  <1> QED BY <1>1, <1>2, <1>3, PTL DEF Spec

(* A stream that its sentinel closes has returned every message of the       *)
(* goal, and what is buffered comes before the report of a dead producer     *)
(* (on_next_feedback), for every number of messages and of flaps.            *)
THEOREM FeedbackCorrect == Spec => []NothingMissed
  <1>1. Init => CountTypes /\ Started /\ Listening /\ Flowing
    <2> SUFFICES ASSUME Init PROVE CountTypes /\ Started /\ Listening /\ Flowing
      OBVIOUS
    <2>1. CountTypes /\ Started /\ Listening
      <3>1. <<>> \in Seq(Nat)
        OBVIOUS
      <3>2. wire \in Seq(Nat) /\ buffer \in Seq(Nat)
        BY <3>1 DEF Init
      <3>3. /\ life = 0 /\ owner = 0 /\ blamed = 0 /\ absent = 0 /\ misled = 0
            /\ sent = 0 /\ got = 0 /\ up = FALSE /\ ended = FALSE /\ open = TRUE
        BY DEF Init
      <3> QED BY <3>2, <3>3 DEF Init, CountTypes, Started, Listening
    <2>2. Flowing
      BY DEF Init, Flowing, Streamed
    <2> QED BY <2>1, <2>2
  <1>2. CountTypes /\ Started /\ [Next]_vars => Started'
    BY StartedStep
  <1>3. CountTypes /\ Started /\ Listening /\ Flowing /\ [Next]_vars
        => (CountTypes /\ Started /\ Listening /\ Flowing)'
    BY <1>2, CountStep, ListeningStep, FlowingStep
  <1>4. CountTypes /\ Listening /\ Flowing => NothingMissed
    BY DEF CountTypes, Listening, Flowing, Streamed, NothingMissed
  <1> QED BY <1>1, <1>3, <1>4, PTL DEF Spec

-----------------------------------------------------------------------------
(* CoreNodeClient                                                            *)

Waiting(c) == calling[c].op \in Operations

Tables ==
  /\ made \in Nat
  /\ stores = [d \in Daemons |-> stores[d]]
  /\ calling = [c \in Callers |-> calling[c]]
  /\ seen = [c \in Callers |-> seen[c]]

(* Every call has an id of its own, which the request and the reply carry;   *)
(* and no request was sent for an empty key.                                 *)
Numbered ==
  /\ \A r \in requests : 
       /\ r.op \in Operations /\ KeyIsGood(r.op, r.key)
       /\ r.id \in Nat /\ r.id < made
  /\ \A a \in answers : a.id \in Nat /\ a.id < made
  /\ \A c \in Callers : Waiting(c) => calling[c].id \in Nat /\ calling[c].id < made
  /\ \A c \in Callers, r \in requests :
       Waiting(c) /\ calling[c].id = r.id => calling[c] = r

(* A caller that waits has been shown what the daemon holds now; and what    *)
(* the reply on its way to it says was so while it waited, as was what the   *)
(* caller was told in the end.                                               *)
Shown ==
  /\ \A c \in Callers : Waiting(c) => Snapshot \in seen[c]
  /\ \A c \in Callers, a \in answers :
       Waiting(c) /\ calling[c].id = a.id =>
         WasSo(calling[c], Folded(calling[c].op, a.reply), seen[c])
  /\ \A c \in Callers : calling[c].op = "done" =>
       \/ "failed" \in DOMAIN calling[c].got
       \/ WasSo(calling[c].of, calling[c].got, seen[c])

CoreInv == Tables /\ Numbered /\ Shown

LEMMA HomeAnswers == \A op : \A d \in Reaches(op) : d = Home
  BY DEF Reaches, Scope, Target

LEMMA WasSoStays ==
  ASSUME NEW asked, NEW result, NEW shown, NEW more,
         shown \subseteq more, WasSo(asked, result, shown)
  PROVE  WasSo(asked, result, more)
  BY DEF WasSo

LEMMA WatchingShows ==
  ASSUME Watching, NEW c \in Callers
  PROVE  /\ Waiting(c)' => Snapshot' \in seen'[c]
         /\ calling'[c] = calling[c] => seen[c] \subseteq seen'[c]
  BY DEF Watching, Waiting

(* The reply of the bound daemon says what it held when it handled the       *)
(* request.                                                                  *)
LEMMA ReplyIsSo ==
  ASSUME NEW r, r.op \in Operations
  PROVE  Folded(r.op, Reply(Home, r)) = SaysOf(Snapshot, r)
  <1> USE DEF Folded, Reply, SaysOf, Snapshot, Held
  <1>1. CASE r.op = "get"
    BY <1>1
  <1>2. CASE r.op = "list"
    BY <1>2
  <1>3. CASE r.op = "remove"
    BY <1>3
  <1>4. CASE r.op = "node_stop"
    BY <1>4
  <1>5. CASE r.op = "store"
    BY <1>5
  <1> QED BY <1>1, <1>2, <1>3, <1>4, <1>5 DEF Operations

(* What the bound daemon holds before and after it handled a request says    *)
(* what its reply does.                                                      *)
LEMMA HandledIsSo ==
  ASSUME NEW r, r.op \in Operations, Tables, Home \in Daemons,
         stores' = [stores EXCEPT ![Home] = NowHolds(Home, r)],
         running' = (IF r.op = "node_stop" THEN running \ {Home} ELSE running),
         NEW shown, Snapshot \in shown, Snapshot' \in shown
  PROVE  WasSo(r, Folded(r.op, Reply(Home, r)), shown)
  <1>0. stores'[Home] = NowHolds(Home, r)
    BY DEF Tables
  <1>1. Folded(r.op, Reply(Home, r)) = SaysOf(Snapshot, r)
    BY ReplyIsSo
  <1>2. ASSUME r.op = "store"
        PROVE  /\ r.key \in DOMAIN Snapshot'.holds
               /\ Snapshot'.holds[r.key] = [value |-> r.value, by |-> r.by]
    BY <1>0, <1>2 DEF NowHolds, Snapshot
  <1>3. ASSUME Folded(r.op, Reply(Home, r)) = [removed |-> TRUE]
        PROVE  r.key \notin DOMAIN Snapshot'.holds
    <2>1. r.op = "remove"
      BY <1>3 DEF Folded, Reply, Operations
    <2> QED BY <1>0, <2>1 DEF NowHolds, Snapshot
  <1>4. ASSUME Folded(r.op, Reply(Home, r)) = [stopped |-> TRUE]
        PROVE  ~Snapshot'.runs
    <2>1. r.op = "node_stop"
      BY <1>4 DEF Folded, Reply, Operations
    <2> QED BY <2>1 DEF Snapshot
  <1> QED BY <1>1, <1>2, <1>3, <1>4 DEF WasSo

LEMMA FailedIsSaid == \A why : "failed" \in DOMAIN Failed(why)
  BY DEF Failed

LEMMA StartStep ==
  ASSUME CoreInv, NEW c \in Callers, StartCall(c) PROVE CoreInv'
  <1> USE DEF Waiting
  <1>0. Tables /\ Numbered /\ Shown
    BY DEF CoreInv
  <1> DEFINE refused == Failed("invalid key")
  <1>1. PICK op \in Operations :
          \E key \in Concerns(op), value \in Carries(op) :
            LET asked == [op |-> op, key |-> key, value |-> value, id |-> made, by |-> c] IN
            \/ /\ KeyIsGood(op, key)
               /\ calling' = [calling EXCEPT ![c] = asked]
               /\ requests' = requests \cup {asked}
            \/ /\ calling' = [calling EXCEPT ![c] =
                      [op |-> "done", of |-> asked, got |-> refused]]
               /\ requests' = requests
    BY DEF StartCall
  <1>12. "failed" \in DOMAIN refused
    BY FailedIsSaid
  <1> HIDE DEF refused
  <1>2. PICK key \in Concerns(op), value \in Carries(op) :
            LET asked == [op |-> op, key |-> key, value |-> value, id |-> made, by |-> c] IN
            \/ /\ KeyIsGood(op, key)
               /\ calling' = [calling EXCEPT ![c] = asked]
               /\ requests' = requests \cup {asked}
            \/ /\ calling' = [calling EXCEPT ![c] =
                      [op |-> "done", of |-> asked, got |-> refused]]
               /\ requests' = requests
    BY <1>1
  <1> DEFINE asked == [op |-> op, key |-> key, value |-> value, id |-> made, by |-> c]
  <1>3. Watching
    BY DEF StartCall
  <1>11. /\ ~Waiting(c) /\ made' = made + 1 /\ made \in Nat
         /\ stores' = stores /\ running' = running /\ answers' = answers
    BY <1>0 DEF StartCall, Operations, Tables
  <1>4. asked.id = made /\ asked.op = op /\ asked.key = key
    OBVIOUS
  <1>5. Snapshot' = Snapshot
    BY <1>11 DEF Snapshot
  <1> HIDE DEF asked
  <1>6. \A x \in Callers : x # c => calling'[x] = calling[x] /\ (Waiting(x)' <=> Waiting(x))
    BY <1>0, <1>2 DEF Tables, Waiting
  <1>7. \/ KeyIsGood(op, key) /\ calling'[c] = asked /\ requests' = requests \cup {asked}
        \/ /\ calling'[c] = [op |-> "done", of |-> asked, got |-> refused]
           /\ requests' = requests
    BY <1>0, <1>2 DEF Tables, asked
  <1>8. Tables'
    <2>1. calling' = [x \in Callers |-> calling'[x]]
      BY <1>0, <1>2 DEF Tables
    <2>2. seen' = [x \in Callers |-> seen'[x]]
      BY <1>3 DEF Watching
    <2>3. stores' = [d \in Daemons |-> stores'[d]]
      <3>1. stores = [d \in Daemons |-> stores[d]]
        BY <1>0 DEF Tables
      <3> QED BY <3>1, <1>11
    <2>4. made' \in Nat
      BY <1>11
    <2> QED BY <2>1, <2>2, <2>3, <2>4 DEF Tables
  <1>9. Numbered'
    <2>1. \A r \in requests' : 
           /\ r.op \in Operations /\ KeyIsGood(r.op, r.key)
           /\ r.id \in Nat /\ r.id < made'
      BY <1>0, <1>11, <1>4, <1>7 DEF Numbered, Tables
    <2>2. \A a \in answers' : a.id \in Nat /\ a.id < made'
      BY <1>0, <1>11 DEF Numbered, Tables
    <2>3. ASSUME NEW x \in Callers, Waiting(x)'
          PROVE  /\ calling'[x].id \in Nat /\ calling'[x].id < made'
                 /\ \A r \in requests' : calling'[x].id = r.id => calling'[x] = r
      <3>1. CASE x = c
        BY <3>1, <2>3, <1>0, <1>11, <1>4, <1>7 DEF Numbered, Tables, Waiting, Operations
      <3>2. CASE x # c
        BY <3>2, <2>3, <1>0, <1>11, <1>4, <1>6, <1>7 DEF Numbered, Tables
      <3> QED BY <3>1, <3>2
    <2> QED BY <2>1, <2>2, <2>3 DEF Numbered
  <1>10. Shown'
    <2>1. \A x \in Callers : Waiting(x)' => Snapshot' \in seen'[x]
      BY <1>3, WatchingShows
    <2>2. ASSUME NEW x \in Callers, NEW a \in answers', Waiting(x)', calling'[x].id = a.id
          PROVE  WasSo(calling'[x], Folded(calling'[x].op, a.reply), seen'[x])
      <3>1. x # c
        BY <2>2, <1>0, <1>11, <1>4, <1>7 DEF Waiting, Numbered, Tables, Operations
      <3>2. seen[x] \subseteq seen'[x]
        BY <3>1, <1>3, <1>6, WatchingShows
      <3>3. WasSo(calling[x], Folded(calling[x].op, a.reply), seen[x])
        BY <3>1, <2>2, <1>0, <1>11, <1>6 DEF Shown
      <3> QED BY <3>1, <3>2, <3>3, <1>6, WasSoStays
    <2>3. ASSUME NEW x \in Callers, calling'[x].op = "done", "failed" \notin DOMAIN calling'[x].got
          PROVE  WasSo(calling'[x].of, calling'[x].got, seen'[x])
      <3>1. x # c
        BY <2>3, <1>4, <1>7, <1>12 DEF Operations
      <3>2. seen[x] \subseteq seen'[x]
        BY <3>1, <1>3, <1>6, WatchingShows
      <3>3. WasSo(calling[x].of, calling[x].got, seen[x])
        BY <3>1, <2>3, <1>0, <1>6 DEF Shown
      <3> QED BY <3>1, <3>2, <3>3, <1>6, WasSoStays
    <2> QED BY <2>1, <2>2, <2>3 DEF Shown
  <1> QED BY <1>8, <1>9, <1>10 DEF CoreInv

(* A call that ends leaves what is said and shown to the others as it was.   *)
LEMMA ReturnStep ==
  ASSUME CoreInv, NEW c \in Callers, Waiting(c), NEW result, Return(c, result),
         \/ "failed" \in DOMAIN result
         \/ WasSo(calling[c], result, seen[c]),
         requests' \subseteq requests, answers' \subseteq answers,
         UNCHANGED <<stores, running, made, seen>>
  PROVE  CoreInv'
  <1>0. Tables /\ Numbered /\ Shown
    BY DEF CoreInv
  <1>1. calling'[c] = [op |-> "done", of |-> calling[c], got |-> result]
    BY <1>0 DEF Return, Tables
  <1>2. ~Waiting(c)'
    BY <1>1 DEF Waiting, Operations
  <1>3. \A x \in Callers : x # c => calling'[x] = calling[x] /\ (Waiting(x)' <=> Waiting(x))
    BY <1>0 DEF Return, Tables, Waiting
  <1>4. Snapshot' = Snapshot
    BY DEF Snapshot
  <1>5. Tables'
    BY <1>0 DEF Tables, Return
  <1>6. Numbered'
    BY <1>0, <1>2, <1>3 DEF Numbered
  <1>7. Shown'
    <2>1. \A x \in Callers : Waiting(x)' => Snapshot' \in seen'[x]
      BY <1>0, <1>2, <1>3, <1>4 DEF Shown
    <2>2. \A x \in Callers, a \in answers' :
            Waiting(x)' /\ calling'[x].id = a.id =>
              WasSo(calling'[x], Folded(calling'[x].op, a.reply), seen'[x])
      BY <1>0, <1>2, <1>3 DEF Shown
    <2>3. ASSUME NEW x \in Callers, calling'[x].op = "done"
          PROVE  \/ "failed" \in DOMAIN calling'[x].got
                 \/ WasSo(calling'[x].of, calling'[x].got, seen'[x])
      BY <2>3, <1>0, <1>1, <1>3 DEF Shown
    <2> QED BY <2>1, <2>2, <2>3 DEF Shown
  <1> QED BY <1>5, <1>6, <1>7 DEF CoreInv

LEMMA HandleStep ==
  ASSUME CoreInv, NEW r \in requests, DaemonHandles(r) PROVE CoreInv'
  <1> USE DEF Waiting
  <1>0. Tables /\ Numbered /\ Shown
    BY DEF CoreInv
  <1>1. /\ requests' = requests \ {r}
        /\ answers' = answers \cup {[id |-> r.id, reply |-> Reply(Home, r)]}
        /\ stores' = [stores EXCEPT ![Home] = NowHolds(Home, r)]
        /\ running' = IF r.op = "node_stop" THEN running \ {Home} ELSE running
        /\ calling' = calling /\ made' = made
    BY HomeAnswers DEF DaemonHandles
  <1>8. Watching
    BY DEF DaemonHandles
  <1>2. r.op \in Operations /\ r.id \in Nat /\ r.id < made
    BY <1>0 DEF Numbered
  <1>9. Home \in Daemons
    BY CoreNodeClientAssumption, Zenon
  <1>3. Tables'
    <2>1. seen' = [x \in Callers |-> seen'[x]]
      BY <1>8 DEF Watching
    <2>2. stores' = [d \in Daemons |-> stores'[d]]
      BY <1>0, <1>1 DEF Tables
    <2> QED BY <1>0, <1>1, <2>1, <2>2 DEF Tables
  <1>4. \A x \in Callers : calling'[x] = calling[x] /\ (Waiting(x)' <=> Waiting(x))
    BY <1>1 DEF Waiting
  <1>5. \A x \in Callers :
          /\ seen[x] \subseteq seen'[x]
          /\ Waiting(x) => Snapshot' \in seen'[x]
    BY <1>8, <1>4, WatchingShows
  <1>6. Numbered'
    BY <1>0, <1>1, <1>2, <1>4 DEF Numbered
  <1>7. Shown'
    <2>1. ASSUME NEW x \in Callers, NEW a \in answers', Waiting(x), calling[x].id = a.id
          PROVE  WasSo(calling[x], Folded(calling[x].op, a.reply), seen'[x])
      <3>1. CASE a \in answers
        <4>1. WasSo(calling[x], Folded(calling[x].op, a.reply), seen[x])
          BY <3>1, <2>1, <1>0 DEF Shown
        <4>2. seen[x] \subseteq seen'[x]
          BY <1>5
        <4> QED BY <4>1, <4>2, WasSoStays
      <3>2. CASE a = [id |-> r.id, reply |-> Reply(Home, r)]
        <4>1. calling[x] = r
          BY <3>2, <2>1, <1>0 DEF Numbered
        <4>2. Snapshot \in seen'[x] /\ Snapshot' \in seen'[x]
          <5>1. Snapshot \in seen[x]
            BY <2>1, <1>0 DEF Shown
          <5> QED BY <5>1, <2>1, <1>5
        <4>3. WasSo(r, Folded(r.op, Reply(Home, r)), seen'[x])
          BY <4>2, <1>0, <1>1, <1>2, <1>9, HandledIsSo
        <4> QED BY <3>2, <4>1, <4>3
      <3> QED BY <3>1, <3>2, <2>1, <1>1
    <2>2. ASSUME NEW x \in Callers, calling[x].op = "done", "failed" \notin DOMAIN calling[x].got
          PROVE  WasSo(calling[x].of, calling[x].got, seen'[x])
      <3>1. WasSo(calling[x].of, calling[x].got, seen[x])
        BY <2>2, <1>0 DEF Shown
      <3>2. seen[x] \subseteq seen'[x]
        BY <1>5
      <3> QED BY <3>1, <3>2, WasSoStays
    <2>3. ASSUME NEW x \in Callers, Waiting(x)' PROVE Snapshot' \in seen'[x]
      BY <2>3, <1>4, <1>5
    <2>4. \A x \in Callers, a \in answers' :
            Waiting(x)' /\ calling'[x].id = a.id =>
              WasSo(calling'[x], Folded(calling'[x].op, a.reply), seen'[x])
      BY <2>1, <1>4
    <2>5. \A x \in Callers : calling'[x].op = "done" =>
            \/ "failed" \in DOMAIN calling'[x].got
            \/ WasSo(calling'[x].of, calling'[x].got, seen'[x])
      BY <2>2, <1>4
    <2> QED BY <2>3, <2>4, <2>5 DEF Shown
  <1> QED BY <1>3, <1>6, <1>7 DEF CoreInv

LEMMA CoreStep == ASSUME CoreInv, [CoreNext]_coreVars PROVE CoreInv'
  <1>0. Tables /\ Numbered /\ Shown
    BY DEF CoreInv
  <1>1. ASSUME NEW c \in Callers, StartCall(c) PROVE CoreInv'
    BY <1>1, StartStep
  <1>2. ASSUME NEW c \in Callers, ReplyArrives(c) PROVE CoreInv'
    <2>1. PICK a \in answers :
            /\ Waiting(c) /\ a.id = calling[c].id
            /\ Return(c, Folded(calling[c].op, a.reply))
            /\ answers' = answers \ {a}
            /\ UNCHANGED <<stores, listening, running, requests, made, seen>>
      BY <1>2 DEF ReplyArrives, Waiting
    <2>2. WasSo(calling[c], Folded(calling[c].op, a.reply), seen[c])
      BY <1>0, <2>1 DEF Shown
    <2> QED BY <2>1, <2>2, ReturnStep
  <1>3. ASSUME NEW c \in Callers, NotReached(c) PROVE CoreInv'
    <2>1. "failed" \in DOMAIN Failed("unreachable")
      BY FailedIsSaid
    <2>2. /\ Waiting(c) /\ Return(c, Failed("unreachable"))
          /\ requests' \subseteq requests
          /\ UNCHANGED <<stores, running, answers, made, seen>>
      BY <1>3 DEF NotReached, Waiting
    <2> QED BY <2>1, <2>2, ReturnStep
  <1>4. ASSUME NEW c \in Callers, CallTimesOut(c) PROVE CoreInv'
    <2>1. "failed" \in DOMAIN Failed("timeout")
      BY FailedIsSaid
    <2>2. /\ Waiting(c) /\ Return(c, Failed("timeout"))
          /\ UNCHANGED <<stores, running, requests, answers, made, seen>>
      BY <1>4 DEF CallTimesOut, Waiting
    <2> QED BY <2>1, <2>2, ReturnStep
  <1>5. ASSUME NEW r \in requests, DaemonHandles(r) PROVE CoreInv'
    BY <1>5, HandleStep
  <1>6. CASE UNCHANGED coreVars
    BY <1>6 DEF coreVars, CoreInv, Tables, Numbered, Shown, Waiting, Snapshot
  <1> QED BY <1>1, <1>2, <1>3, <1>4, <1>5, <1>6 DEF CoreNext

(* What a caller is told was so at its own daemon while it waited, with any  *)
(* number of daemons, callers, keys, values and calls, whatever is late      *)
(* (datastore.rs, transport.rs).                                             *)
THEOREM AnswersCorrect == CoreSpec => []AnswersAreTrue
  <1>1. CoreInit => CoreInv
    <2> SUFFICES ASSUME CoreInit PROVE CoreInv
      OBVIOUS
    <2>1. \A c \in Callers : ~Waiting(c) /\ calling[c].op # "done"
      BY DEF CoreInit, Waiting, Idle, Operations
    <2>2. Tables
      BY CoreNodeClientAssumption DEF CoreInit, Tables
    <2>3. Numbered /\ Shown
      BY <2>1 DEF CoreInit, Numbered, Shown
    <2> QED BY <2>2, <2>3 DEF CoreInv
  <1>2. CoreInv /\ [CoreNext]_coreVars => CoreInv'
    BY CoreStep
  <1>3. CoreInv => AnswersAreTrue
    BY DEF CoreInv, Numbered, Shown, AnswersAreTrue, KeyIsGood
  <1> QED BY <1>1, <1>2, <1>3, PTL DEF CoreSpec
=============================================================================
