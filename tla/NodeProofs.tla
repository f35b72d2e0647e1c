------------------------------ MODULE NodeProofs ------------------------------
(***************************************************************************)
(* Proofs about the parts of a node process: NodeLifecycle, for every      *)
(* number of hooks and whether or not they may hang on a blocking thread,  *)
(* PyFutures, for every number of calls, PyNode, and NodeArguments, for    *)
(* all manifests and arguments.                                            *)
(***************************************************************************)
EXTENDS NodeLifecycle, PyNode, PyFutures, NodeArguments, NumberInduction, SequenceTheorems,
        TLAPS

-----------------------------------------------------------------------------
(* NodeLifecycle                                                             *)

HookTypes ==
  /\ registry \in Seq(Nat) /\ queue \in Seq(Nat) /\ ran \in Seq(Nat)
  /\ hookKind \in Seq(Kinds)

(* Hooks are numbered from 1 as they are registered, so the later ones are   *)
(* the greater: what was registered while hooks ran stands above what was    *)
(* taken out, and of that what has run stands above what waits.              *)
HooksInOrder ==
  /\ \A i \in DOMAIN registry : registry[i] <= Registered
  /\ \A i, j \in DOMAIN registry : i < j => registry[i] < registry[j]
  /\ \A i, j \in DOMAIN queue : i < j => queue[i] > queue[j]
  /\ \A i, j \in DOMAIN ran : i < j => ran[i] > ran[j]
  /\ \A i \in DOMAIN queue : queue[i] <= Registered
  /\ \A i \in DOMAIN ran : ran[i] <= Registered
  /\ \A i \in DOMAIN ran, j \in DOMAIN queue : ran[i] > queue[j]
  /\ \A i \in DOMAIN registry, j \in DOMAIN queue : registry[i] > queue[j]
  /\ \A i \in DOMAIN registry, j \in DOMAIN ran : registry[i] > ran[j]

Taken == stage \in {"hooks", "teardown", "exited"}

(* Nothing registered before the cancellation gets lost on its way from the  *)
(* registry over the queue to what has run; and nothing is in time that was  *)
(* registered when the hooks had been taken out.                             *)
HooksKept ==
  /\ stage \in {"off", "setup", "post", "converged", "hooks", "teardown", "exited"}
  /\ stage \notin {"hooks", "teardown", "exited"} => queue = <<>> /\ ran = <<>>
  /\ stage = "off" => inTime = {}
  /\ stage \in {"converged", "hooks"} => cancelled
  /\ Taken /\ ~cut =>
       /\ inTime \subseteq ToSet(queue) \cup ToSet(ran)
       /\ cancelled \/ stage = "exited"
  /\ ~Taken => inTime \subseteq ToSet(registry)
  /\ stage \in {"teardown", "exited"} /\ ~cut /\ ~graceOver => queue = <<>>

HookInv == HookTypes /\ HooksInOrder /\ HooksKept

LEMMA AppendIsLast ==
  ASSUME NEW s \in Seq(Nat), NEW m \in Nat
  PROVE  /\ Append(s, m) \in Seq(Nat) /\ Len(Append(s, m)) = Len(s) + 1
         /\ \A i \in DOMAIN s : Append(s, m)[i] = s[i]
         /\ Append(s, m)[Len(s) + 1] = m
         /\ \A i \in DOMAIN Append(s, m) : i \in DOMAIN s \/ i = Len(s) + 1
         /\ ToSet(Append(s, m)) = ToSet(s) \cup {m}
  <1>1. /\ Append(s, m) \in Seq(Nat) /\ Len(Append(s, m)) = Len(s) + 1
        /\ \A i \in DOMAIN s : Append(s, m)[i] = s[i]
        /\ Append(s, m)[Len(s) + 1] = m
        /\ \A i \in DOMAIN Append(s, m) : i \in DOMAIN s \/ i = Len(s) + 1
        /\ \A i \in DOMAIN s : i \in DOMAIN Append(s, m)
        /\ Len(s) + 1 \in DOMAIN Append(s, m)
    OBVIOUS
  <1>2. ToSet(Append(s, m)) = ToSet(s) \cup {m}
    BY <1>1 DEF ToSet
  <1> QED BY <1>1, <1>2

LEMMA TailIsRest ==
  ASSUME NEW s \in Seq(Nat), s # <<>>
  PROVE  /\ Tail(s) \in Seq(Nat) /\ 1 \in DOMAIN s /\ Head(s) = s[1] /\ s[1] \in Nat
         /\ \A i \in DOMAIN Tail(s) : i \in Nat /\ i + 1 \in DOMAIN s /\ Tail(s)[i] = s[i + 1]
         /\ ToSet(s) = {Head(s)} \cup ToSet(Tail(s))
  <1>1. /\ Tail(s) \in Seq(Nat) /\ 1 \in DOMAIN s /\ Head(s) = s[1] /\ s[1] \in Nat
        /\ \A i \in DOMAIN Tail(s) : i \in Nat /\ i + 1 \in DOMAIN s /\ Tail(s)[i] = s[i + 1]
    OBVIOUS
  <1>2. ASSUME NEW i \in DOMAIN s, i # 1
        PROVE  i - 1 \in DOMAIN Tail(s) /\ Tail(s)[i - 1] = s[i]
    BY <1>2
  <1>3. ToSet(s) = {Head(s)} \cup ToSet(Tail(s))
    <2>1. ASSUME NEW x \in ToSet(s) PROVE x = Head(s) \/ x \in ToSet(Tail(s))
      <3>1. PICK i \in DOMAIN s : x = s[i]
        BY <2>1 DEF ToSet
      <3>2. CASE i = 1
        BY <3>1, <3>2, <1>1
      <3>3. CASE i # 1
        BY <3>1, <3>3, <1>2 DEF ToSet
      <3> QED BY <3>2, <3>3
    <2>2. Head(s) \in ToSet(s)
      BY <1>1 DEF ToSet
    <2>3. ASSUME NEW x \in ToSet(Tail(s)) PROVE x \in ToSet(s)
      <3>1. PICK i \in DOMAIN Tail(s) : x = Tail(s)[i]
        BY <2>3 DEF ToSet
      <3> QED BY <3>1, <1>1 DEF ToSet
    <2> QED BY <2>1, <2>2, <2>3
  <1> QED BY <1>1, <1>3

LEMMA ReverseIsMirror ==
  ASSUME NEW s \in Seq(Nat)
  PROVE  /\ Reverse(s) \in Seq(Nat)
         /\ \A i \in DOMAIN Reverse(s) :
              /\ i \in 1..Len(s) /\ Len(s) - i + 1 \in DOMAIN s
              /\ Reverse(s)[i] = s[Len(s) - i + 1]
         /\ ToSet(Reverse(s)) = ToSet(s)
  <1>1. /\ Len(s) \in Nat /\ DOMAIN s = 1..Len(s) /\ DOMAIN Reverse(s) = 1..Len(s)
        /\ \A i \in 1..Len(s) : s[i] \in Nat
    BY DEF Reverse
  <1>2. ASSUME NEW i \in 1..Len(s)
        PROVE  Len(s) - i + 1 \in 1..Len(s) /\ Reverse(s)[i] = s[Len(s) - i + 1]
    BY <1>1 DEF Reverse
  <1>3. Reverse(s) \in Seq(Nat)
    <2>1. Reverse(s) \in [1..Len(s) -> Nat]
      BY <1>1, <1>2 DEF Reverse
    <2> QED BY <1>1, <2>1
  <1>4. ASSUME NEW i \in 1..Len(s)
        PROVE  \E j \in 1..Len(s) : Reverse(s)[j] = s[i]
    <2>1. Len(s) - i + 1 \in 1..Len(s) /\ Len(s) - (Len(s) - i + 1) + 1 = i
      BY <1>1
    <2> QED BY <2>1, <1>2
  <1>5. ToSet(Reverse(s)) = ToSet(s)
    <2>1. ASSUME NEW x \in ToSet(s) PROVE x \in ToSet(Reverse(s))
      <3>1. PICK i \in 1..Len(s) : x = s[i]
        BY <2>1, <1>1 DEF ToSet
      <3> QED BY <3>1, <1>1, <1>4 DEF ToSet
    <2>2. ASSUME NEW x \in ToSet(Reverse(s)) PROVE x \in ToSet(s)
      <3>1. PICK i \in 1..Len(s) : x = Reverse(s)[i]
        BY <2>2, <1>1 DEF ToSet
      <3> QED BY <3>1, <1>1, <1>2 DEF ToSet
    <2> QED BY <2>1, <2>2
  <1> QED BY <1>1, <1>2, <1>3, <1>5

LEMMA ConcatIsInjective ==
  ASSUME NEW s \in Seq(Nat), NEW t \in Seq(Nat), IsInjective(s), IsInjective(t),
         \A i \in DOMAIN s, j \in DOMAIN t : s[i] # t[j]
  PROVE  IsInjective(s \o t)
  <1>1. ASSUME NEW i \in DOMAIN (s \o t)
        PROVE  \/ i \in DOMAIN s /\ (s \o t)[i] = s[i]
               \/ i - Len(s) \in DOMAIN t /\ (s \o t)[i] = t[i - Len(s)]
    OBVIOUS
  <1>2. ASSUME NEW i \in DOMAIN (s \o t), NEW j \in DOMAIN (s \o t),
               (s \o t)[i] = (s \o t)[j]
        PROVE  i = j
    <2>1. i \in Nat /\ j \in Nat /\ Len(s) \in Nat
      OBVIOUS
    <2>2. \/ i \in DOMAIN s /\ j \in DOMAIN s
          \/ i - Len(s) \in DOMAIN t /\ j - Len(s) \in DOMAIN t
                /\ t[i - Len(s)] = t[j - Len(s)]
      BY <1>1, <1>2
    <2>3. CASE i \in DOMAIN s /\ j \in DOMAIN s
      BY <1>2, <2>3 DEF IsInjective
    <2>4. CASE i - Len(s) \in DOMAIN t /\ j - Len(s) \in DOMAIN t
                 /\ t[i - Len(s)] = t[j - Len(s)]
      <3>1. i - Len(s) = j - Len(s)
        BY <2>4 DEF IsInjective
      <3> QED BY <2>1, <3>1
    <2> QED BY <2>2, <2>3, <2>4
  <1> QED BY <1>2 DEF IsInjective

LEMMA OrderIsKept ==
  ASSUME HooksInOrder, UNCHANGED <<registry, hookKind, queue, ran>>
  PROVE  HooksInOrder'
  BY DEF HooksInOrder, Registered

LEMMA HooksKeptStep ==
  ASSUME HookInv, [NodeNext]_nodeVars PROVE HookInv'
  <1>0. HookTypes /\ HooksInOrder /\ HooksKept
    BY DEF HookInv
  <1> USE DEF nodeVars, hookVars, daemonVars
  <1>1. ASSUME UNCHANGED hookVars, HooksKept' PROVE HookInv'
    BY <1>0, <1>1, OrderIsKept DEF HookInv, HookTypes
  <1>2. ASSUME NEW m, Launch(m) \/ LaunchFails(m) PROVE HookInv'
    <2>1. UNCHANGED hookVars
      BY <1>2 DEF Launch, LaunchFails
    <2>2. stage = "off" /\ stage' \in {"setup", "exited"} /\ UNCHANGED <<cancelled, cut>>
      BY <1>2 DEF Launch, LaunchFails
    <2>3. HooksKept'
      BY <1>0, <2>1, <2>2 DEF HooksKept, Taken
    <2> QED BY <1>1, <2>1, <2>3
  <1>3. ASSUME SetupReturns \/ SetupPanics PROVE HookInv'
    <2>1. UNCHANGED hookVars
      BY <1>3 DEF SetupReturns, SetupPanics, MoveTo
    <2>2. /\ stage = "setup"
          /\ \/ stage' = "post" /\ UNCHANGED <<cancelled, cut>>
             \/ stage' = "teardown" /\ cut'
      BY <1>3 DEF SetupReturns, SetupPanics, MoveTo
    <2>3. HooksKept'
      BY <1>0, <2>1, <2>2 DEF HooksKept, Taken
    <2> QED BY <1>1, <2>1, <2>3
  <1>4. ASSUME SetupFails \/ ServicesEnd \/ ObserveStop PROVE HookInv'
    <2>1. stage \in {"setup", "post"} /\ Converge
      BY <1>4 DEF SetupFails, OnSetupError, ServicesEnd, ObserveStop, SelectsIn
    <2>2. UNCHANGED hookVars /\ stage' = "converged" /\ cancelled'
      BY <2>1 DEF Converge
    <2>3. HooksKept'
      BY <1>0, <2>1, <2>2 DEF HooksKept, Taken
    <2> QED BY <1>1, <2>2, <2>3
  <1>5. ASSUME RegisterHook PROVE HookInv'
    <2>1. PICK k \in Kinds : hookKind' = Append(hookKind, k)
      BY <1>5 DEF RegisterHook
    <2>2. /\ Registered' = Registered + 1 /\ Registered \in Nat
          /\ hookKind' \in Seq(Kinds)
      BY <1>0, <2>1 DEF HookTypes, Registered
    <2>3. /\ registry' = Append(registry, Registered + 1)
          /\ inTime' = IF cancelled THEN inTime ELSE inTime \cup {Registered + 1}
          /\ UNCHANGED <<stage, cancelled, cut, queue, ran, graceOver>> /\ Running
      BY <1>5 DEF RegisterHook
    <2>4. /\ registry' \in Seq(Nat) /\ ToSet(registry') = ToSet(registry) \cup {Registered + 1}
          /\ \A i \in DOMAIN registry : registry'[i] = registry[i]
          /\ registry'[Len(registry) + 1] = Registered + 1
          /\ \A i \in DOMAIN registry' : i \in DOMAIN registry \/ i = Len(registry) + 1
      BY <1>0, <2>2, <2>3, AppendIsLast DEF HookTypes
    <2>5. HookTypes'
      BY <1>0, <2>2, <2>3, <2>4 DEF HookTypes
    <2>6. HooksInOrder'
      <3>1. /\ \A i \in DOMAIN registry : registry[i] \in Nat /\ i \in 1..Len(registry)
            /\ \A i \in DOMAIN queue : queue[i] \in Nat
            /\ \A i \in DOMAIN ran : ran[i] \in Nat /\ Len(registry) \in Nat
        BY <1>0 DEF HookTypes
      <3>2. ASSUME NEW i \in DOMAIN registry'
            PROVE  /\ registry'[i] <= Registered'
                   /\ \A j \in DOMAIN queue : registry'[i] > queue[j]
                   /\ \A j \in DOMAIN ran : registry'[i] > ran[j]
        <4>1. CASE i \in DOMAIN registry
          BY <4>1, <1>0, <2>2, <2>4, <3>1 DEF HooksInOrder
        <4>2. CASE i = Len(registry) + 1
          BY <4>2, <1>0, <2>2, <2>4, <3>1 DEF HooksInOrder
        <4> QED BY <4>1, <4>2, <2>4
      <3>3. ASSUME NEW i \in DOMAIN registry', NEW j \in DOMAIN registry', i < j
            PROVE  registry'[i] < registry'[j]
        <4>1. i \in DOMAIN registry
          <5>1. CASE i = Len(registry) + 1
            <6>1. j \in 1..(Len(registry) + 1)
              BY <2>4, <3>1 
            <6> QED BY <5>1, <6>1, <3>3, <3>1
          <5> QED BY <5>1, <2>4
        <4>2. CASE j \in DOMAIN registry
          BY <4>1, <4>2, <3>3, <1>0, <2>4 DEF HooksInOrder
        <4>3. CASE j = Len(registry) + 1
          BY <4>1, <4>3, <1>0, <2>2, <2>4, <3>1 DEF HooksInOrder
        <4> QED BY <4>2, <4>3, <2>4
      <3>4. /\ \A i \in DOMAIN queue : queue[i] <= Registered'
            /\ \A i \in DOMAIN ran : ran[i] <= Registered'
        BY <1>0, <2>2, <3>1 DEF HooksInOrder
      <3> QED BY <1>0, <2>3, <3>2, <3>3, <3>4 DEF HooksInOrder
    <2>7. HooksKept'
      BY <1>0, <2>3, <2>4 DEF HooksKept, Taken, Running
    <2> QED BY <2>5, <2>6, <2>7 DEF HookInv
  <1>6. ASSUME TakeHooks PROVE HookInv'
    <2>1. /\ stage = "converged" /\ stage' = "hooks"
          /\ queue' = Reverse(registry) /\ registry' = <<>>
          /\ UNCHANGED <<cancelled, cut, hookKind, inTime, ran, graceOver>>
      BY <1>6 DEF TakeHooks, LastFirst, LeftAfterTake
    <2>2. /\ queue' \in Seq(Nat) /\ ToSet(queue') = ToSet(registry)
          /\ \A i \in DOMAIN queue' :
               /\ i \in 1..Len(registry) /\ Len(registry) - i + 1 \in DOMAIN registry
               /\ queue'[i] = registry[Len(registry) - i + 1]
      BY <1>0, <2>1, ReverseIsMirror DEF HookTypes
    <2>3. registry' \in Seq(Nat) /\ DOMAIN registry' = {}
      BY <2>1
    <2>4. ran = <<>> /\ DOMAIN ran = {}
      BY <1>0, <2>1 DEF HooksKept
    <2>5. HookTypes'
      BY <1>0, <2>1, <2>2, <2>3 DEF HookTypes
    <2>6. HooksInOrder'
      <3>1. ASSUME NEW i \in DOMAIN queue', NEW j \in DOMAIN queue', i < j
            PROVE  queue'[i] > queue'[j]
        <4>1. Len(registry) \in Nat /\ Len(registry) - j + 1 < Len(registry) - i + 1
          <5>1. Len(registry) \in Nat
            BY <1>0 DEF HookTypes
          <5>2. i \in 1..Len(registry) /\ j \in 1..Len(registry)
            BY <2>2
          <5> QED BY <5>1, <5>2, <3>1
        <4>2. registry[Len(registry) - j + 1] < registry[Len(registry) - i + 1]
          BY <1>0, <2>2, <4>1 DEF HooksInOrder
        <4>3. queue'[i] \in Nat /\ queue'[j] \in Nat
          BY <2>2
        <4> QED BY <2>2, <4>2, <4>3
      <3>2. \A i \in DOMAIN queue' : queue'[i] <= Registered'
        BY <1>0, <2>1, <2>2 DEF HooksInOrder, Registered
      <3> QED BY <2>1, <2>3, <2>4, <3>1, <3>2 DEF HooksInOrder
    <2>7. HooksKept'
      BY <1>0, <2>1, <2>2 DEF HooksKept, Taken
    <2> QED BY <2>5, <2>6, <2>7 DEF HookInv
  <1>7. ASSUME HookEnds PROVE HookInv'
    <2>1. /\ stage = "hooks" /\ queue # <<>>
          /\ queue' = Tail(queue) /\ ran' = Append(ran, Head(queue))
          /\ UNCHANGED <<stage, cancelled, cut, registry, hookKind, inTime, graceOver>>
      BY <1>7 DEF HookEnds
    <2>2. /\ queue' \in Seq(Nat) /\ 1 \in DOMAIN queue /\ Head(queue) = queue[1]
          /\ queue[1] \in Nat /\ ToSet(queue) = {Head(queue)} \cup ToSet(queue')
          /\ \A i \in DOMAIN queue' :
               i \in Nat /\ i + 1 \in DOMAIN queue /\ queue'[i] = queue[i + 1]
      BY <1>0, <2>1, TailIsRest DEF HookTypes
    <2>3. /\ ran' \in Seq(Nat) /\ ToSet(ran') = ToSet(ran) \cup {Head(queue)}
          /\ \A i \in DOMAIN ran : ran'[i] = ran[i]
          /\ ran'[Len(ran) + 1] = queue[1]
          /\ \A i \in DOMAIN ran' : i \in DOMAIN ran \/ i = Len(ran) + 1
      BY <1>0, <2>1, <2>2, AppendIsLast DEF HookTypes
    <2>4. HookTypes'
      BY <1>0, <2>1, <2>2, <2>3 DEF HookTypes
    <2>5. HooksInOrder'
      <3>1. /\ \A i \in DOMAIN ran : ran[i] \in Nat /\ i \in 1..Len(ran)
            /\ \A i \in DOMAIN queue : queue[i] \in Nat /\ i \in 1..Len(queue)
            /\ Len(ran) \in Nat /\ Registered \in Nat
        BY <1>0 DEF HookTypes, Registered
      <3>2. ASSUME NEW i \in DOMAIN queue'
            PROVE  /\ queue[1] > queue'[i] /\ queue'[i] <= Registered
                   /\ \A j \in DOMAIN queue' : i < j => queue'[i] > queue'[j]
                   /\ \A j \in DOMAIN ran : ran[j] > queue'[i]
                   /\ \A j \in DOMAIN registry : registry[j] > queue'[i]
        <4>1. 1 < i + 1
          BY <2>2, <3>1
        <4>2. ASSUME NEW j \in DOMAIN queue', i < j PROVE queue'[i] > queue'[j]
          <5>1. i + 1 < j + 1
            BY <2>2, <4>2
          <5> QED BY <1>0, <2>2, <5>1 DEF HooksInOrder
        <4> QED BY <1>0, <2>2, <4>1, <4>2 DEF HooksInOrder
      <3>3. ASSUME NEW i \in DOMAIN ran'
            PROVE  /\ ran'[i] <= Registered
                   /\ \A j \in DOMAIN queue' : ran'[i] > queue'[j]
                   /\ \A j \in DOMAIN registry : registry[j] > ran'[i]
        <4>1. CASE i \in DOMAIN ran
          BY <4>1, <1>0, <2>3, <3>2 DEF HooksInOrder
        <4>2. CASE i = Len(ran) + 1
          BY <4>2, <1>0, <2>2, <2>3, <3>2 DEF HooksInOrder
        <4> QED BY <4>1, <4>2, <2>3
      <3>4. ASSUME NEW i \in DOMAIN ran', NEW j \in DOMAIN ran', i < j
            PROVE  ran'[i] > ran'[j]
        <4>1. i \in DOMAIN ran
          <5>1. Len(ran) \in Nat /\ \A k \in DOMAIN ran : k \in Nat /\ k <= Len(ran)
            BY <1>0 DEF HookTypes
          <5>2. j \in DOMAIN ran \/ j = Len(ran) + 1
            BY <2>3
          <5>3. i \in DOMAIN ran \/ i = Len(ran) + 1
            BY <2>3
          <5> QED BY <3>4, <5>1, <5>2, <5>3
        <4>2. CASE j \in DOMAIN ran
          BY <4>1, <4>2, <3>4, <1>0, <2>3 DEF HooksInOrder
        <4>3. CASE j = Len(ran) + 1
          BY <4>1, <4>3, <1>0, <2>2, <2>3 DEF HooksInOrder
        <4> QED BY <4>2, <4>3, <2>3
      <3>5. Registered' = Registered
        BY <2>1 DEF Registered
      <3> QED BY <1>0, <2>1, <3>2, <3>3, <3>4, <3>5 DEF HooksInOrder
    <2>6. HooksKept'
      BY <1>0, <2>1, <2>2, <2>3 DEF HooksKept, Taken
    <2> QED BY <2>4, <2>5, <2>6 DEF HookInv
  <1>8. ASSUME HooksDone \/ GraceEnds \/ TearDown PROVE HookInv'
    <2>1. /\ UNCHANGED <<registry, hookKind, inTime, queue, ran, cancelled, cut>>
          /\ \/ stage = "hooks" /\ stage' = "teardown" /\ queue = <<>> /\ graceOver' = graceOver
             \/ stage = "hooks" /\ stage' = "teardown" /\ graceOver'
             \/ stage = "teardown" /\ stage' = "exited" /\ graceOver' = graceOver
      BY <1>8 DEF HooksDone, GraceEnds, TearDown, MoveTo
    <2>2. HooksKept'
      BY <1>0, <2>1 DEF HooksKept, Taken
    <2> QED BY <1>0, <2>1, <2>2, OrderIsKept DEF HookInv, HookTypes
  <1>9. ASSUME Stop PROVE HookInv'
    <2>1. /\ UNCHANGED hookVars
          /\ \/ UNCHANGED <<stage, cancelled, cut>>
             \/ UNCHANGED <<stage, cut>> /\ cancelled' /\ stage # "off"
             \/ stage' = "exited" /\ cut' /\ UNCHANGED cancelled /\ Running
      BY <1>9 DEF Stop, ShutdownRequest, Signal, BridgeFirst, BridgeSecond, Running
    <2>2. HooksKept'
      BY <1>0, <2>1 DEF HooksKept, Taken, Running
    <2> QED BY <1>1, <2>1, <2>2
  <1>10. ASSUME Watchdog PROVE HookInv'
    <2>1. UNCHANGED <<hookVars, stage, cut>> /\ (cancelled' = cancelled \/ cancelled')
      BY <1>10 DEF Watchdog, DaemonDies, DaemonReturns, Beat, Arrives, Tick,
         ReadBeat, DaemonSilent, WatchdogStops
    <2>2. HooksKept'
      BY <1>0, <2>1 DEF HooksKept, Taken
    <2> QED BY <1>1, <2>1, <2>2
  <1>11. CASE UNCHANGED nodeVars
    <2>1. HooksKept'
      BY <1>0, <1>11 DEF HooksKept, Taken
    <2> QED BY <1>1, <1>11, <2>1
  <1> QED BY <1>2, <1>3, <1>4, <1>5, <1>6, <1>7, <1>8, <1>9, <1>10, <1>11
          DEF NodeNext, Run

(***************************************************************************)
(* "Every exit path converges here" (run_with_closure): whatever ends the  *)
(* node, and however many hooks it has, those registered in time are       *)
(* finished unless it is cut or runs out of grace; none runs twice, and    *)
(* the last registered is the first that runs (on_shutdown).               *)
(***************************************************************************)
THEOREM HooksCorrect == NodeSpec => []HooksFinished
  <1>1. NodeInit => HookInv
    <2> SUFFICES ASSUME NodeInit PROVE HookInv
      OBVIOUS
    <2>1. /\ registry = <<>> /\ queue = <<>> /\ ran = <<>> /\ hookKind = <<>>
          /\ stage = "off" /\ inTime = {}
      BY DEF NodeInit
    <2>2. HookTypes
      BY <2>1 DEF HookTypes
    <2>3. HooksInOrder
      BY <2>1 DEF HooksInOrder
    <2>4. HooksKept
      BY <2>1 DEF HooksKept, Taken, ToSet
    <2> QED BY <2>2, <2>3, <2>4 DEF HookInv
  <1>2. HookInv /\ [NodeNext]_nodeVars => HookInv'
    BY HooksKeptStep
  <1>3. HookInv => HooksFinished
    <2> SUFFICES ASSUME HookInv PROVE HooksFinished
      OBVIOUS
    <2>0. HookTypes /\ HooksInOrder /\ HooksKept
      BY DEF HookInv
    <2>1. IsInjective(registry \o queue \o ran)
      <3>1. /\ \A i \in DOMAIN registry : registry[i] \in Nat /\ i \in Nat
            /\ \A i \in DOMAIN queue : queue[i] \in Nat /\ i \in Nat
            /\ \A i \in DOMAIN ran : ran[i] \in Nat /\ i \in Nat
        BY <2>0 DEF HookTypes
      <3>2. IsInjective(registry) /\ IsInjective(queue) /\ IsInjective(ran)
        BY <2>0, <3>1 DEF HooksInOrder, IsInjective
      <3>3. IsInjective(registry \o queue) /\ registry \o queue \in Seq(Nat)
        BY <2>0, <3>1, <3>2, ConcatIsInjective DEF HookTypes, HooksInOrder
      <3>4. ASSUME NEW i \in DOMAIN (registry \o queue), NEW j \in DOMAIN ran
            PROVE  (registry \o queue)[i] # ran[j]
        <4>1. \/ i \in DOMAIN registry /\ (registry \o queue)[i] = registry[i]
              \/ /\ i - Len(registry) \in DOMAIN queue
                 /\ (registry \o queue)[i] = queue[i - Len(registry)]
          BY <2>0 DEF HookTypes
        <4> QED BY <4>1, <2>0, <3>1 DEF HooksInOrder
      <3> QED BY <2>0, <3>2, <3>3, <3>4, ConcatIsInjective DEF HookTypes
    <2>2. stage = "exited" /\ ~cut /\ ~graceOver => inTime \subseteq ToSet(ran)
      BY <2>0 DEF HooksKept, Taken, ToSet
    <2> QED BY <2>0, <2>1, <2>2 DEF HooksFinished, HooksInOrder
  <1> QED BY <1>1, <1>2, <1>3, PTL DEF NodeSpec

(* The watchdog's window is never older than the last beat's arrival, and    *)
(* beats of a daemon that is up arrive within the window.                    *)
WindowInv ==
  /\ waited \in 0..Grace /\ quiet \in 0..Grace
  /\ beat \in BOOLEAN /\ daemonUp \in BOOLEAN
  /\ beat = FALSE => waited <= quiet
  /\ daemonUp = TRUE => quiet < Grace

LEMMA WindowStep == ASSUME WindowInv, [NodeNext]_nodeVars PROVE WindowInv'
  <1> USE NodeAssumption DEF WindowInv
  <1>1. CASE Tick
    <2>1. /\ waited' = Longer(waited) /\ quiet' = Longer(quiet)
          /\ UNCHANGED <<daemonUp, beat>>
          /\ daemonUp = TRUE => quiet + 1 < Grace
      BY <1>1 DEF Tick
    <2>2. waited \in 0..Grace /\ quiet \in 0..Grace /\ Grace \in Nat
      OBVIOUS
    <2>3. /\ Longer(waited) \in 0..Grace /\ Longer(quiet) \in 0..Grace
          /\ waited <= quiet => Longer(waited) <= Longer(quiet)
          /\ quiet + 1 < Grace => Longer(quiet) < Grace
      BY <2>2 DEF Longer
    <2>4. waited' \in 0..Grace /\ quiet' \in 0..Grace
      BY <2>1, <2>3
    <2>5. beat' = FALSE => waited' <= quiet'
      BY <2>1, <2>3
    <2>6. daemonUp' = TRUE => quiet' < Grace
      BY <2>1, <2>3
    <2> QED BY <2>1, <2>4, <2>5, <2>6
  <1>2. CASE Beat \/ DaemonReturns
    <2>1. beat' = TRUE /\ quiet' = 0 /\ waited' = waited
      BY <1>2 DEF Beat, DaemonReturns, Arrives
    <2>2. daemonUp' = TRUE
      BY <1>2 DEF Beat, DaemonReturns
    <2>3. quiet' \in 0..Grace /\ quiet' < Grace /\ beat' # FALSE
      BY <2>1
    <2> QED BY <2>1, <2>2, <2>3
  <1>3. CASE ReadBeat
    <2>1. waited' = 0 /\ beat' = FALSE /\ UNCHANGED <<daemonUp, quiet>>
      BY <1>3 DEF ReadBeat
    <2>2. quiet \in 0..Grace /\ 0 <= quiet /\ 0 \in 0..Grace
      OBVIOUS
    <2>3. waited' \in 0..Grace /\ quiet' \in 0..Grace /\ waited' <= quiet'
      BY <2>1, <2>2
    <2>4. beat' \in BOOLEAN /\ daemonUp' \in BOOLEAN
      BY <2>1
    <2>5. daemonUp' = TRUE => quiet' < Grace
      BY <2>1
    <2> QED BY <2>3, <2>4, <2>5
  <1>4. CASE DaemonDies
    <2>1. daemonUp' = FALSE /\ UNCHANGED <<beat, waited, quiet>>
      BY <1>4 DEF DaemonDies
    <2> QED BY <2>1
  <1>5. CASE DaemonSilent \/ WatchdogStops
    <2>1. beat' = FALSE /\ waited' = 0 /\ quiet' = 0 /\ daemonUp' = daemonUp
      BY <1>5 DEF DaemonSilent, WatchdogStops, Unwatched
    <2>2. 0 \in 0..Grace /\ 0 < Grace
      OBVIOUS
    <2>3. waited' \in 0..Grace /\ quiet' \in 0..Grace /\ waited' <= quiet' /\ quiet' < Grace
      BY <2>1, <2>2
    <2>4. beat' \in BOOLEAN /\ daemonUp' \in BOOLEAN
      BY <2>1
    <2> QED BY <2>3, <2>4
  <1>6. CASE Run \/ Stop \/ UNCHANGED nodeVars
    <2>1. UNCHANGED <<daemonUp, beat, waited, quiet>>
      <3>1. CASE UNCHANGED nodeVars
        BY <3>1 DEF nodeVars, daemonVars
      <3>2. CASE Run
        BY <3>2 DEF Run, Launch, LaunchFails, SetupReturns, SetupPanics,
           SetupFails, OnSetupError, ServicesEnd, ObserveStop, Converge,
           RegisterHook, TakeHooks, HookEnds, HooksDone, GraceEnds, TearDown,
           MoveTo, daemonVars
      <3>3. CASE Stop
        BY <3>3 DEF Stop, ShutdownRequest, Signal, BridgeFirst, BridgeSecond,
           daemonVars
      <3> QED BY <1>6, <3>1, <3>2, <3>3
    <2> QED BY <2>1
  <1> QED BY <1>1, <1>2, <1>3, <1>4, <1>5, <1>6 DEF NodeNext, Watchdog

(* However long the grace period and however late its task runs, the         *)
(* watchdog stops the node only when the daemon is down and no beat has      *)
(* arrived for the whole of that period (run_watchdog).                      *)
THEOREM WatchdogCorrect == NodeSpec => LiveDaemonKeepsNode
  <1>1. NodeInit => WindowInv
    <2> SUFFICES ASSUME NodeInit PROVE WindowInv
      OBVIOUS
    <2>1. daemonUp = TRUE /\ beat = FALSE /\ waited = 0 /\ quiet = 0
      BY DEF NodeInit
    <2>2. 0 \in 0..Grace /\ 0 < Grace
      BY NodeAssumption
    <2>3. beat \in BOOLEAN /\ daemonUp \in BOOLEAN
      BY <2>1
    <2>4. waited \in 0..Grace /\ quiet \in 0..Grace /\ waited <= quiet /\ quiet < Grace
      BY <2>1, <2>2
    <2> QED BY <2>3, <2>4 DEF WindowInv
  <1>2. WindowInv /\ [NodeNext]_nodeVars => WindowInv'
    BY WindowStep
  <1>3. ASSUME WindowInv, [NodeNext]_nodeVars
        PROVE  [watchdog = "watching" /\ watchdog' = "ended" /\ ~cancelled =>
                  ~daemonUp /\ quiet = Grace]_nodeVars
    <2>1. CASE DaemonSilent
      <3>1. waited = Grace /\ beat = FALSE
        BY <1>3, <2>1 DEF DaemonSilent, TimedOut, WindowInv
      <3>2. quiet = Grace /\ daemonUp = FALSE
        BY <1>3, <3>1, NodeAssumption DEF WindowInv
      <3> QED BY <3>2
    <2>2. CASE Run
      BY <2>2 DEF Run, Launch, LaunchFails, SetupReturns, SetupPanics,
         SetupFails, OnSetupError, ServicesEnd, ObserveStop, Converge,
         RegisterHook, TakeHooks, HookEnds, HooksDone, GraceEnds, TearDown,
         MoveTo, daemonVars
    <2>3. CASE Stop
      BY <2>3 DEF Stop, ShutdownRequest, Signal, BridgeFirst, BridgeSecond,
         daemonVars
    <2>4. CASE DaemonDies \/ DaemonReturns \/ Beat \/ Tick \/ ReadBeat
      BY <2>4 DEF DaemonDies, DaemonReturns, Beat, Arrives, Tick, ReadBeat
    <2>5. CASE WatchdogStops
      BY <2>5 DEF WatchdogStops
    <2>6. CASE UNCHANGED nodeVars
      BY <2>6
    <2> QED BY <1>3, <2>1, <2>2, <2>3, <2>4, <2>5, <2>6 DEF NodeNext, Watchdog
  <1> QED BY <1>1, <1>2, <1>3, PTL DEF NodeSpec, LiveDaemonKeepsNode

-----------------------------------------------------------------------------
(* PyFutures                                                                 *)

InGate(c) == delivery[c] \in {"inside", "attached"}

(* Who is in the gate, who holds the GIL, and how far the exit has come.     *)
GateTold ==
  /\ delivery = [c \in Awaits |-> delivery[c]]
  /\ pyFuture = [c \in Awaits |-> pyFuture[c]]
  /\ gateReaders = {c \in Awaits : InGate(c)}
                     \cup (IF ownLoop = "inside" THEN {"hook"} ELSE {})
  /\ gil \in Awaits \cup {"nobody", "main"}
  /\ \A c \in Awaits : delivery[c] = "attached" <=> gil = c
  /\ mainAt \in {"running", "atexit", "closing", "closed", "finalizing"}
  /\ gateOpen <=> mainAt \in {"running", "atexit", "closing"}
  /\ mainAt \in {"closed", "finalizing"} => gateReaders = {}
  /\ mainAt # "running" => ownLoop # "inside"
  /\ gil = "main" <=> mainAt \in {"atexit", "finalizing"}

(* A completion is scheduled once for each call, and a future that was       *)
(* resolved has none left.                                                   *)
OneCompletion ==
  /\ rust = [c \in Awaits |-> rust[c]]
  /\ completors \subseteq Awaits
  /\ \A c \in Awaits :
       /\ pyFuture[c] \in {"pending", "cancelled", "resolved"}
       /\ rust[c] = "running" => delivery[c] = "none"
       /\ c \in completors \/ pyFuture[c] = "resolved" => delivery[c] = "over"
       /\ c \in completors => pyFuture[c] # "resolved"
  /\ ~invalid

FuturesInv == GateTold /\ OneCompletion

LEMMA FuturesStep ==
  ASSUME FuturesInv, ~DaemonThread, [FuturesNext]_futureVars PROVE FuturesInv'
  <1> USE PyFuturesAssumption DEF gateVars
  <1>0. GateTold /\ OneCompletion
    BY DEF FuturesInv
  <1>1. ASSUME NEW c \in Awaits, RustEnds(c) PROVE FuturesInv'
    <2>1. /\ delivery' = [delivery EXCEPT ![c] = "queued"] /\ rust' = [rust EXCEPT ![c] = "ended"]
          /\ UNCHANGED <<pyFuture, completors, gil, gateOpen, gateReaders, mainAt, ownLoop, invalid>>
          /\ delivery[c] = "none"
      BY <1>0, <1>1 DEF RustEnds, OneCompletion
    <2>2. GateTold'
      BY <1>0, <2>1 DEF GateTold, InGate
    <2>3. OneCompletion'
      BY <1>0, <2>1 DEF GateTold, OneCompletion
    <2> QED BY <2>2, <2>3 DEF FuturesInv
  <1>2. ASSUME NEW c \in Awaits, PyCancels(c) PROVE FuturesInv'
    <2>1. GateTold'
      BY <1>0, <1>2 DEF PyCancels, GateTold, InGate
    <2>2. OneCompletion'
      BY <1>0, <1>2 DEF PyCancels, GateTold, OneCompletion
    <2> QED BY <2>1, <2>2 DEF FuturesInv
  <1>3. ASSUME NEW c \in Awaits, RustCancelled(c) PROVE FuturesInv'
    <2>1. GateTold'
      BY <1>0, <1>3 DEF RustCancelled, GateTold, InGate
    <2>2. OneCompletion'
      BY <1>0, <1>3 DEF RustCancelled, GateTold, OneCompletion
    <2> QED BY <2>1, <2>2 DEF FuturesInv
  <1>4. ASSUME NEW c \in Awaits, EnterGate(c) PROVE FuturesInv'
    <2>1. /\ delivery[c] = "queued"
          /\ UNCHANGED <<rust, pyFuture, completors, gil, gateOpen, mainAt, ownLoop, invalid>>
          /\ \/ gateOpen /\ delivery' = [delivery EXCEPT ![c] = "inside"]
                        /\ gateReaders' = gateReaders \cup {c}
             \/ ~gateOpen /\ delivery' = [delivery EXCEPT ![c] = "over"]
                         /\ gateReaders' = gateReaders
      BY <1>4 DEF EnterGate
    <2>2. GateTold'
      BY <1>0, <2>1 DEF GateTold, InGate
    <2>3. OneCompletion'
      BY <1>0, <2>1 DEF GateTold, OneCompletion
    <2> QED BY <2>2, <2>3 DEF FuturesInv
  <1>5. ASSUME NEW c \in Awaits, Attach(c) PROVE FuturesInv'
    <2>1. GateTold'
      BY <1>0, <1>5 DEF Attach, GateTold, InGate
    <2>2. OneCompletion'
      BY <1>0, <1>5 DEF Attach, GateTold, OneCompletion
    <2> QED BY <2>1, <2>2 DEF FuturesInv
  <1>6. ASSUME NEW c \in Awaits, Deliver(c) PROVE FuturesInv'
    <2>1. GateTold'
      BY <1>0, <1>6 DEF Deliver, GateTold, InGate
    <2>2. OneCompletion'
      BY <1>0, <1>6 DEF Deliver, GateTold, OneCompletion
    <2> QED BY <2>1, <2>2 DEF FuturesInv
  <1>7. ASSUME NEW c \in Awaits, CheckedCompletor(c) PROVE FuturesInv'
    <2>1. GateTold'
      BY <1>0, <1>7 DEF CheckedCompletor, GateTold, InGate
    <2>2. OneCompletion'
      BY <1>0, <1>7 DEF CheckedCompletor, Completes, GateTold, OneCompletion
    <2> QED BY <2>1, <2>2 DEF FuturesInv
  <1>8. ASSUME HookEnters \/ HookLeaves PROVE FuturesInv'
    <2>1. GateTold'
      BY <1>0, <1>8 DEF HookEnters, HookLeaves, GateTold, InGate
    <2>2. OneCompletion'
      BY <1>0, <1>8 DEF HookEnters, HookLeaves, OneCompletion
    <2> QED BY <2>1, <2>2 DEF FuturesInv
  <1>9. ASSUME ExitBegins \/ CloseGate PROVE FuturesInv'
    <2>1. GateTold'
      BY <1>0, <1>9 DEF ExitBegins, CloseGate, WhileClosing, GateTold, InGate
    <2>2. OneCompletion'
      BY <1>0, <1>9 DEF ExitBegins, CloseGate, OneCompletion
    <2> QED BY <2>1, <2>2 DEF FuturesInv
  <1>10. ASSUME GateCloses \/ Finalize PROVE FuturesInv'
    <2>1. GateTold'
      BY <1>0, <1>10 DEF GateCloses, Finalize, GateTold, InGate
    <2>2. OneCompletion'
      BY <1>0, <1>10 DEF GateCloses, Finalize, OneCompletion
    <2> QED BY <2>1, <2>2 DEF FuturesInv
  <1>11. CASE UNCHANGED futureVars
    BY <1>0, <1>11 DEF futureVars, FuturesInv, GateTold, OneCompletion, InGate
  <1> QED BY <1>1, <1>2, <1>3, <1>4, <1>5, <1>6, <1>7, <1>8, <1>9, <1>10, <1>11
          DEF FuturesNext

(***************************************************************************)
(* Results cross into Python or are left out of it, for any number of      *)
(* calls: no thread is inside when the interpreter is finalized, the       *)
(* thread that closes the gate and those inside it do not wait for each    *)
(* other, and a future is completed once (register_interpreter_exit_gate,  *)
(* deliver_to_python).  Of run it is assumed that exit joins its thread;   *)
(* of a daemon thread a hook may still be inside.                          *)
(***************************************************************************)
THEOREM CrossingCorrect ==
  ASSUME ~DaemonThread
  PROVE  FuturesSpec => []CrossingIsSafe
  <1>1. FuturesInit => FuturesInv
    BY PyFuturesAssumption DEF FuturesInit, FuturesInv, GateTold, OneCompletion, InGate
  <1>2. FuturesInv /\ [FuturesNext]_futureVars => FuturesInv'
    BY FuturesStep
  <1>3. FuturesInv => CrossingIsSafe
    BY PyFuturesAssumption DEF FuturesInv, GateTold, OneCompletion, InGate,
       CrossingIsSafe, NoLateAttach, GateNotStuck, CompletedOnce
  <1> QED BY <1>1, <1>2, <1>3, PTL DEF FuturesSpec

-----------------------------------------------------------------------------
(* PyNode                                                                    *)

Callbacks == [do : {"start", "set", "stopLoop", "stop"}, task : Tasks \cup {"none"}]

Stops(cb) == cb.do \in {"stop", "stopLoop"}

(* The loop is asked to stop by quiesce alone: before that, no callback of   *)
(* this turn or the next one stops it, whoever schedules one.  If it died,   *)
(* its thread has cancelled the node, or is about to.                        *)
LoopUnstopped ==
  /\ batch \in Seq(Callbacks) /\ next \in Seq(Callbacks)
  /\ pyMode = "none" => pyPhase = "off" /\ loopState = "stopped"
  /\ pyPhase = "off" => pyMode = "none"
  /\ pyPhase \in {"off", "setup", "post", "hooks", "returned"} =>
       /\ \A i \in DOMAIN batch : ~Stops(batch[i])
       /\ \A i \in DOMAIN next : ~Stops(next[i])
  /\ pyPhase \in {"setup", "post", "hooks", "returned"} =>
       loopState \in {"running", "dying", "dead"}
  /\ pyToken \in BOOLEAN /\ (loopState = "dead" => pyToken = TRUE)

LEMMA CallbacksAppend ==
  ASSUME NEW q \in Seq(Callbacks), NEW cb \in Callbacks, ~Stops(cb)
  PROVE  /\ Append(q, cb) \in Seq(Callbacks)
         /\ (\A i \in DOMAIN q : ~Stops(q[i])) =>
              \A i \in DOMAIN Append(q, cb) : ~Stops(Append(q, cb)[i])
  <1>1. Append(q, cb) \in Seq(Callbacks)
    OBVIOUS
  <1>2. ASSUME \A i \in DOMAIN q : ~Stops(q[i]), NEW i \in DOMAIN Append(q, cb)
        PROVE  ~Stops(Append(q, cb)[i])
    BY <1>2, AppendIsLast
  <1> QED BY <1>1, <1>2

LEMMA StartIsCallback ==
  ASSUME NEW task \in Tasks, NEW do \in {"start", "set"}
  PROVE  Callback(do, task) \in Callbacks /\ ~Stops(Callback(do, task))
  BY DEF Callback, Callbacks, Stops

LEMMA LoopTurns == LoopUnstopped /\ (RunCallback \/ EndOfBatch) => LoopUnstopped'
  <1> SUFFICES ASSUME LoopUnstopped, RunCallback \/ EndOfBatch PROVE LoopUnstopped'
    OBVIOUS
  <1>0. batch \in Seq(Callbacks) /\ next \in Seq(Callbacks)
    BY DEF LoopUnstopped
  <1>1. ASSUME EndOfBatch PROVE LoopUnstopped'
    <2>1. <<>> \in Seq(Callbacks) /\ DOMAIN <<>> = {}
      OBVIOUS
    <2> QED BY <1>0, <1>1, <2>1 DEF EndOfBatch, RunnerUnchanged, LoopUnstopped
  <1>2. ASSUME RunCallback PROVE LoopUnstopped'
    <2>1. /\ batch # <<>> /\ batch' = Tail(batch) /\ pyMode' = pyMode /\ pyPhase' = pyPhase
          /\ pyToken' = pyToken /\ loopState \in {"running", "stopping"}
      BY <1>2 DEF RunCallback, RunnerUnchanged, IsRunning
    <2>2. 1 \in DOMAIN batch /\ Head(batch) = batch[1] /\ batch[1] \in Callbacks
      BY <1>0, <2>1
    <2>3. /\ batch' \in Seq(Callbacks)
          /\ \A i \in DOMAIN batch' : i + 1 \in DOMAIN batch /\ batch'[i] = batch[i + 1]
      BY <1>0, <2>1, TailIsRest
    <2>4. CASE next' = next /\ loopState' = loopState
      BY <1>0, <2>1, <2>3, <2>4 DEF LoopUnstopped
    <2>5. CASE ~(next' = next /\ loopState' = loopState)
      <3>1. Stops(batch[1])
        BY <1>2, <2>2, <2>5 DEF RunCallback, Stops
      <3>2. pyPhase \notin {"off", "setup", "post", "hooks", "returned"}
        BY <2>2, <3>1 DEF LoopUnstopped
      <3>3. next' = next \/ next' = Append(next, Callback("stop", "none"))
        BY <1>2 DEF RunCallback
      <3>4. Callback("stop", "none") \in Callbacks
        BY DEF Callback, Callbacks
      <3>5. next' \in Seq(Callbacks)
        BY <1>0, <3>3, <3>4
      <3>6. pyMode # "none"
        BY <3>2 DEF LoopUnstopped
      <3>7. loopState' # "dead"
        BY <1>2, <2>1 DEF RunCallback
      <3> QED BY <2>1, <2>3, <3>2, <3>5, <3>6, <3>7 DEF LoopUnstopped
    <2> QED BY <2>4, <2>5
  <1> QED BY <1>1, <1>2

LEMMA TasksSchedule ==
  ASSUME LoopUnstopped, NEW task \in Tasks,
         TaskEnds(task) \/ CancelledTaskEnds(task) \/ DrainEnds(task)
  PROVE  LoopUnstopped'
  <1>0. batch \in Seq(Callbacks) /\ next \in Seq(Callbacks)
    BY DEF LoopUnstopped
  <1>1. Done(task)
    BY DEF TaskEnds, CancelledTaskEnds, DrainEnds
  <1>2. /\ UNCHANGED <<pyMode, pyPhase>> /\ pyToken' \in {pyToken, TRUE}
        /\ loopState \in {"running", "stopping"} /\ loopState' \in {loopState, "dying"}
    BY <1>1 DEF Done, RunnerUnchanged, AfterTask, IsRunning, TaskEnds,
                CancelledTaskEnds, DrainEnds
  <1>3. \/ batch' = batch /\ (next' = next \/ next' = Append(next, Callback("set", task)))
        \/ batch' = <<>> /\ next' = <<>>
    BY <1>1 DEF Done, NothingScheduled
  <1>4. CASE batch' = batch /\ (next' = next \/ next' = Append(next, Callback("set", task)))
    <2>1. /\ next' \in Seq(Callbacks)
          /\ (\A i \in DOMAIN next : ~Stops(next[i])) =>
               \A i \in DOMAIN next' : ~Stops(next'[i])
      BY <1>0, <1>4, StartIsCallback, CallbacksAppend
    <2> QED BY <1>0, <1>2, <1>4, <2>1 DEF LoopUnstopped
  <1>5. CASE batch' = <<>> /\ next' = <<>>
    <2>1. /\ batch' \in Seq(Callbacks) /\ next' \in Seq(Callbacks)
          /\ DOMAIN batch' = {} /\ DOMAIN next' = {}
      BY <1>5
    <2>2. /\ \A i \in DOMAIN batch' : ~Stops(batch'[i])
          /\ \A i \in DOMAIN next' : ~Stops(next'[i])
      BY <2>1, Zenon
    <2> QED BY <1>2, <2>1, <2>2 DEF LoopUnstopped
  <1> QED BY <1>3, <1>4, <1>5

LEMMA SubmitSchedules ==
  ASSUME LoopUnstopped, NEW task \in Tasks, Submit(task)
  PROVE  /\ next' \in Seq(Callbacks)
         /\ (\A i \in DOMAIN next : ~Stops(next[i])) => \A i \in DOMAIN next' : ~Stops(next'[i])
  <1>1. next \in Seq(Callbacks) /\ next' = Append(next, Callback("start", task))
    BY DEF LoopUnstopped, Submit
  <1> QED BY <1>1, StartIsCallback, CallbacksAppend

LEMMA LoopStep == LoopUnstopped /\ [PyNext]_pyVars => LoopUnstopped'
  <1> SUFFICES ASSUME LoopUnstopped, [PyNext]_pyVars PROVE LoopUnstopped'
    OBVIOUS
  <1>0. batch \in Seq(Callbacks) /\ next \in Seq(Callbacks)
    BY DEF LoopUnstopped
  <1>1. ASSUME NEW m \in {"daemon", "standalone"}, StartAsyncSetup(m) PROVE LoopUnstopped'
    <2>1. "setup" \in Tasks /\ pyPhase = "off" /\ m # "none"
      BY <1>1 DEF Tasks, StartAsyncSetup, LoopUnstopped
    <2>2. /\ next' \in Seq(Callbacks)
          /\ (\A i \in DOMAIN next : ~Stops(next[i])) => \A i \in DOMAIN next' : ~Stops(next'[i])
      BY <1>1, <2>1, SubmitSchedules DEF StartAsyncSetup
    <2> QED BY <1>0, <1>1, <2>1, <2>2 DEF StartAsyncSetup, LoopUnstopped
  <1>2. ASSUME NEW m \in {"daemon", "standalone"}, StartFails(m) PROVE LoopUnstopped'
    BY <1>0, <1>2 DEF StartFails, LoopUnstopped
  <1>3. ASSUME NEW task \in {"monitorDrain", "userHook", "hookDrain"}, Submit(task),
               UNCHANGED <<batch, pyMode, pyPhase, pyToken, loopState>>
        PROVE  LoopUnstopped'
    <2>1. task \in Tasks
      BY DEF Tasks, Drains
    <2>2. /\ next' \in Seq(Callbacks)
          /\ (\A i \in DOMAIN next : ~Stops(next[i])) => \A i \in DOMAIN next' : ~Stops(next'[i])
      BY <1>3, <2>1, SubmitSchedules
    <2> QED BY <1>0, <1>3, <2>2 DEF LoopUnstopped
  <1>4. ASSUME UNCHANGED <<batch, next, pyMode, loopState>>,
               pyToken' \in {pyToken, TRUE},
               \/ pyPhase' = pyPhase
               \/ /\ pyPhase \in {"setup", "post", "hooks"}
                  /\ pyPhase' \in {"post", "hooks", "returned"}
               \/ pyPhase = "joining" /\ pyPhase' = "left"
        PROVE  LoopUnstopped'
    BY <1>0, <1>4 DEF LoopUnstopped
  <1>5. ASSUME MonitorFires \/ StartUserHook \/ StartDrainHook PROVE LoopUnstopped'
    BY <1>3, <1>4, <1>5 DEF MonitorFires, StartUserHook, StartDrainHook, HooksMove
  <1>6. ASSUME UserHookDone \/ DrainHookDone \/ CancelToken \/ MonitorDecides \/ CreateTask
        PROVE  LoopUnstopped'
    BY <1>4, <1>6 DEF UserHookDone, DrainHookDone, HooksMove, CancelToken, MonitorDecides,
       CreateTask, RunnerUnchanged, loopVars
  <1>7. ASSUME SetupDone \/ SetupDropped \/ StopPost PROVE LoopUnstopped'
    BY <1>4, <1>7 DEF SetupDone, SetupDropped, StopPost, EndSetup, loopVars
  <1>8. ASSUME \/ BuilderReturns({"none"}) \/ BuilderReturns({"user", "drain"})
               \/ \E joined \in BOOLEAN : RunReturns(joined)
        PROVE  LoopUnstopped'
    BY <1>4, <1>8 DEF BuilderReturns, RunReturns, loopVars
  <1>9. ASSUME Quiesce PROVE LoopUnstopped'
    <2>1. Callback("stopLoop", "none") \in Callbacks
      BY DEF Callback, Callbacks
    <2>2. next' \in Seq(Callbacks)
      BY <1>0, <1>9, <2>1 DEF Quiesce
    <2> QED BY <1>0, <1>9, <2>2 DEF Quiesce, LoopUnstopped
  <1>10. CASE UNCHANGED pyVars
    BY <1>4, <1>10 DEF pyVars
  <1>11. ASSUME UserCallbackExits PROVE LoopUnstopped'
    BY <1>0, <1>11 DEF UserCallbackExits, NothingScheduled, RunnerUnchanged, IsRunning,
       LoopUnstopped
  <1>12. ASSUME LoopThreadReports PROVE LoopUnstopped'
    BY <1>0, <1>12 DEF LoopThreadReports, RunnerUnchanged, LoopUnstopped
  <1> QED BY <1>1, <1>2, <1>5, <1>6, <1>7, <1>8, <1>9, <1>10, <1>11, <1>12, LoopTurns,
             TasksSchedule
          DEF PyNext, Loop, RunMethod

(***************************************************************************)
(* Nobody stops the asyncio loop from the start of setup until builder.run *)
(* has returned, whatever the monitor, the drains and the user's hooks put *)
(* on it (build_async_setup); if a SystemExit of the user's code ends it,  *)
(* the node is cancelled (make_run_loop).                                  *)
(***************************************************************************)
THEOREM LoopCorrect == PySpec => []LoopOutlivesHooks
  <1>1. PyInit => LoopUnstopped
    <2>1. <<>> \in Seq(Callbacks) /\ DOMAIN <<>> = {}
      OBVIOUS
    <2> QED BY <2>1 DEF PyInit, LoopUnstopped
  <1>2. LoopUnstopped /\ [PyNext]_pyVars => LoopUnstopped'
    BY LoopStep
  <1>3. LoopUnstopped => LoopOutlivesHooks
    BY DEF LoopUnstopped, LoopOutlivesHooks
  <1> QED BY <1>1, <1>2, <1>3, PTL DEF PySpec

-----------------------------------------------------------------------------
(* NodeArguments: filling in the defaults                                    *)

(* Places of values and of their specs: sequences of steps, and of the step  *)
(* that stands for all elements of an array.                                 *)
Ways == Seq(Steps \cup {Each})

(* What the filling in of defaults needs of a value.  A tree has it, and so  *)
(* has a tree with some defaults filled in.                                  *)
Placed(value) == <<>> \in DOMAIN value /\ DOMAIN value \subseteq Ways

(* The arguments of a launch, which are a tree, are placed.                  *)
LEMMA TreePlaced ==
  ASSUME NEW value, IsTree(value)
  PROVE  Placed(value)
  <1>1. \A p \in DOMAIN value : p \in Seq(Steps) BY DEF IsTree
  <1>2. \A p \in Seq(Steps) : p \in Ways BY SeqMonotonic DEF Ways
  <1> QED BY <1>1, <1>2 DEF IsTree, Placed

(* Places are the same if their steps are.                                   *)
LEMMA SamePath ==
  \A p, q \in Ways : Len(p) = Len(q) /\ (\A i \in 1..Len(p) : p[i] = q[i]) => p = q
  BY SeqEqual DEF Ways

(* The first n steps of a place.                                             *)
LEMMA UptoFacts ==
  ASSUME NEW p \in Ways, NEW n \in 0..Len(p)
  PROVE  Upto(p, n) \in Ways /\ Len(Upto(p, n)) = n /\ \A i \in 1..n : Upto(p, n)[i] = p[i]
  <1>1. \A i \in 1..n : p[i] \in Steps \cup {Each}
    BY DEF Ways
  <1>2. Len(p) \in Nat BY LenProperties DEF Ways
  <1>3. /\ SubSeq(p, 1, n) \in Seq(Steps \cup {Each})
        /\ Len(SubSeq(p, 1, n)) = IF 1 <= n THEN n - 1 + 1 ELSE 0
        /\ \A i \in 1..(n - 1 + 1) : SubSeq(p, 1, n)[i] = p[1 + i - 1]
    <2>1. 1 \in Int /\ n \in Int BY <1>2
    <2> QED BY <2>1, <1>1, SubSeqProperties
  <1>4. n - 1 + 1 = n /\ \A i \in 1..n : 1 + i - 1 = i BY <1>2
  <1>5. (IF 1 <= n THEN n - 1 + 1 ELSE 0) = n BY <1>2
  <1> QED BY <1>3, <1>4, <1>5, Zenon DEF Upto, Ways

(* The spec of a place is as deep as the place is.                           *)
LEMMA PlaceFacts ==
  ASSUME NEW p \in Ways
  PROVE  /\ PlaceOf(p) \in Ways /\ Len(PlaceOf(p)) = Len(p)
         /\ \A i \in 1..Len(p) : PlaceOf(p)[i] = IF p[i][1] = "item" THEN Each ELSE p[i]
  BY DEF Ways, PlaceOf

(* From a place of the value on to one of the spec.                          *)
LEMMA OnwardFacts ==
  ASSUME NEW p \in Ways, NEW s \in Ways, Len(p) <= Len(s)
  PROVE  /\ Onward(p, s) \in Ways /\ Len(Onward(p, s)) = Len(s)
         /\ \A i \in 1..Len(s) : Onward(p, s)[i] = IF i <= Len(p) THEN p[i] ELSE s[i]
  <1> DEFINE rest == SubSeq(s, Len(p) + 1, Len(s))
  <1>1. Len(p) \in Nat /\ Len(s) \in Nat BY LenProperties DEF Ways
  <1>2. \A i \in (Len(p) + 1)..Len(s) : s[i] \in Steps \cup {Each}
    BY <1>1 DEF Ways
  <1>3. /\ rest \in Seq(Steps \cup {Each})
        /\ Len(rest) = IF Len(p) + 1 <= Len(s) THEN Len(s) - (Len(p) + 1) + 1 ELSE 0
        /\ \A i \in 1..(Len(s) - (Len(p) + 1) + 1) : rest[i] = s[Len(p) + 1 + i - 1]
    <2>1. Len(p) + 1 \in Int /\ Len(s) \in Int BY <1>1
    <2> QED BY <2>1, <1>2, SubSeqProperties
  <1>4. /\ p \o rest \in Seq(Steps \cup {Each}) /\ Len(p \o rest) = Len(p) + Len(rest)
        /\ \A i \in 1..(Len(p) + Len(rest)) :
             (p \o rest)[i] = IF i <= Len(p) THEN p[i] ELSE rest[i - Len(p)]
    <2> HIDE DEF rest
    <2> QED BY <1>3, ConcatProperties, Zenon DEF Ways
  <1>5. Len(p) + Len(rest) = Len(s)
    <2> HIDE DEF rest
    <2> QED BY <1>1, <1>3
  <1>6. ASSUME NEW i \in 1..Len(s), i > Len(p) PROVE rest[i - Len(p)] = s[i]
    <2> HIDE DEF rest
    <2>1. i - Len(p) \in 1..(Len(s) - (Len(p) + 1) + 1) BY <1>1, <1>6
    <2>2. Len(p) + 1 + (i - Len(p)) - 1 = i BY <1>1
    <2> QED BY <1>3, <2>1, <2>2, Zenon
  <1>7. \A i \in 1..Len(s) : (p \o rest)[i] = IF i <= Len(p) THEN p[i] ELSE s[i]
    <2> HIDE DEF rest
    <2> QED BY <1>1, <1>4, <1>5, <1>6
  <1> QED BY <1>4, <1>5, <1>7, Zenon DEF Onward, rest, Ways

(* One step further.                                                         *)
LEMMA AppendFacts ==
  ASSUME NEW p \in Ways, NEW x \in Steps \cup {Each}
  PROVE  /\ Append(p, x) \in Ways /\ Len(Append(p, x)) = Len(p) + 1
         /\ \A i \in 1..Len(p) : Append(p, x)[i] = p[i]
         /\ Append(p, x)[Len(p) + 1] = x
  BY DEF Ways

(* A spec that parsed: a tree without elements of arrays, in which whatever  *)
(* has fields is a group.                                                    *)
IsSpec(spec) ==
  /\ <<>> \in DOMAIN spec
  /\ \A s \in DOMAIN spec :
       /\ s \in Ways /\ \A i \in 1..Len(s) : s[i][1] # "item"
       /\ \A n \in 0..Len(s) : Upto(s, n) \in DOMAIN spec
       /\ \A n \in 0..(Len(s) - 1) : s[n + 1] # Each => spec[Upto(s, n)] = Group
       /\ \/ spec[s].shape \in {"array", "group"}
          \/ spec[s].shape = "primitive" /\ spec[s].kind \in TypeToken

(* What is filled in has its spec where merge_defaults found it missing.     *)
LEMMA FilledAt ==
  ASSUME NEW value, NEW spec, Placed(value), IsSpec(spec),
         NEW p \in DOMAIN value, NEW s \in DOMAIN spec, Lacks(value, spec, p, s)
  PROVE  /\ p \in Ways /\ s \in Ways /\ Len(p) < Len(s) /\ Upto(s, Len(p)) = PlaceOf(p)
         /\ Onward(p, s) \in Ways /\ Len(Onward(p, s)) = Len(s) /\ PlaceOf(Onward(p, s)) = s
         /\ \A i \in 1..Len(s) : Onward(p, s)[i] = IF i <= Len(p) THEN p[i] ELSE s[i]
  <1>1. p \in Ways /\ s \in Ways /\ Len(p) < Len(s) /\ Upto(s, Len(p)) = PlaceOf(p)
    <2>1. p \in Ways BY DEF Placed
    <2>2. s \in Ways BY DEF IsSpec
    <2> QED BY <2>1, <2>2 DEF Lacks
  <1>2. Len(p) \in Nat /\ Len(s) \in Nat BY <1>1, LenProperties DEF Ways
  <1>3. /\ Onward(p, s) \in Ways /\ Len(Onward(p, s)) = Len(s)
        /\ \A i \in 1..Len(s) : Onward(p, s)[i] = IF i <= Len(p) THEN p[i] ELSE s[i]
    BY <1>1, <1>2, OnwardFacts
  <1> DEFINE q == Onward(p, s)
  <1>4. /\ PlaceOf(q) \in Ways /\ Len(PlaceOf(q)) = Len(s)
        /\ \A i \in 1..Len(s) : PlaceOf(q)[i] = IF q[i][1] = "item" THEN Each ELSE q[i]
    BY <1>3, PlaceFacts
  <1>5. \A i \in 1..Len(p) : PlaceOf(p)[i] = IF p[i][1] = "item" THEN Each ELSE p[i]
    BY <1>1, PlaceFacts
  <1>6. \A i \in 1..Len(p) : Upto(s, Len(p))[i] = s[i]
    <2>1. Len(p) \in 0..Len(s) BY <1>1, <1>2
    <2> QED BY <1>1, <2>1, UptoFacts
  <1>7. \A i \in 1..Len(s) : s[i][1] # "item" BY DEF IsSpec
  <1>8. ASSUME NEW i \in 1..Len(s) PROVE PlaceOf(q)[i] = s[i]
    <2> HIDE DEF q
    <2>1. CASE i <= Len(p)
      <3>1. i \in 1..Len(p) BY <2>1, <1>2
      <3>2. q[i] = p[i] BY <1>3, <2>1 DEF q
      <3>3. PlaceOf(q)[i] = PlaceOf(p)[i] BY <1>4, <1>5, <3>1, <3>2
      <3> QED BY <3>1, <3>3, <1>1, <1>6
    <2>2. CASE i > Len(p)
      <3>1. q[i] = s[i] BY <1>2, <1>3, <2>2 DEF q
      <3> QED BY <3>1, <1>4, <1>7
    <2> QED BY <1>2, <2>1, <2>2
  <1>9. PlaceOf(q) = s
    <2> HIDE DEF q
    <2> QED BY <1>1, <1>4, <1>8, SamePath
  <1> QED BY <1>1, <1>3, <1>9

(* What is missing first, on the way to a place that is missing, is one step *)
(* away.                                                                     *)
LEMMA OneFurther ==
  ASSUME NEW p \in Ways, NEW s \in Ways, NEW n \in Nat, n = Len(p), n < Len(s)
  PROVE  /\ Onward(p, Upto(s, n + 1)) = Append(p, s[n + 1])
         /\ Upto(s, n + 1) \in Ways /\ Len(Upto(s, n + 1)) = n + 1
         /\ Upto(s, n + 1)[n + 1] = s[n + 1]
  <1> DEFINE s1 == Upto(s, n + 1)
             x == s[n + 1]
  <1>1. Len(s) \in Nat BY LenProperties DEF Ways
  <1>2. s1 \in Ways /\ Len(s1) = n + 1 /\ \A i \in 1..(n + 1) : s1[i] = s[i]
    <2>1. n + 1 \in 0..Len(s) BY <1>1
    <2> QED BY <2>1, UptoFacts
  <1>3. x \in Steps \cup {Each}
    <2>1. n + 1 \in 1..Len(s) BY <1>1
    <2> QED BY <2>1, ElementOfSeq DEF Ways
  <1>4. /\ Append(p, x) \in Ways /\ Len(Append(p, x)) = n + 1
        /\ \A i \in 1..n : Append(p, x)[i] = p[i]
        /\ Append(p, x)[n + 1] = x
    <2> HIDE DEF x
    <2> QED BY <1>3, AppendFacts
  <1>5. /\ Onward(p, s1) \in Ways /\ Len(Onward(p, s1)) = n + 1
        /\ \A i \in 1..(n + 1) : Onward(p, s1)[i] = IF i <= n THEN p[i] ELSE s1[i]
    <2> HIDE DEF s1
    <2> QED BY <1>2, OnwardFacts
  <1>6. ASSUME NEW i \in 1..(n + 1) PROVE Onward(p, s1)[i] = Append(p, x)[i]
    <2>1. CASE i = n + 1
      <3>1. s1[i] = x BY <1>2, <2>1
      <3> HIDE DEF s1, x
      <3> QED BY <1>4, <1>5, <2>1, <3>1
    <2>2. CASE i # n + 1
      <3> HIDE DEF s1, x
      <3> QED BY <1>4, <1>5, <2>2
    <2> QED BY <2>1, <2>2
  <1>7. Onward(p, s1) = Append(p, x)
    <2> HIDE DEF s1, x
    <2> QED BY <1>4, <1>5, <1>6, SamePath
  <1>8. s1[n + 1] = x BY <1>2
  <1> QED BY <1>2, <1>7, <1>8

(* The beginning of a beginning.                                             *)
LEMMA UptoUpto ==
  ASSUME NEW s \in Ways, NEW n \in 0..Len(s), NEW k \in 0..n
  PROVE  Upto(Upto(s, n), k) = Upto(s, k)
  <1> DEFINE t == Upto(s, n)
  <1>1. Len(s) \in Nat BY LenProperties DEF Ways
  <1>2. t \in Ways /\ Len(t) = n /\ \A i \in 1..n : t[i] = s[i]
    BY UptoFacts
  <1>3. Upto(s, k) \in Ways /\ Len(Upto(s, k)) = k /\ \A i \in 1..k : Upto(s, k)[i] = s[i]
    <2>1. k \in 0..Len(s) BY <1>1
    <2> QED BY <2>1, UptoFacts
  <1>4. Upto(t, k) \in Ways /\ Len(Upto(t, k)) = k /\ \A i \in 1..k : Upto(t, k)[i] = t[i]
    <2>1. k \in 0..Len(t) BY <1>2
    <2> HIDE DEF t
    <2> QED BY <1>2, <2>1, UptoFacts
  <1> HIDE DEF t
  <1>5. \A i \in 1..k : Upto(t, k)[i] = Upto(s, k)[i] BY <1>1, <1>2, <1>3, <1>4
  <1>6. Upto(t, k) = Upto(s, k) BY <1>3, <1>4, <1>5, SamePath
  <1> QED BY <1>6 DEF t

(* The places merge_defaults fills in.                                       *)
FilledIn(value, spec) == {Onward(ps[1], ps[2]) : ps \in Lacking(value, spec)}

(* What merge_defaults makes: all there was, and what is filled in.          *)
LEMMA Merged ==
  ASSUME NEW value, NEW spec
  PROVE  /\ DOMAIN MergeDefaults(value, spec) = DOMAIN value \cup FilledIn(value, spec)
         /\ \A p \in DOMAIN value : MergeDefaults(value, spec)[p] = value[p]
         /\ \A p \in DOMAIN value, s \in DOMAIN spec :
              Lacks(value, spec, p, s) => Onward(p, s) \in FilledIn(value, spec)
  <1>1. MergeDefaults(value, spec)
          = [p \in DOMAIN value \cup FilledIn(value, spec) |->
               IF p \in DOMAIN value THEN value[p] ELSE Synthesized(spec[PlaceOf(p)])]
    BY Zenon DEF MergeDefaults, FilledIn
  <1>2. ASSUME NEW p \in DOMAIN value, NEW s \in DOMAIN spec, Lacks(value, spec, p, s)
        PROVE  Onward(p, s) \in FilledIn(value, spec)
    <2>1. <<p, s>> \in Lacking(value, spec) BY <1>2 DEF Lacking
    <2> QED BY <2>1 DEF FilledIn
  <1> QED BY <1>1, <1>2

(* What is filled in is at its declared default.                             *)
LEMMA FilledWith ==
  ASSUME NEW value, NEW spec, NEW p \in FilledIn(value, spec), p \notin DOMAIN value
  PROVE  MergeDefaults(value, spec)[p] = Synthesized(spec[PlaceOf(p)])
  BY DEF MergeDefaults, FilledIn

(* What is filled in was missing somewhere.                                  *)
LEMMA FilledFrom ==
  ASSUME NEW value, NEW spec, NEW q \in FilledIn(value, spec)
  PROVE  \E p \in DOMAIN value, s \in DOMAIN spec :
           Lacks(value, spec, p, s) /\ q = Onward(p, s)
  <1>1. PICK ps \in Lacking(value, spec) : q = Onward(ps[1], ps[2])
    BY Zenon DEF FilledIn
  <1>2. ps[1] \in DOMAIN value /\ ps[2] \in DOMAIN spec /\ Lacks(value, spec, ps[1], ps[2])
    BY DEF Lacking
  <1> QED BY <1>1, <1>2

(* merge_defaults leaves no field of a group out: filled in once, or filled  *)
(* in, written and read again, a value lacks nothing.                        *)
LEMMA NothingLacks ==
  ASSUME NEW value, NEW spec, Placed(value), IsSpec(spec), NEW full,
         DOMAIN full = DOMAIN MergeDefaults(value, spec),
         \A p \in DOMAIN value : full[p].t = "object" => value[p].t = "object"
  PROVE  Lacking(full, spec) = {}
  <1> SUFFICES ASSUME NEW p \in DOMAIN full, NEW s \in DOMAIN spec, Lacks(full, spec, p, s)
               PROVE  FALSE
    BY DEF Lacking
  <1> DEFINE n == Len(p)
             s1 == Upto(s, n + 1)
             x == s[n + 1]
  <1>1. s \in Ways /\ Len(s) \in Nat
    <2>1. s \in Ways BY DEF IsSpec
    <2> QED BY <2>1, LenProperties DEF Ways
  <1>2. /\ full[p].t = "object" /\ n < Len(s) /\ Upto(s, n) = PlaceOf(p)
        /\ spec[PlaceOf(p)].shape = "group" /\ Append(p, x) \notin DOMAIN full
    BY DEF Lacks
  <1>0. /\ DOMAIN full = DOMAIN value \cup FilledIn(value, spec)
        /\ \A r \in DOMAIN value, t \in DOMAIN spec :
             Lacks(value, spec, r, t) => Onward(r, t) \in FilledIn(value, spec)
    <2>1. DOMAIN MergeDefaults(value, spec) = DOMAIN value \cup FilledIn(value, spec)
      BY Merged, Zenon
    <2>2. DOMAIN full = DOMAIN MergeDefaults(value, spec) OBVIOUS
    <2>3. DOMAIN full = DOMAIN value \cup FilledIn(value, spec) BY <2>1, <2>2, Zenon
    <2>4. \A r \in DOMAIN value, t \in DOMAIN spec :
             Lacks(value, spec, r, t) => Onward(r, t) \in FilledIn(value, spec)
      BY Merged, Zenon
    <2> QED BY <2>3, <2>4, Zenon
  <1>3. CASE p \in DOMAIN value
    <2>1. p \in Ways /\ n \in Nat
      <3>1. p \in Ways BY <1>3 DEF Placed
      <3> QED BY <3>1, LenProperties DEF Ways
    <2>2. n + 1 \in 0..Len(s) /\ n \in 0..(n + 1) BY <1>1, <1>2, <2>1
    <2>3. s1 \in DOMAIN spec BY <2>2 DEF IsSpec
    <2>4. /\ Onward(p, s1) = Append(p, x) /\ Len(s1) = n + 1 /\ s1[n + 1] = x
      BY <1>1, <1>2, <2>1, OneFurther
    <2>5. Upto(s1, n) = PlaceOf(p) BY <1>1, <1>2, <2>2, UptoUpto
    <2>6. value[p].t = "object" BY <1>2, <1>3
    <2>7. Append(p, x) \notin DOMAIN value BY <1>0, <1>2
    <2>8. Lacks(value, spec, p, s1)
      <3> HIDE DEF s1, x
      <3>1. n < n + 1 BY <2>1
      <3> QED BY <1>2, <2>4, <2>5, <2>6, <2>7, <3>1 DEF Lacks, n
    <2> QED BY <1>2, <1>3, <2>3, <2>4, <2>8, <1>0, Zenon
  <1>4. CASE p \notin DOMAIN value
    <2>1. PICK p0 \in DOMAIN value, s0 \in DOMAIN spec :
            Lacks(value, spec, p0, s0) /\ p = Onward(p0, s0)
      <3>1. p \in FilledIn(value, spec) BY <1>0, <1>4
      <3> QED BY <3>1, FilledFrom
    <2> DEFINE k == Len(p0)
    <2>2. /\ p0 \in Ways /\ s0 \in Ways /\ k < Len(s0) /\ Upto(s0, k) = PlaceOf(p0)
          /\ p \in Ways /\ n = Len(s0) /\ PlaceOf(p) = s0
          /\ \A i \in 1..n : p[i] = IF i <= k THEN p0[i] ELSE s0[i]
      BY <2>1, FilledAt
    <2>3. k \in Nat /\ n \in Nat /\ k < n /\ n < Len(s)
      BY <1>2, <2>2, LenProperties DEF Ways
    <2>4. Upto(s, n) = s0 BY <1>2, <2>2
    <2>5. n + 1 \in 0..Len(s) /\ n \in 0..Len(s) /\ k \in 0..(n + 1) /\ k \in 0..n
      BY <1>1, <2>3
    <2>6. s1 \in DOMAIN spec BY <2>5 DEF IsSpec
    <2>7. /\ s1 \in Ways /\ Len(s1) = n + 1 /\ s1[n + 1] = x /\ Onward(p, s1) = Append(p, x)
      BY <1>1, <2>2, <2>3, OneFurther
    <2>8. Upto(s1, k) = PlaceOf(p0)
      <3>1. Upto(s1, k) = Upto(s, k) BY <1>1, <2>5, UptoUpto
      <3>2. Upto(s0, k) = Upto(s, k) BY <1>1, <2>4, <2>5, UptoUpto
      <3> QED BY <3>1, <3>2, <2>2
    <2>9. s1[k + 1] = s0[k + 1]
      <3>1. k + 1 \in 1..n /\ k + 1 \in 1..(n + 1) BY <2>3
      <3>2. s1[k + 1] = s[k + 1] BY <1>1, <2>5, <3>1, UptoFacts
      <3>3. s0[k + 1] = s[k + 1] BY <1>1, <2>4, <2>5, <3>1, UptoFacts
      <3> QED BY <3>2, <3>3
    <2>10. Lacks(value, spec, p0, s1)
      <3> HIDE DEF s1, x, n, k
      <3>1. k < n + 1 BY <2>3
      <3> QED BY <2>1, <2>7, <2>8, <2>9, <3>1 DEF Lacks, k
    <2>11. Onward(p0, s1) = Append(p, x)
      <3>1. x \in Steps \cup {Each}
        <4>1. n + 1 \in 1..Len(s) BY <2>5, <2>3
        <4> QED BY <4>1, <1>1, ElementOfSeq DEF Ways
      <3>2. /\ Onward(p0, s1) \in Ways /\ Len(Onward(p0, s1)) = n + 1
            /\ \A i \in 1..(n + 1) : Onward(p0, s1)[i] = IF i <= k THEN p0[i] ELSE s1[i]
        <4> HIDE DEF s1
        <4> QED BY <2>2, <2>3, <2>7, OnwardFacts
      <3>3. /\ Append(p, x) \in Ways /\ Len(Append(p, x)) = n + 1
            /\ \A i \in 1..n : Append(p, x)[i] = p[i]
            /\ Append(p, x)[n + 1] = x
        <4> HIDE DEF x
        <4> QED BY <2>2, <3>1, AppendFacts
      <3>4. ASSUME NEW i \in 1..(n + 1) PROVE Onward(p0, s1)[i] = Append(p, x)[i]
        <4>1. CASE i = n + 1
          <5> HIDE DEF s1, x
          <5> QED BY <2>3, <2>7, <3>2, <3>3, <4>1
        <4>2. CASE i # n + 1
          <5>1. i \in 1..n /\ i \in 0..Len(s) BY <2>3, <4>2, <1>1
          <5>2. s1[i] = s[i] /\ s0[i] = s[i] BY <1>1, <2>4, <2>5, <5>1, UptoFacts
          <5> HIDE DEF s1, x, n, k
          <5> QED BY <2>2, <3>2, <3>3, <5>1, <5>2
        <4> QED BY <4>1, <4>2
      <3> HIDE DEF s1, x
      <3> QED BY <3>2, <3>3, <3>4, SamePath
    <2> QED BY <1>2, <2>1, <2>6, <2>10, <2>11, <1>0, Zenon
  <1> QED BY <1>3, <1>4

(* What was written and read again is as it was, or a number of that value.  *)
LEMMA RereadIs ==
  ASSUME NEW x
  PROVE  \/ RereadAs(x) = x /\ x.t # "uint" /\ ~IsWhole(x)
         \/ /\ x.t = "uint" \/ IsWhole(x)
            /\ RereadAs(x).t \in {"int", "uint"} /\ RereadAs(x).n = x.n
  <1>1. AsInteger(x.n).t \in {"int", "uint"} /\ AsInteger(x.n).n = x.n
    BY DEF AsInteger, Signed, Unsigned
  <1> QED BY <1>1 DEF RereadAs

(* A number fits a type whether or not it was written and read again, unless *)
(* it is one that reads otherwise.                                           *)
LEMMA RereadFits ==
  ASSUME NEW x, NEW kind \in TypeToken, ~ReadsOtherwise(x, kind)
  PROVE  MatchesToken(RereadAs(x), kind) <=> MatchesToken(x, kind)
  <1>1. CASE RereadAs(x) = x BY <1>1
  <1>2. CASE x.t = "uint" /\ RereadAs(x).t \in {"int", "uint"} /\ RereadAs(x).n = x.n
    BY <1>2 DEF MatchesToken, F32Fits, IntegerFits, TypeToken, IntegerKinds
  <1>3. CASE IsWhole(x) /\ RereadAs(x).t \in {"int", "uint"} /\ RereadAs(x).n = x.n
    <2>1. kind \notin IntegerKinds \cup {"time"} /\ (kind = "f32" => F32Lossless(x.n))
      BY <1>3 DEF ReadsOtherwise
    <2> QED BY <1>3, <2>1 DEF IsWhole, MatchesToken, F32Fits, TypeToken, IntegerKinds
  <1> QED BY <1>1, <1>2, <1>3, RereadIs, Zenon

(* To read again twice is to read again, and only numbers change.            *)
LEMMA RereadKeeps ==
  ASSUME NEW x
  PROVE  /\ RereadAs(RereadAs(x)) = RereadAs(x)
         /\ \A t \in {"object", "array"} : RereadAs(x).t = t <=> x.t = t
         /\ x.t = "array" => RereadAs(x) = x
  <1>1. AsInteger(x.n) = RereadAs(x) => RereadAs(AsInteger(x.n)) = AsInteger(x.n)
    BY DEF RereadAs, AsInteger, IsWhole, Signed, Unsigned
  <1>2. RereadAs(x) = x \/ RereadAs(x) = AsInteger(x.n) BY DEF RereadAs
  <1>3. RereadAs(RereadAs(x)) = RereadAs(x) BY <1>1, <1>2, Zenon
  <1>4. \A t \in {"object", "array"} : RereadAs(x).t = t <=> x.t = t
    BY RereadIs DEF IsWhole
  <1>5. x.t = "array" => RereadAs(x) = x BY RereadIs DEF IsWhole
  <1> QED BY <1>3, <1>4, <1>5

(* So validate_value_against_spec says the same of a launch file as of what  *)
(* was written into it.                                                      *)
LEMMA RereadValid ==
  ASSUME NEW value, NEW spec, IsSpec(spec), ReadsAlike(value, spec)
  PROVE  Valid(Reread(value), spec) <=> Valid(value, spec)
  <1> DEFINE r == Reread(value)
  <1>1. DOMAIN r = DOMAIN value /\ \A p \in DOMAIN value : r[p] = RereadAs(value[p])
    BY DEF Reread
  <1>2. ASSUME NEW p \in DOMAIN value, PlaceOf(p) \in DOMAIN spec
        PROVE  FitsAt(r, spec, p) <=> FitsAt(value, spec, p)
    <2> DEFINE declared == spec[PlaceOf(p)]
    <2>1. StepsFrom(r, p) = StepsFrom(value, p) BY <1>1, Zenon DEF StepsFrom
    <2>2. \/ declared.shape = "array" \/ declared.shape = "group"
          \/ declared.shape = "primitive" /\ declared.kind \in TypeToken
      BY <1>2 DEF IsSpec
    <2>3. r[p] = RereadAs(value[p]) BY <1>1
    <2>4. /\ r[p].t = "object" <=> value[p].t = "object"
          /\ r[p].t = "array" <=> value[p].t = "array"
          /\ value[p].t = "array" => r[p] = value[p]
      BY <2>3, RereadKeeps
    <2>5. ASSUME declared.shape = "primitive", declared.kind \in TypeToken
          PROVE  MatchesToken(r[p], declared.kind) <=> MatchesToken(value[p], declared.kind)
      <3>1. ~ReadsOtherwise(value[p], declared.kind) BY <1>2, <2>5, Zenon DEF ReadsAlike
      <3> HIDE DEF declared, r
      <3> QED BY <2>3, <2>5, <3>1, RereadFits
    <2> HIDE DEF declared, r
    <2>6. CASE declared.shape = "array"
      <3>1. FitsAt(r, spec, p) <=> r[p].t = "array" /\ \A l \in declared.length : r[p].len = l
        BY <2>6 DEF FitsAt, declared
      <3>2. FitsAt(value, spec, p)
              <=> value[p].t = "array" /\ \A l \in declared.length : value[p].len = l
        BY <2>6 DEF FitsAt, declared
      <3> QED BY <2>4, <3>1, <3>2
    <2>7. CASE declared.shape = "group"
      BY <2>1, <2>4, <2>7 DEF FitsAt, declared
    <2>8. CASE declared.shape = "primitive" /\ declared.kind \in TypeToken
      BY <2>5, <2>8 DEF FitsAt, declared
    <2> QED BY <2>2, <2>6, <2>7, <2>8
  <1> HIDE DEF r
  <1>3. Valid(r, spec) <=> Valid(value, spec) BY <1>1, <1>2 DEF Valid
  <1> QED BY <1>3 DEF r

(* into_resolved finds the arguments complete and valid.                     *)
Resolves(value, spec) == IntoResolved(value, spec).ok

(* It does when no leaf is missing and what is filled in fits; the answer is *)
(* then the arguments with their defaults.                                   *)
LEMMA IntoResolvedIs ==
  ASSUME NEW value, NEW spec
  PROVE  /\ Resolves(value, spec)
              <=> StillMissing(value, spec) = {} /\ Valid(MergeDefaults(value, spec), spec)
         /\ Resolves(value, spec) =>
              IntoResolved(value, spec).value = MergeDefaults(value, spec)
  BY DEF Resolves, IntoResolved, Resolved

(* What was written with its defaults filled in and read again resolves to   *)
(* itself if it is valid, and that it is just if it was, unless a value      *)
(* reads otherwise.                                                          *)
LEMMA ReadBack ==
  ASSUME NEW value, NEW spec, Placed(value), IsSpec(spec), StillMissing(value, spec) = {}
  PROVE  LET file == Reread(MergeDefaults(value, spec))
         IN  /\ ReadsAlike(MergeDefaults(value, spec), spec) =>
                  (Resolves(file, spec) <=> Resolves(value, spec))
             /\ Resolves(file, spec) =>
                  Valid(file, spec) /\ IntoResolved(file, spec).value = file
  <1> DEFINE full == MergeDefaults(value, spec)
             file == Reread(full)
  <1>1. /\ file = [p \in DOMAIN full |-> RereadAs(full[p])]
        /\ DOMAIN file = DOMAIN full /\ \A p \in DOMAIN full : file[p] = RereadAs(full[p])
    BY DEF Reread
  <1>2. Lacking(file, spec) = {}
    <2>1. \A p \in DOMAIN value : p \in DOMAIN full /\ full[p] = value[p]
      BY Merged, Zenon
    <2>2. ASSUME NEW p \in DOMAIN value, file[p].t = "object" PROVE value[p].t = "object"
      <3>1. file[p] = RereadAs(value[p]) BY <1>1, <2>1
      <3> QED BY <3>1, <2>2, RereadKeeps
    <2> HIDE DEF file
    <2> QED BY <1>1, <2>2, NothingLacks
  <1>3. MergeDefaults(file, spec) = file
    <2>1. {Onward(ps[1], ps[2]) : ps \in Lacking(file, spec)} = {} BY <1>2
    <2>2. MergeDefaults(file, spec)
            = [p \in DOMAIN file |->
                 IF p \in DOMAIN file THEN file[p] ELSE Synthesized(spec[PlaceOf(p)])]
      <3> HIDE DEF file
      <3>1. DOMAIN file \cup {Onward(ps[1], ps[2]) : ps \in Lacking(file, spec)} = DOMAIN file
        BY <2>1
      <3> QED BY <3>1, Zenon DEF MergeDefaults
    <2>3. file = [p \in DOMAIN file |-> file[p]]
      <3> HIDE DEF full
      <3> QED BY <1>1
    <2> HIDE DEF file
    <2>4. [p \in DOMAIN file |->
                 IF p \in DOMAIN file THEN file[p] ELSE Synthesized(spec[PlaceOf(p)])]
           = [p \in DOMAIN file |-> file[p]]
      OBVIOUS
    <2> QED BY <2>2, <2>3, <2>4, Zenon
  <1>4. StillMissing(file, spec) = {} BY <1>2 DEF StillMissing
  <1>5. ReadsAlike(full, spec) => (Valid(file, spec) <=> Valid(full, spec))
    <2> HIDE DEF full
    <2> QED BY RereadValid
  <1>6. Resolves(file, spec) <=> Valid(file, spec)
    <2> HIDE DEF file
    <2> QED BY <1>3, <1>4, IntoResolvedIs
  <1>7. Resolves(value, spec) <=> Valid(full, spec) BY IntoResolvedIs
  <1>8. Resolves(file, spec) => IntoResolved(file, spec).value = file
    <2> HIDE DEF file
    <2> QED BY <1>3, IntoResolvedIs
  <1> QED BY <1>5, <1>6, <1>7, <1>8

(* What has the places of arguments that are valid keeps what was given,     *)
(* fills in what is declared and nothing else, and has of every group just   *)
(* the declared fields.                                                      *)
LEMMA Resolving ==
  ASSUME NEW value, NEW spec, Placed(value), IsSpec(spec), StillMissing(value, spec) = {},
         NEW args, Valid(args, spec),
         NEW has, DOMAIN has = DOMAIN args, DOMAIN has = DOMAIN MergeDefaults(value, spec),
         \A p \in DOMAIN has : has[p] = RereadAs(MergeDefaults(value, spec)[p])
  PROVE  KeepsAndFills(Reread(value), spec, has)
  <1> DEFINE full == MergeDefaults(value, spec)
  <1>2. DOMAIN Reread(value) = DOMAIN value
        /\ \A p \in DOMAIN value : Reread(value)[p] = RereadAs(value[p])
    BY DEF Reread
  <1>3. DOMAIN full = DOMAIN value \cup FilledIn(value, spec) BY Merged, Zenon
  <1>4. ASSUME NEW p \in DOMAIN value PROVE p \in DOMAIN has /\ has[p] = Reread(value)[p]
    <2>1. full[p] = value[p] BY Merged, Zenon
    <2>2. p \in DOMAIN full BY <1>3
    <2>3. has[p] = RereadAs(full[p]) BY <2>2
    <2> QED BY <1>2, <2>1, <2>2, <2>3
  <1>5. ASSUME NEW p \in (DOMAIN has) \ DOMAIN value
        PROVE  /\ PlaceOf(p) \in DOMAIN spec /\ ~HasNoDefault(spec[PlaceOf(p)])
               /\ has[p] = RereadAs(Synthesized(spec[PlaceOf(p)]))
    <2>1. p \in FilledIn(value, spec) /\ p \notin DOMAIN value BY <1>3
    <2>2. full[p] = Synthesized(spec[PlaceOf(p)]) BY <2>1, FilledWith
    <2>3. PICK ps \in Lacking(value, spec) : p = Onward(ps[1], ps[2])
      BY <2>1, Zenon DEF FilledIn
    <2>4. ps[1] \in DOMAIN value /\ ps[2] \in DOMAIN spec /\ Lacks(value, spec, ps[1], ps[2])
      BY DEF Lacking
    <2>5. PlaceOf(p) = ps[2] BY <2>3, <2>4, FilledAt
    <2>6. ~HasNoDefault(spec[ps[2]]) BY Zenon DEF StillMissing
    <2>7. has[p] = RereadAs(full[p]) OBVIOUS
    <2> QED BY <2>2, <2>4, <2>5, <2>6, <2>7, Zenon
  <1>6. ASSUME NEW p \in DOMAIN has, PlaceOf(p) \in DOMAIN spec,
               spec[PlaceOf(p)].shape = "group"
        PROVE  StepsFrom(has, p) = StepsFrom(spec, PlaceOf(p))
    <2>1. FitsAt(args, spec, p) BY <1>6 DEF Valid
    <2>2. StepsFrom(args, p) = StepsFrom(spec, PlaceOf(p)) BY <1>6, <2>1 DEF FitsAt
    <2> QED BY <2>2, Zenon DEF StepsFrom
  <1> HIDE DEF full
  <1>7. \A p \in DOMAIN Reread(value) : p \in DOMAIN has /\ has[p] = Reread(value)[p]
    BY <1>2, <1>4, Zenon
  <1>8. \A p \in (DOMAIN has) \ DOMAIN Reread(value) :
          /\ PlaceOf(p) \in DOMAIN spec /\ ~HasNoDefault(spec[PlaceOf(p)])
          /\ has[p] = RereadAs(Synthesized(spec[PlaceOf(p)]))
    <2>1. DOMAIN Reread(value) = DOMAIN value BY <1>2
    <2> QED BY <1>5, <2>1, Zenon
  <1>9. \A p \in DOMAIN has :
          PlaceOf(p) \in DOMAIN spec /\ spec[PlaceOf(p)].shape = "group" =>
            StepsFrom(has, p) = StepsFrom(spec, PlaceOf(p))
    BY <1>6, Zenon
  <1> QED BY <1>7, <1>8, <1>9, Zenon DEF KeepsAndFills

-----------------------------------------------------------------------------
(* NodeArguments: what a manifest declares                                   *)

(* A default that was accepted for a type matches it (parse_default_value).  *)
LEMMA DefaultParsed ==
  ASSUME NEW kind \in TypeToken, NEW raw, NEW default,
         default = ParseDefaultValue(kind, raw), default # NotADefault
  PROVE  MatchesToken(default, kind)
  <1>1. CASE kind \in {"bool", "string"}
    <2>1. default = raw /\ raw.t = kind BY <1>1, Zenon DEF ParseDefaultValue
    <2> QED BY <1>1, <2>1 DEF MatchesToken
  <1>2. CASE kind \in {"bytes", "time"}
    BY <1>2 DEF ParseDefaultValue
  <1>3. CASE kind = "f32"
    <2>1. F32Fits(raw) /\ default = AsFloat(raw)
      BY <1>3 DEF ParseDefaultValue
    <2>2. default.t = "float" /\ default.size \in {"fits", "whole"}
      BY <2>1 DEF AsFloat, F32Fits, Whole
    <2> QED BY <1>3, <2>2 DEF MatchesToken, F32Fits
  <1>4. CASE kind = "f64"
    <2>1. default = AsFloat(raw) BY <1>4 DEF ParseDefaultValue
    <2>2. default.t = "float" BY <2>1 DEF AsFloat, Whole
    <2> QED BY <1>4, <2>2 DEF MatchesToken
  <1>5. CASE kind \in IntegerKinds
    <2>1. default = IntegerDefault(kind, raw) BY <1>5 DEF ParseDefaultValue, IntegerKinds
    <2>2. /\ IntegerFits(raw, kind) /\ default.n = raw.n /\ default.t \in {"int", "uint"}
      BY <2>1 DEF IntegerDefault, Unsigned, Signed
    <2>3. IntegerFits(default, kind) BY <2>2 DEF IntegerFits
    <2> QED BY <1>5, <2>3 DEF MatchesToken
  <1> QED BY <1>1, <1>2, <1>3, <1>4, <1>5 DEF TypeToken, IntegerKinds

(* What may be written at a place of a schema, once it parsed.               *)
Declared(spec) ==
  \/ spec = Group \/ spec = Unparsed
  \/ spec.shape = "array"
  \/ /\ spec.shape = "primitive" /\ spec.kind \in TypeToken
     /\ \/ spec.default = NoDefault
        \/ \E x : spec.default = ParseDefaultValue(spec.kind, x) /\ spec.default # NotADefault

(* It is that; and only an object is parsed as a group or an array.          *)
LEMMA Written ==
  ASSUME NEW raw, NEW r
  PROVE  /\ Declared(SpecWritten(raw, r))
         /\ SpecWritten(raw, r).shape \in {"group", "array"} => r = <<>> \/ raw[r].t = "object"
  <1> DEFINE w == SpecWritten(raw, r)
  <1>1. ASSUME NEW kind \in TypeToken, NEW d,
               d = NoDefault \/ \E x : d = ParseDefaultValue(kind, x) /\ d # NotADefault
        PROVE  Declared(Primitive(kind, d)) /\ Primitive(kind, d).shape = "primitive"
    BY <1>1 DEF Primitive, Declared
  <1>2. Declared(Unparsed) /\ Unparsed.shape = "bad" /\ Declared(Group)
    BY DEF Declared, Unparsed
  <1>3. ParseArraySpec(raw, r) = Unparsed \/ ParseArraySpec(raw, r).shape = "array"
    BY Zenon DEF ParseArraySpec
  <1>4. ParseGroup(raw, r) \in {Unparsed, Group}
    BY DEF ParseGroup
  <1>5. \/ ParsePrimitiveObject(raw, r) = Unparsed
        \/ /\ Declared(ParsePrimitiveObject(raw, r))
           /\ ParsePrimitiveObject(raw, r).shape = "primitive"
    <2> DEFINE kind    == ParseTypeToken(Get(raw, r, "$type").s)
               default == IF Has(raw, r, "$default")
                          THEN ParseDefaultValue(kind, Get(raw, r, "$default")) ELSE NoDefault
    <2>1. SUFFICES ASSUME ParsePrimitiveObject(raw, r) # Unparsed
                   PROVE  /\ Declared(ParsePrimitiveObject(raw, r))
                          /\ ParsePrimitiveObject(raw, r).shape = "primitive"
      OBVIOUS
    <2>2. /\ kind \in TypeToken /\ default # NotADefault
          /\ ParsePrimitiveObject(raw, r) = Primitive(kind, default)
      BY <2>1, Zenon DEF ParsePrimitiveObject
    <2>3. default = NoDefault \/ \E x : default = ParseDefaultValue(kind, x)
      OBVIOUS
    <2> HIDE DEF kind, default
    <2> QED BY <2>2, <2>3, <1>1
  <1>6. \/ r = <<>> /\ w = Group
        \/ r # <<>> /\ raw[r].t # "object" /\ w = Unparsed
        \/ /\ r # <<>> /\ raw[r].t # "object"
           /\ w = Primitive(ParseTypeToken(raw[r].s), NoDefault)
           /\ ParseTypeToken(raw[r].s) \in TypeToken
        \/ /\ r # <<>> /\ raw[r].t = "object"
           /\ w \in {Unparsed, ParseGroup(raw, r), ParseArraySpec(raw, r),
                     ParsePrimitiveObject(raw, r)}
    <2> HIDE DEF w
    <2>1. r = <<>> => w = Group BY Zenon DEF SpecWritten, w
    <2>2. r # <<>> /\ raw[r].t = "string" =>
            w = IF ParseTypeToken(raw[r].s) \in TypeToken
                THEN Primitive(ParseTypeToken(raw[r].s), NoDefault) ELSE Unparsed
       BY Zenon DEF SpecWritten, w
    <2>3. r # <<>> /\ raw[r].t # "string" /\ raw[r].t # "object" => w = Unparsed
       BY Zenon DEF SpecWritten, w
    <2>4. r # <<>> /\ raw[r].t # "string" /\ raw[r].t = "object" =>
            w \in {Unparsed, ParseGroup(raw, r), ParseArraySpec(raw, r),
                   ParsePrimitiveObject(raw, r)}
       BY Zenon DEF SpecWritten, w
    <2> QED BY <2>1, <2>2, <2>3, <2>4
  <1> HIDE DEF w
  <1>7. Declared(w) /\ (w.shape \in {"group", "array"} => r = <<>> \/ raw[r].t = "object")
    <2>1. CASE r = <<>> /\ w = Group
      BY <1>2, <2>1
    <2>2. CASE w = Unparsed
      BY <1>2, <2>2
    <2>3. CASE /\ w = Primitive(ParseTypeToken(raw[r].s), NoDefault)
               /\ ParseTypeToken(raw[r].s) \in TypeToken
      BY <1>1, <2>3
    <2>4. CASE /\ r # <<>> /\ raw[r].t = "object"
               /\ w \in {ParseGroup(raw, r), ParseArraySpec(raw, r),
                         ParsePrimitiveObject(raw, r)}
      <3>1. w.shape = "array" => Declared(w) BY DEF Declared
      <3> QED BY <1>2, <1>3, <1>4, <1>5, <2>4, <3>1
    <2> QED BY <1>6, <2>1, <2>2, <2>3, <2>4
  <1> QED BY <1>7 DEF w

(* A parsed schema has at each of its places what is written there.          *)
LEMMA Parsed ==
  ASSUME NEW raw, NEW spec, spec = ParameterSpecFromAny(raw), spec # BadSpec
  PROVE  /\ DOMAIN spec = SpecPlaces(raw)
         /\ \A s \in DOMAIN spec : /\ spec[s] = SpecWritten(raw, WrittenAt(s))
                                   /\ spec[s] # Unparsed /\ Declared(spec[s])
  <1> DEFINE all == [s \in SpecPlaces(raw) |-> SpecWritten(raw, WrittenAt(s))]
  <1>1. spec = IF \E s \in DOMAIN all : all[s] = Unparsed THEN BadSpec ELSE all
    BY Zenon DEF ParameterSpecFromAny
  <1>2. spec = all /\ \A s \in DOMAIN all : all[s] # Unparsed
    <2> HIDE DEF all
    <2> QED BY <1>1
  <1>3. DOMAIN all = SpecPlaces(raw) OBVIOUS
  <1>4. \A s \in SpecPlaces(raw) : all[s] = SpecWritten(raw, WrittenAt(s)) OBVIOUS
  <1>5. \A s \in SpecPlaces(raw) : Declared(all[s])
    <2> HIDE DEF all
    <2> QED BY <1>4, Written
  <1> HIDE DEF all
  <1> QED BY <1>2, <1>3, <1>4, <1>5

(* All defaults of a manifest match the types they are declared for.         *)
LEMMA ParsedDefaultsFit ==
  ASSUME NEW raw
  PROVE  DefaultsFit(ParameterSpecFromAny(raw))
  <1> DEFINE spec == ParameterSpecFromAny(raw)
  <1> HIDE DEF spec
  <1>1. CASE spec = BadSpec
    <2>1. DOMAIN BadSpec = {<<>>} /\ \A s \in {<<>>} : BadSpec[s].shape = "bad"
      BY DEF BadSpec, Unparsed
    <2> QED BY <1>1, <2>1 DEF DefaultsFit, spec
  <1>2. CASE spec # BadSpec
    <2>1. ASSUME NEW s \in DOMAIN spec, spec[s].shape = "primitive", ~HasNoDefault(spec[s])
          PROVE  /\ MatchesToken(spec[s].default, spec[s].kind)
                 /\ ReadsOtherwise(spec[s].default, spec[s].kind)
                      \/ MatchesToken(RereadAs(spec[s].default), spec[s].kind)
      <3>1. Declared(spec[s])
        <4>1. spec = ParameterSpecFromAny(raw) BY DEF spec
        <4> QED BY <4>1, <1>2, Parsed
      <3>2. spec[s].shape # "array" /\ spec[s] # Group /\ spec[s] # Unparsed
        BY <2>1 DEF Group, Unparsed
      <3>3. spec[s].default # NoDefault BY <2>1 DEF HasNoDefault
      <3>4. PICK x : /\ spec[s].default = ParseDefaultValue(spec[s].kind, x)
                     /\ spec[s].default # NotADefault /\ spec[s].kind \in TypeToken
        BY <3>1, <3>2, <3>3 DEF Declared
      <3>5. MatchesToken(spec[s].default, spec[s].kind) BY <3>4, DefaultParsed
      <3> QED BY <3>4, <3>5, RereadFits
    <2> QED BY <2>1, Zenon DEF DefaultsFit, spec
  <1> QED BY <1>1, <1>2

(* The place in the schema of a place in the file.                           *)
EveryItem(r) == [i \in DOMAIN r |-> IF i > 1 /\ r[i] = Field("$items") THEN Each ELSE r[i]]

(* The step to all elements is no step of a value.                           *)
LEMMA EachIsNoStep ==
  /\ \A x \in Steps : x # Each
  /\ Each[1] # "item" /\ Field("$items") # Each /\ Field("$items")[1] # "item"
  BY DEF Steps, Each, Field

(* Each place of a schema is written somewhere, and so are all on the way to *)
(* it, in a group or an array that parsed.                                   *)
LEMMA PlacesWritten ==
  ASSUME NEW raw, IsObject(raw), NEW s \in SpecPlaces(raw)
  PROVE  /\ s \in Ways /\ WrittenAt(s) \in DOMAIN raw
         /\ \A n \in 0..Len(s) : Upto(s, n) \in SpecPlaces(raw)
         /\ \A n \in 0..(Len(s) - 1) :
              /\ ParsedIn(raw, WrittenAt(Upto(s, n)), s[n + 1])
              /\ WrittenAt(Upto(s, n)) \in DOMAIN raw
              /\ s[n + 1] = Each
                 \/ raw[WrittenAt(Upto(s, n))].t
                      = IF s[n + 1][1] = "item" THEN "array" ELSE "object"
  <1>1. PICK r \in DOMAIN raw : s = EveryItem(r)
    BY Zenon DEF SpecPlaces, EveryItem
  <1>2. \A n \in 0..(Len(s) - 1) : ParsedIn(raw, WrittenAt(Upto(s, n)), s[n + 1])
    BY Zenon DEF SpecPlaces
  <1>3. r \in Seq(Steps) /\ r \in Ways /\ Len(r) \in Nat /\ \A i \in 1..Len(r) : r[i] \in Steps
    <2>1. r \in Seq(Steps) BY DEF IsObject, IsTree
    <2> QED BY <2>1, SeqMonotonic, LenProperties, ElementOfSeq DEF Ways
  <1>4. ASSUME NEW q \in Seq(Steps)
        PROVE  /\ EveryItem(q) \in Ways /\ Len(EveryItem(q)) = Len(q)
               /\ \A i \in 1..Len(q) : EveryItem(q)[i] =
                    IF i > 1 /\ q[i] = Field("$items") THEN Each ELSE q[i]
               /\ WrittenAt(EveryItem(q)) = q
    <2>1. DOMAIN q = 1..Len(q) /\ Len(q) \in Nat /\ \A i \in 1..Len(q) : q[i] \in Steps
      BY LenProperties, ElementOfSeq
    <2>2. /\ EveryItem(q) \in Ways /\ Len(EveryItem(q)) = Len(q)
          /\ DOMAIN EveryItem(q) = 1..Len(q)
          /\ \A i \in 1..Len(q) : EveryItem(q)[i] =
                    IF i > 1 /\ q[i] = Field("$items") THEN Each ELSE q[i]
      BY <2>1 DEF EveryItem, Ways
    <2>3. \A i \in 1..Len(q) :
              (IF EveryItem(q)[i] = Each THEN Field("$items") ELSE EveryItem(q)[i]) = q[i]
      BY <2>1, <2>2, EachIsNoStep
    <2>4. WrittenAt(EveryItem(q)) = [i \in 1..Len(q) |-> q[i]]
      BY <2>2, <2>3 DEF WrittenAt
    <2>5. q = [i \in 1..Len(q) |-> q[i]] BY <2>1
    <2> QED BY <2>2, <2>4, <2>5
  <1>5. s \in Ways /\ Len(s) = Len(r) /\ WrittenAt(s) = r
    BY <1>1, <1>3, <1>4
  <1>6. ASSUME NEW n \in 0..Len(s)
        PROVE  /\ Upto(r, n) \in DOMAIN raw /\ Upto(r, n) \in Seq(Steps)
               /\ Upto(s, n) = EveryItem(Upto(r, n))
               /\ WrittenAt(Upto(s, n)) = Upto(r, n)
    <2>1. Upto(r, n) \in DOMAIN raw
      <3>1. CASE n = Len(s)
        <4>1. n \in 0..Len(r) BY <1>5
        <4>2. Upto(r, n) = r BY <1>3, <1>5, <3>1, <4>1, UptoFacts, SamePath
        <4> QED BY <4>2
      <3>2. CASE n # Len(s)
        <4>1. n \in 0..(Len(r) - 1) BY <1>3, <1>5, <3>2
        <4> QED BY <4>1 DEF IsObject, IsTree
      <3> QED BY <3>1, <3>2
    <2>2. Upto(r, n) \in Seq(Steps) BY <2>1 DEF IsObject, IsTree
    <2> DEFINE rn == Upto(r, n)
    <2>3. Len(rn) = n /\ \A i \in 1..n : rn[i] = r[i]
      <3>1. n \in 0..Len(r) BY <1>5
      <3> QED BY <1>3, <3>1, UptoFacts
    <2>4. /\ Upto(s, n) \in Ways /\ Len(Upto(s, n)) = n
          /\ \A i \in 1..n : Upto(s, n)[i] = s[i]
      BY <1>5, UptoFacts
    <2>5. /\ EveryItem(rn) \in Ways /\ Len(EveryItem(rn)) = n
          /\ \A i \in 1..n : EveryItem(rn)[i] =
                    IF i > 1 /\ rn[i] = Field("$items") THEN Each ELSE rn[i]
          /\ WrittenAt(EveryItem(rn)) = rn
      <3> HIDE DEF rn
      <3>1. rn \in Seq(Steps) BY <2>2 DEF rn
      <3> QED BY <1>4, <2>3, <3>1
    <2>6. \A i \in 1..n : s[i] = IF i > 1 /\ r[i] = Field("$items") THEN Each ELSE r[i]
      <3>1. \A i \in 1..n : i \in 1..Len(r) BY <1>3, <1>5
      <3> QED BY <1>1, <1>3, <1>4, <3>1
    <2>7. \A i \in 1..n : Upto(s, n)[i] = EveryItem(rn)[i]
      <3> HIDE DEF rn
      <3> QED BY <2>3, <2>4, <2>5, <2>6
    <2>8. Upto(s, n) = EveryItem(rn) BY <2>4, <2>5, <2>7, SamePath
    <2> QED BY <2>1, <2>2, <2>5, <2>8
  <1>7. ASSUME NEW n \in 0..Len(s) PROVE Upto(s, n) \in SpecPlaces(raw)
    <2>1. \A k \in 0..(Len(Upto(s, n)) - 1) :
            ParsedIn(raw, WrittenAt(Upto(Upto(s, n), k)), Upto(s, n)[k + 1])
      <3>1. Len(s) \in Nat BY <1>3, <1>5
      <3>2. Len(Upto(s, n)) = n /\ \A i \in 1..n : Upto(s, n)[i] = s[i] BY <1>5, UptoFacts
      <3> SUFFICES ASSUME NEW k \in 0..(n - 1)
                   PROVE  ParsedIn(raw, WrittenAt(Upto(Upto(s, n), k)), Upto(s, n)[k + 1])
        BY <3>2
      <3>3. k \in 0..n /\ k + 1 \in 1..n /\ k \in 0..(Len(s) - 1) BY <3>1
      <3>4. Upto(Upto(s, n), k) = Upto(s, k) BY <1>5, <3>3, UptoUpto
      <3> QED BY <1>2, <3>2, <3>3, <3>4
    <2>2. \E q \in DOMAIN raw : Upto(s, n) = EveryItem(q) BY <1>6
    <2> QED BY <2>1, <2>2, Zenon DEF SpecPlaces, EveryItem
  <1>8. ASSUME NEW n \in 0..(Len(s) - 1)
        PROVE  /\ WrittenAt(Upto(s, n)) \in DOMAIN raw
               /\ \/ s[n + 1] = Each
                  \/ raw[WrittenAt(Upto(s, n))].t
                       = IF s[n + 1][1] = "item" THEN "array" ELSE "object"
    <2>1. n \in 0..Len(s) /\ n + 1 \in 1..Len(r) /\ n \in 0..(Len(r) - 1) BY <1>3, <1>5
    <2>2. WrittenAt(Upto(s, n)) = Upto(r, n) /\ Upto(r, n) \in DOMAIN raw BY <1>6, <2>1
    <2>3. s[n + 1] = Each \/ s[n + 1] = r[n + 1] BY <1>1, <1>3, <1>4, <2>1
    <2>4. raw[Upto(r, n)].t = IF r[n + 1][1] = "item" THEN "array" ELSE "object"
      BY <2>1 DEF IsObject, IsTree
    <2> QED BY <2>2, <2>3, <2>4
  <1>9. WrittenAt(s) \in DOMAIN raw BY <1>5
  <1> QED BY <1>2, <1>5, <1>7, <1>8, <1>9

(* So what a manifest declares is a spec, with a group wherever a field      *)
(* leads on.                                                                 *)
LEMMA ParsedIsSpec ==
  ASSUME NEW raw, IsObject(raw), ParameterSpecFromAny(raw) # BadSpec
  PROVE  IsSpec(ParameterSpecFromAny(raw))
  <1> DEFINE spec == ParameterSpecFromAny(raw)
  <1>1. /\ DOMAIN spec = SpecPlaces(raw)
        /\ \A s \in DOMAIN spec : /\ spec[s] = SpecWritten(raw, WrittenAt(s))
                                  /\ spec[s] # Unparsed /\ Declared(spec[s])
    <2> HIDE DEF spec
    <2>1. spec = ParameterSpecFromAny(raw) /\ spec # BadSpec BY DEF spec
    <2> QED BY <2>1, Parsed
  <1> HIDE DEF spec
  <1>2. <<>> \in SpecPlaces(raw)
    <2>1. <<>> \in DOMAIN raw BY DEF IsObject, IsTree
    <2>2. EveryItem(<<>>) = <<>> /\ Len(<<>>) = 0 /\ 0..(0 - 1) = {} BY DEF EveryItem
    <2>3. \A n \in 0..(Len(<<>>) - 1) : ParsedIn(raw, WrittenAt(Upto(<<>>, n)), <<>>[n + 1])
      BY <2>2
    <2>4. \E q \in DOMAIN raw : <<>> = EveryItem(q) BY <2>1, <2>2
    <2> QED BY <2>3, <2>4, Zenon DEF SpecPlaces, EveryItem
  <1>3. ASSUME NEW s \in DOMAIN spec, NEW n \in 0..(Len(s) - 1)
        PROVE  s[n + 1][1] # "item" /\ (s[n + 1] # Each => spec[Upto(s, n)] = Group)
    <2> DEFINE w == SpecWritten(raw, WrittenAt(Upto(s, n)))
    <2>1. s \in SpecPlaces(raw) BY <1>1
    <2>2. /\ ParsedIn(raw, WrittenAt(Upto(s, n)), s[n + 1])
          /\ s[n + 1] = Each
             \/ raw[WrittenAt(Upto(s, n))].t
                  = IF s[n + 1][1] = "item" THEN "array" ELSE "object"
          /\ Len(s) \in Nat /\ n \in 0..Len(s) /\ Upto(s, n) \in SpecPlaces(raw)
      <3>1. s \in Ways BY <2>1, PlacesWritten
      <3>2. Len(s) \in Nat BY <3>1, LenProperties DEF Ways
      <3>3. n \in 0..Len(s) BY <3>2
      <3> QED BY <2>1, <3>2, <3>3, PlacesWritten
    <2>3. s[n + 1] = Each => s[n + 1][1] # "item" BY EachIsNoStep
    <2>4. s[n + 1] # Each => w.shape = "group" BY <2>2 DEF ParsedIn
    <2>5. spec[Upto(s, n)] = w BY <1>1, <2>2
    <2>6. w.shape = "group" => w = Group /\ (WrittenAt(Upto(s, n)) = <<>> \/ raw[WrittenAt(Upto(s, n))].t = "object")
      <3>1. Declared(w) /\ (w.shape \in {"group", "array"} =>
                WrittenAt(Upto(s, n)) = <<>> \/ raw[WrittenAt(Upto(s, n))].t = "object")
        BY Written
      <3> HIDE DEF w
      <3> QED BY <3>1 DEF Declared, Unparsed
    <2>7. raw[<<>>].t = "object" BY DEF IsObject
    <2> HIDE DEF w
    <2> QED BY <2>2, <2>3, <2>4, <2>5, <2>6, <2>7
  <1>4. ASSUME NEW s \in DOMAIN spec
        PROVE  /\ s \in Ways /\ \A i \in 1..Len(s) : s[i][1] # "item"
               /\ \A n \in 0..Len(s) : Upto(s, n) \in DOMAIN spec
               /\ \/ spec[s].shape \in {"array", "group"}
                  \/ spec[s].shape = "primitive" /\ spec[s].kind \in TypeToken
    <2>1. s \in SpecPlaces(raw) BY <1>1
    <2>2. s \in Ways /\ \A n \in 0..Len(s) : Upto(s, n) \in DOMAIN spec
      BY <1>1, <2>1, PlacesWritten
    <2>3. Len(s) \in Nat BY <2>2, LenProperties DEF Ways
    <2>4. ASSUME NEW i \in 1..Len(s) PROVE s[i][1] # "item"
      <3>1. i - 1 \in 0..(Len(s) - 1) /\ (i - 1) + 1 = i BY <2>3
      <3> QED BY <1>3, <3>1
    <2>5. \/ spec[s].shape \in {"array", "group"}
          \/ spec[s].shape = "primitive" /\ spec[s].kind \in TypeToken
      BY <1>1 DEF Declared, Group
    <2> QED BY <2>2, <2>4, <2>5
  <1>5. IsSpec(spec) BY <1>1, <1>2, <1>3, <1>4 DEF IsSpec
  <1> QED BY <1>5 DEF spec

-----------------------------------------------------------------------------
(* NodeArguments: from the launch to the node that runs                      *)

(* A path that names a text in the schema names one in the arguments that    *)
(* are valid for it: each field on the way is that of a group, which has all *)
(* of its fields.  By induction over the way.                                *)
LEMMA MountIsThere ==
  ASSUME NEW value, NEW spec, IsSpec(spec), <<>> \in DOMAIN value, Valid(value, spec),
         DOMAIN value \subseteq Ways, NEW path \in Seq(STRING), NamesText(spec, path)
  PROVE  Fields(path) \in DOMAIN value /\ value[Fields(path)].t = "string"
  <1> DEFINE f == Fields(path)
             Holds == {n \in Nat : n > Len(f) \/ Upto(f, n) \in DOMAIN value}
  <1>1. /\ f \in Ways /\ Len(f) \in Nat /\ f \in DOMAIN spec
        /\ \A i \in 1..Len(f) : f[i] # Each /\ f[i][1] # "item"
    <2>1. f \in DOMAIN spec BY DEF NamesText
    <2>2. \A i \in DOMAIN path : path[i] \in STRING OBVIOUS
    <2>3. \A k : Field(k) # Each /\ Field(k)[1] # "item" BY DEF Field, Each
    <2>4. f \in Seq(Steps) /\ \A i \in 1..Len(f) : f[i] = Field(path[i])
      BY <2>2 DEF Fields, Field, Steps
    <2>5. f \in Ways /\ Len(f) \in Nat BY <2>4, SeqMonotonic, LenProperties DEF Ways
    <2> HIDE DEF f
    <2> QED BY <2>1, <2>3, <2>4, <2>5
  <1> HIDE DEF f
  <1>2. \A n \in 0..Len(f) : /\ Upto(f, n) \in Ways /\ Len(Upto(f, n)) = n
                             /\ \A i \in 1..n : Upto(f, n)[i] = f[i]
    BY <1>1, UptoFacts
  <1>3. Upto(f, Len(f)) = f
    <2>1. Len(f) \in 0..Len(f) BY <1>1
    <2> QED BY <1>1, <1>2, <2>1, SamePath
  <1>4. ASSUME NEW n \in 0..Len(f) PROVE PlaceOf(Upto(f, n)) = Upto(f, n)
    <2> DEFINE q == Upto(f, n)
    <2>1. q \in Ways /\ Len(q) = n /\ \A i \in 1..n : q[i][1] # "item"
      BY <1>1, <1>2
    <2> HIDE DEF q
    <2>2. /\ PlaceOf(q) \in Ways /\ Len(PlaceOf(q)) = n
          /\ \A i \in 1..n : PlaceOf(q)[i] = q[i]
      BY <2>1, PlaceFacts
    <2>3. PlaceOf(q) = q BY <2>1, <2>2, SamePath
    <2> QED BY <2>3 DEF q
  <1>5. 0 \in Holds
    <2>1. 0 \in 0..Len(f) BY <1>1
    <2>2. Upto(f, 0) = <<>>
      <3>1. Len(Upto(f, 0)) = 0 /\ Upto(f, 0) \in Seq(Steps \cup {Each})
        BY <1>2, <2>1 DEF Ways
      <3> QED BY <3>1, EmptySeq
    <2> QED BY <2>2
  <1>6. ASSUME NEW n \in Nat, n \in Holds PROVE n + 1 \in Holds
    <2>1. CASE n >= Len(f) BY <1>1, <2>1
    <2>2. CASE n < Len(f)
      <3> DEFINE q == Upto(f, n)
                 q1 == Upto(f, n + 1)
      <3>1. n \in 0..Len(f) /\ n + 1 \in 0..Len(f) /\ n \in 0..(Len(f) - 1)
        BY <1>1, <2>2
      <3>2. q \in DOMAIN value BY <1>1, <1>6, <2>2
      <3>3. /\ q \in DOMAIN spec /\ q1 \in DOMAIN spec /\ PlaceOf(q) = q /\ spec[q] = Group
        BY <1>1, <1>4, <3>1 DEF IsSpec
      <3>4. FitsAt(value, spec, q) BY <3>2, <3>3 DEF Valid
      <3> HIDE DEF q, q1
      <3>5. StepsFrom(value, q) = StepsFrom(spec, q) BY <3>3, <3>4 DEF FitsAt, Group
      <3>6. /\ q \in Ways /\ Len(q) = n /\ \A i \in 1..n : q[i] = f[i]
            /\ q1 \in Ways /\ Len(q1) = n + 1 /\ \A i \in 1..(n + 1) : q1[i] = f[i]
        BY <1>2, <3>1 DEF q, q1
      <3>7. Upto(q1, n) = q BY <1>1, <3>1, UptoUpto DEF q, q1
      <3>8. q1[n + 1] \in StepsFrom(spec, q) BY <3>3, <3>6, <3>7 DEF StepsFrom
      <3>9. PICK x \in DOMAIN value : Len(x) = n + 1 /\ Upto(x, n) = q /\ x[n + 1] = q1[n + 1]
        <4>1. q1[n + 1] \in StepsFrom(value, q) BY <3>5, <3>8
        <4>2. PICK x \in DOMAIN value :
                Len(x) = Len(q) + 1 /\ Upto(x, Len(q)) = q /\ q1[n + 1] = x[Len(x)]
          BY <4>1, Zenon DEF StepsFrom
        <4> QED BY <4>2, <3>6
      <3>10. x \in Ways /\ \A i \in 1..n : Upto(x, n)[i] = x[i]
        <4>1. x \in Ways OBVIOUS
        <4>2. n \in 0..Len(x) BY <3>9
        <4> QED BY <4>1, <4>2, UptoFacts
      <3>11. \A i \in 1..(n + 1) : x[i] = q1[i]
        <4>1. \A i \in 1..(n + 1) : i = n + 1 \/ i \in 1..n OBVIOUS
        <4> QED BY <4>1, <3>6, <3>9, <3>10
      <3>12. x = q1 BY <3>6, <3>9, <3>10, <3>11, SamePath
      <3> QED BY <3>12 DEF q1
    <2> QED BY <1>1, <2>1, <2>2
  <1>7. Nat \subseteq Holds
    <2> HIDE DEF Holds
    <2> QED BY <1>5, <1>6, Induction
  <1>8. f \in DOMAIN value
    <2>1. Len(f) \in Holds BY <1>1, <1>7
    <2> QED BY <1>1, <1>3, <2>1
  <1>9. PlaceOf(f) = f
    <2>1. Len(f) \in 0..Len(f) BY <1>1
    <2> QED BY <1>3, <1>4, <2>1
  <1>10. FitsAt(value, spec, f) BY <1>1, <1>8, <1>9 DEF Valid
  <1>11. spec[f].shape = "primitive" /\ spec[f].kind = "string" BY DEF NamesText, f
  <1>12. MatchesToken(value[f], "string") BY <1>9, <1>10, <1>11 DEF FitsAt
  <1>13. value[f].t = "string" BY <1>12 DEF MatchesToken, IntegerKinds
  <1> QED BY <1>8, <1>13 DEF f

(* With its defaults filled in, a value is placed.                           *)
LEMMA ResolvedPlaces ==
  ASSUME NEW value, NEW spec, Placed(value), IsSpec(spec)
  PROVE  Placed(MergeDefaults(value, spec))
  <1>1. DOMAIN MergeDefaults(value, spec) = DOMAIN value \cup FilledIn(value, spec)
    BY Merged, Zenon
  <1>2. <<>> \in DOMAIN value /\ DOMAIN value \subseteq Ways BY DEF Placed
  <1>3. ASSUME NEW q \in FilledIn(value, spec) PROVE q \in Ways
    <2>1. PICK p \in DOMAIN value, s \in DOMAIN spec :
            Lacks(value, spec, p, s) /\ q = Onward(p, s)
      BY FilledFrom
    <2> QED BY <2>1, FilledAt
  <1> QED BY <1>1, <1>2, <1>3 DEF Placed

(* The launch file is what the daemon made of the arguments, by the manifest *)
(* it launched from.                                                         *)
LaunchInv ==
  /\ manifestFile \in Manifests \cup {NoManifest}
  /\ launchFile # Nothing =>
       /\ manifestFile \in Manifests /\ launchedFrom \in Manifests /\ given \in UserArguments
       /\ ParseManifest(launchedFrom) # BadSpec
       /\ StillMissing(given, ParseManifest(launchedFrom)) = {}
       /\ launchFile = Reread(MergeDefaults(given, ParseManifest(launchedFrom)))

(* How far the start has got, and which manifest the node has read: in       *)
(* daemon mode the one whose fingerprint it checked.                         *)
StartInv ==
  /\ nodeMode \in {"none", "daemon", "standalone"}
  /\ nodeAt \in {"off", "checked", "running", "refused"}
  /\ nodeAt = "off" => nodeMode = "none" /\ schema = BadSpec
  /\ nodeAt = "checked" =>
       nodeMode = "daemon" /\ schema = BadSpec /\ fingerprint = manifestFile
  /\ nodeAt = "running" => nodeMode # "none" /\ schema # BadSpec
  /\ nodeMode # "none" => manifestFile \in Manifests
  /\ nodeMode = "daemon" => launchFile # Nothing
  /\ nodeMode = "standalone" => given \in UserArguments
  /\ schema # BadSpec => \E m \in Manifests : schema = SchemaOf(m)
  /\ nodeMode = "daemon" /\ schema # BadSpec => schema = SchemaOf(fingerprint)

(* The node runs just if what it was given resolves, with what that resolves *)
(* to.                                                                       *)
RunsWith(value) ==
  /\ nodeAt = "running" <=> Resolves(value, schema)
  /\ nodeAt = "running" => arguments = IntoResolved(value, schema).value

(* It was given the launch file, or standalone the arguments themselves.     *)
RunInv ==
  /\ nodeMode = "daemon" /\ schema # BadSpec => RunsWith(launchFile)
  /\ nodeMode = "standalone" /\ schema # BadSpec => RunsWith(given)

(* The inductive invariant of ArgumentsSpec.                                 *)
ArgInv == LaunchInv /\ StartInv /\ RunInv

(* It holds before anything was launched.                                    *)
LEMMA ArgInvInit == ArgumentsInit => ArgInv
  BY DEF ArgumentsInit, ArgInv, LaunchInv, StartInv, RunInv

(* A manifest that parses is read for its schema.                            *)
LEMMA ParseIsSchema ==
  ASSUME NEW m, ParseManifest(m) # BadSpec
  PROVE  ParseManifest(m) = SchemaOf(m)
  BY DEF ParseManifest

(* What the answer of into_resolved makes of a start.                        *)
LEMMA Settled ==
  ASSUME NEW value, schema' # BadSpec, Settle(IntoResolved(value, schema'))
  PROVE  /\ nodeAt' = "running" <=> Resolves(value, schema')
         /\ nodeAt' = "running" => arguments' = IntoResolved(value, schema').value
         /\ nodeAt' \in {"running", "refused"}
  BY DEF Settle, Resolves

(* Each step keeps it, if peppy.json5 does not change between the check of   *)
(* its fingerprint and its second read (new_daemon_from_path).               *)
LEMMA ArgInvStep ==
  ASSUME ~EditsMidStart, ArgInv, [ArgumentsNext]_argVars
  PROVE  ArgInv'
  <1> USE DEF ArgInv
  <1>1. ASSUME NEW m \in Manifests, EditManifest(m) PROVE ArgInv'
    <2> USE <1>1 DEF EditManifest
    <2>1. LaunchInv' BY DEF LaunchInv
    <2>2. StartInv' BY DEF StartInv
    <2>3. RunInv' BY DEF RunInv, RunsWith
    <2> QED BY <2>1, <2>2, <2>3
  <1>2. ASSUME GenerateCode PROVE ArgInv'
    <2> USE <1>2 DEF GenerateCode
    <2>1. LaunchInv' BY DEF LaunchInv
    <2>2. StartInv' BY DEF StartInv
    <2>3. RunInv' BY DEF RunInv, RunsWith
    <2> QED BY <2>1, <2>2, <2>3
  <1>3. ASSUME NEW args \in UserArguments, DaemonLaunches(args) PROVE ArgInv'
    <2> USE <1>3 DEF DaemonLaunches
    <2>1. LaunchInv'
      <3>1. ApplyParameterDefaults(args, ParseManifest(manifestFile))
              = MergeDefaults(args, ParseManifest(manifestFile))
        BY DEF ApplyParameterDefaults
      <3> QED BY <3>1 DEF LaunchInv
    <2>2. StartInv' BY DEF StartInv
    <2>3. RunInv' BY DEF RunInv, StartInv
    <2> QED BY <2>1, <2>2, <2>3
  <1>4. ASSUME StartFromDaemon PROVE ArgInv'
    <2> USE <1>4 DEF StartFromDaemon
    <2>1. LaunchInv' BY DEF LaunchInv
    <2>2. StartInv' BY DEF StartInv, LaunchInv
    <2>3. RunInv' BY DEF RunInv, StartInv
    <2> QED BY <2>1, <2>2, <2>3
  <1>5. ASSUME ReadManifest PROVE ArgInv'
    <2> USE <1>5 DEF ReadManifest
    <2>1. LaunchInv' BY DEF LaunchInv
    <2>2. schema' # BadSpec => Settle(IntoResolved(launchFile, schema')) OBVIOUS
    <2>3. schema' = BadSpec => nodeAt' = "refused" BY DEF Settle, Resolved
    <2>4. schema' # BadSpec => nodeAt' \in {"running", "refused"} /\ RunsWith(launchFile)'
      BY <2>2, Settled DEF RunsWith
    <2>5. StartInv' BY <2>3, <2>4 DEF StartInv, LaunchInv
    <2>6. RunInv' BY <2>4 DEF RunInv, StartInv
    <2> QED BY <2>1, <2>5, <2>6
  <1>6. ASSUME NEW args \in UserArguments, StartStandalone(args) PROVE ArgInv'
    <2> USE <1>6 DEF StartStandalone
    <2>1. LaunchInv' BY DEF LaunchInv
    <2>2. schema' # BadSpec => Settle(IntoResolved(args, schema')) OBVIOUS
    <2>3. schema' = BadSpec => nodeAt' = "refused" BY DEF Settle, Resolved
    <2>4. schema' # BadSpec => nodeAt' \in {"running", "refused"} /\ RunsWith(given)'
      BY <2>2, Settled DEF RunsWith
    <2>5. schema' # BadSpec => schema' = SchemaOf(manifestFile) BY ParseIsSchema
    <2>6. StartInv' BY <2>3, <2>4, <2>5 DEF StartInv, LaunchInv
    <2>7. RunInv' BY <2>4 DEF RunInv, StartInv
    <2> QED BY <2>1, <2>6, <2>7
  <1>7. CASE UNCHANGED argVars
    BY <1>7 DEF argVars, LaunchInv, StartInv, RunInv, RunsWith
  <1> QED BY <1>1, <1>2, <1>3, <1>4, <1>5, <1>6, <1>7 DEF ArgumentsNext

(* A node that read a schema read a spec.                                    *)
LEMMA SchemaIsSpec ==
  ASSUME StartInv, schema # BadSpec
  PROVE  IsSpec(schema)
  <1>1. PICK m \in Manifests : schema = SchemaOf(m) BY DEF StartInv
  <1>2. IsObject(m.parameters) BY TreesAssumption
  <1> QED BY <1>1, <1>2, ParsedIsSpec DEF SchemaOf

(* The answer is one or the other.                                           *)
LEMMA IntoResolvedOk ==
  ASSUME NEW value, NEW spec
  PROVE  IntoResolved(value, spec).ok \in BOOLEAN
  BY DEF IntoResolved, Resolved

(* What the invariant says of the node that runs.                            *)
LEMMA ArgInvMeans ==
  ASSUME ArgInv
  PROVE  ArgumentsResolved
  <1> USE DEF ArgInv
  <1>1. \A args \in UserArguments : Placed(args) BY TreesAssumption, TreePlaced DEF IsObject
  <1>2. ASSUME nodeMode = "daemon", schema # BadSpec, LaunchedByIt
        PROVE  /\ given \in UserArguments /\ StillMissing(given, schema) = {}
               /\ launchFile = Reread(MergeDefaults(given, schema))
               /\ ReadsAlike(MergeDefaults(given, schema), schema) =>
                    (Resolves(launchFile, schema) <=> Resolves(given, schema))
               /\ Resolves(launchFile, schema) =>
                    /\ Valid(launchFile, schema)
                    /\ IntoResolved(launchFile, schema).value = launchFile
    <2>1. /\ given \in UserArguments /\ ParseManifest(launchedFrom) = schema
          /\ StillMissing(given, schema) = {}
          /\ launchFile = Reread(MergeDefaults(given, schema))
      BY <1>2, ParseIsSchema DEF LaunchInv, StartInv, LaunchedByIt
    <2>2. IsSpec(schema) /\ Placed(given) BY <1>1, <1>2, <2>1, SchemaIsSpec
    <2> QED BY <2>1, <2>2, ReadBack
  <1>3. ASSUME nodeAt = "running", LaunchedByIt
        PROVE  /\ given \in UserArguments /\ StillMissing(given, schema) = {}
               /\ Valid(arguments, schema)
               /\ DOMAIN arguments = DOMAIN MergeDefaults(given, schema)
               /\ \A p \in DOMAIN arguments :
                    RereadAs(arguments[p]) = RereadAs(MergeDefaults(given, schema)[p])
    <2> DEFINE full == MergeDefaults(given, schema)
    <2>1. schema # BadSpec /\ nodeMode \in {"daemon", "standalone"} BY <1>3 DEF StartInv
    <2>2. CASE nodeMode = "daemon"
      <3>1. RunsWith(launchFile) BY <2>1, <2>2 DEF RunInv
      <3>2. /\ given \in UserArguments /\ StillMissing(given, schema) = {}
            /\ Valid(arguments, schema) /\ arguments = Reread(full)
        BY <1>2, <1>3, <2>1, <2>2, <3>1 DEF RunsWith
      <3>3. /\ DOMAIN arguments = DOMAIN full
            /\ \A p \in DOMAIN full : arguments[p] = RereadAs(full[p])
        <4> HIDE DEF full
        <4> QED BY <3>2 DEF Reread
      <3> HIDE DEF full
      <3>4. \A p \in DOMAIN arguments : RereadAs(arguments[p]) = RereadAs(full[p])
        BY <3>3, RereadKeeps
      <3> QED BY <3>2, <3>3, <3>4 DEF full
    <2>3. CASE nodeMode = "standalone"
      <3>1. RunsWith(given) BY <2>1, <2>3 DEF RunInv
      <3>2. StillMissing(given, schema) = {} /\ Valid(full, schema) /\ arguments = full
        BY <1>3, <3>1, IntoResolvedIs DEF RunsWith
      <3> QED BY <2>3, <3>2 DEF StartInv
    <2> QED BY <2>1, <2>2, <2>3
  <1>4. RunsAsDeclared
    <2>1. ASSUME nodeAt = "running", LaunchedByIt
          PROVE  KeepsAndFills(Reread(given), schema, Reread(arguments))
      <3> DEFINE has == Reread(arguments)
      <3>1. /\ DOMAIN has = DOMAIN arguments
            /\ \A p \in DOMAIN arguments : has[p] = RereadAs(arguments[p])
        BY DEF Reread
      <3>2. IsSpec(schema) /\ Placed(given)
        BY <1>1, <1>3, <2>1, SchemaIsSpec DEF StartInv
      <3> HIDE DEF has
      <3>3. KeepsAndFills(Reread(given), schema, has)
        BY <1>3, <2>1, <3>1, <3>2, Resolving
      <3> QED BY <3>3 DEF has
    <2>2. nodeAt = "running" /\ nodeMode = "daemon" => schema = SchemaOf(fingerprint)
      BY DEF StartInv
    <2> QED BY <2>1, <2>2 DEF RunsAsDeclared
  <1>5. StartsIfLaunched
    <2>1. DefaultsFit(SchemaOf(manifestFile)) BY ParsedDefaultsFit DEF SchemaOf
    <2>2. ASSUME nodeMode = "daemon", schema # BadSpec, LaunchedByIt,
                 ReadsAlike(MergeDefaults(given, schema), schema)
          PROVE  (nodeAt = "running") = IntoResolved(given, schema).ok
      <3>1. RunsWith(launchFile) BY <2>2 DEF RunInv
      <3>2. nodeAt = "running" <=> Resolves(given, schema)
        BY <1>2, <2>2, <3>1 DEF RunsWith
      <3> QED BY <3>2, IntoResolvedOk DEF Resolves
    <2> QED BY <2>1, <2>2 DEF StartsIfLaunched
  <1>6. MountsResolve
    <2> SUFFICES ASSUME nodeAt = "running", schema = ParseManifest(manifestFile),
                        NEW path \in manifestFile.references
                 PROVE  /\ Fields(path) \in DOMAIN arguments
                        /\ arguments[Fields(path)].t = "string"
      BY DEF MountsResolve
    <2>1. schema # BadSpec /\ nodeMode \in {"daemon", "standalone"} BY DEF StartInv
    <2>2. schema = SchemaOf(manifestFile) /\ NamesText(schema, path)
      BY <2>1, Zenon DEF ParseManifest
    <2>3. path \in Seq(STRING)
      <3>1. manifestFile \in Manifests BY <2>1 DEF StartInv
      <3> QED BY <3>1, TreesAssumption
    <2>4. PICK gave : /\ Placed(gave) /\ Resolves(gave, schema)
                      /\ arguments = MergeDefaults(gave, schema)
      <3>1. CASE nodeMode = "standalone"
        <4>1. RunsWith(given) BY <2>1, <3>1 DEF RunInv
        <4> QED BY <1>1, <3>1, <4>1, IntoResolvedIs DEF RunsWith, StartInv
      <3>2. CASE nodeMode = "daemon"
        <4> DEFINE spec == ParseManifest(launchedFrom)
                   full == MergeDefaults(given, spec)
        <4>1. RunsWith(launchFile) BY <2>1, <3>2 DEF RunInv
        <4>2. /\ given \in UserArguments /\ launchedFrom \in Manifests
              /\ spec # BadSpec /\ launchFile = Reread(full)
          BY <3>2 DEF LaunchInv, StartInv
        <4>3. IsSpec(spec)
          <5>1. spec = SchemaOf(launchedFrom) BY <4>2, ParseIsSchema
          <5>2. IsObject(launchedFrom.parameters) BY <4>2, TreesAssumption
          <5> HIDE DEF spec
          <5> QED BY <4>2, <5>1, <5>2, ParsedIsSpec DEF SchemaOf
        <4>4. Placed(full)
          <5> HIDE DEF spec
          <5> QED BY <1>1, <4>2, <4>3, ResolvedPlaces
        <4>5. DOMAIN launchFile = DOMAIN full
          <5> HIDE DEF full
          <5> QED BY <4>2 DEF Reread
        <4>6. Placed(launchFile)
          <5> HIDE DEF full
          <5> QED BY <4>4, <4>5 DEF Placed
        <4>7. Resolves(launchFile, schema) /\ arguments = MergeDefaults(launchFile, schema)
          BY <4>1, IntoResolvedIs DEF RunsWith
        <4> QED BY <4>6, <4>7
      <3> QED BY <2>1, <3>1, <3>2
    <2>5. IsSpec(schema) BY <2>1, SchemaIsSpec
    <2>6. Placed(arguments) BY <2>4, <2>5, ResolvedPlaces
    <2>7. Valid(arguments, schema) BY <2>4, IntoResolvedIs
    <2> QED BY <2>2, <2>3, <2>5, <2>6, <2>7, MountIsThere DEF Placed
  <1> QED BY <1>4, <1>5, <1>6 DEF ArgumentsResolved

(* A node that runs has every argument its manifest declares, those the      *)
(* launch named unchanged and the others at their declared defaults, up to   *)
(* the variant a number is read as; a start from a launch file comes to the  *)
(* same as validating at once, unless a whole float of a type of integers,   *)
(* or one that f32 does not hold as an integer, is among the values; and     *)
(* every mount finds its text (RawNodeArguments, validate_fingerprint,       *)
(* resolve_argument_path). For all manifests and arguments, of any depth.    *)
THEOREM ArgumentsCorrect ==
  ASSUME ~EditsMidStart
  PROVE  ArgumentsSpec => []ArgumentsResolved
  <1>1. ArgumentsInit => ArgInv BY ArgInvInit
  <1>2. ArgInv /\ [ArgumentsNext]_argVars => ArgInv' BY ArgInvStep
  <1>3. ArgInv => ArgumentsResolved BY ArgInvMeans
  <1> QED BY <1>1, <1>2, <1>3, PTL DEF ArgumentsSpec
=============================================================================
