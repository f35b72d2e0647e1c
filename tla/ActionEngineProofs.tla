------------------------- MODULE ActionEngineProofs -------------------------
(***************************************************************************)
(* Proofs about ActionEngine, for every set of goals, polls and cancels    *)
(* and every cap: its types, its safety, and that it implements            *)
(* ActionGoal.                                                             *)
(***************************************************************************)
EXTENDS ActionEngine, FiniteSetTheorems, TLAPS

(***************************************************************************)
(* The type invariant is not inductive: that a woken poll gets an outcome  *)
(* rests on the order of the steps of transition_terminal, and that the    *)
(* loops only touch goals rests on what they hold at each of their steps.  *)
(***************************************************************************)
Unaccepted == {"absent", "received", "rejected"}

(* How far the goal's task has come fixes the state of its slot.             *)
Lifecycle ==
  /\ \A g \in registry : slot[g] # None
  /\ \A g \in Goals :
       /\ slot[g] = None <=> stage[g] \in Unaccepted
       /\ terminal[g] => stage[g] \in {"running", "dropped"}
       /\ terminal[g] <=> outcome[g] # None
       /\ terminal[g] <=> delivery[g] # None
       /\ slot[g] = "terminal" => terminal[g]
       /\ delivery[g] = "swapped" => slot[g] = "pending"
       /\ delivery[g] \in {"draining", "done"} => slot[g] = "terminal"
       /\ window[g] # None <=> slot[g] = "terminal"

(* What the loops hold at each of their steps.                               *)
ResultHolds ==
  /\ resultLoop.pc \in {"recv", "stopped"} => resultLoop.poll = None
  /\ resultLoop.pc \notin {"recv", "stopped"} =>
       resultLoop.poll \in Polls /\ target[resultLoop.poll] \in Goals
  /\ resultLoop.pc = "act" => slot[target[resultLoop.poll]] # None
  /\ resultLoop.pc = "reply" => resultLoop.reply # None

CancelHolds ==
  /\ cancelLoop.pc \notin {"recv", "stopped"} =>
       cancelLoop.cancel \in Cancels /\ target[cancelLoop.cancel] \in Goals
  /\ cancelLoop.pc = "ack" => cancelLoop.reply # None

SweepHolds == \A g \in sweeper.expired : slot[g] = "terminal"

Asked ==
  \A p \in Polls : /\ target[p] # None => poll[p] # "idle"
                   /\ poll[p] = "queued" => target[p] # None

TypeInv ==
  TypeOK /\ Lifecycle /\ ResultHolds /\ CancelHolds /\ SweepHolds /\ Asked

LEMMA InitTypeInv == Init => TypeInv
  BY EngineAssumption
  DEF Init, TypeInv, TypeOK, StoreTypes, SlotTypes, RequestTypes, LoopTypes,
      Lifecycle, ResultHolds, CancelHolds, SweepHolds, Asked, Stages, Consumed,
      Answers, Outcomes, CancelStates, Requests, ResultIdle, CancelIdle,
      Unaccepted, None

(***************************************************************************)
(* A slot is freed when its last clone goes: accept's when it takes the    *)
(* slot back, the result loop's otherwise.  Its polls close with it.       *)
(***************************************************************************)
Frees(G, S) ==
  /\ waiters' = [h \in Goals |-> IF h \in G THEN {} ELSE waiters[h]]
  /\ poll' = Drop(S)

Parked(G) == {p \in Polls : \E g \in G : p \in waiters[g]}

LEMMA UnregisterFrees ==
  ASSUME TypeInv, NEW g \in Goals, AcceptUnregister(g)
  PROVE  \E G \in SUBSET {g} : Frees(G, Parked(G))
  <1>0. waiters \in [Goals -> SUBSET Polls] /\ poll = [p \in Polls |-> poll[p]]
    BY DEF TypeInv, TypeOK, SlotTypes, RequestTypes
  <1>1. CASE Busy(g)
    <2>1. Frees({}, Parked({}))
      BY <1>0, <1>1 DEF AcceptUnregister, Frees, Parked, Drop
    <2> QED BY <2>1
  <1>2. CASE ~Busy(g)
    <2>1. Parked({g}) = waiters[g]
      BY <1>0 DEF Parked
    <2>2. waiters' = [h \in Goals |-> IF h \in {g} THEN {} ELSE waiters[h]]
      BY <1>0, <1>2 DEF AcceptUnregister, FreeSlot
    <2>3. poll' = Drop(Parked({g}))
      BY <1>2, <2>1 DEF AcceptUnregister, FreeSlot
    <2> QED BY <2>2, <2>3 DEF Frees
  <1> QED BY <1>1, <1>2

LEMMA StopFrees ==
  ASSUME TypeInv, ResultStop
  PROVE  \E G \in SUBSET Goals, Q \in SUBSET Polls :
           /\ \A p \in Q : poll[p] = "queued" \/ p = resultLoop.poll
           /\ \A p \in Polls : p = resultLoop.poll => p \in Q
           /\ Frees(G, Q \cup Parked(G))
  <1> DEFINE G == {g \in Goals : Busy(g) /\ stage[g] = "failed"}
             Q == {p \in Polls : poll[p] = "queued" \/ p = resultLoop.poll}
  <1>1. waiters' = [h \in Goals |-> IF h \in G THEN {} ELSE waiters[h]]
    BY DEF ResultStop
  <1>2. poll' = Drop({p \in Polls : \/ poll[p] = "queued" \/ p = resultLoop.poll
                                    \/ \E g \in G : p \in waiters[g]})
    BY DEF ResultStop
  <1>3. {p \in Polls : \/ poll[p] = "queued" \/ p = resultLoop.poll
                      \/ \E g \in G : p \in waiters[g]} = Q \cup Parked(G)
    BY DEF Parked
  <1>4. Frees(G, Q \cup Parked(G))
    BY <1>1, <1>2, <1>3 DEF Frees
  <1> QED BY <1>4

LEMMA ActFrees ==
  ASSUME TypeInv, ActOnSlot,
         NEW p, p = resultLoop.poll, NEW g, g = target[p]
  PROVE  /\ p \in Polls /\ g \in Goals
         /\ \/ /\ resultLoop'.poll = p
               /\ UNCHANGED <<waiters, poll>>
            \/ /\ resultLoop' = ResultIdle
               /\ Frees({g}, {p} \cup Parked({g}))
            \/ /\ resultLoop' = ResultIdle
               /\ waiters' = [waiters EXCEPT ![g] = @ \cup {p}]
               /\ UNCHANGED poll
  <1>1. p \in Polls /\ g \in Goals /\ waiters \in [Goals -> SUBSET Polls]
    BY DEF ActOnSlot, TypeInv, TypeOK, SlotTypes, ResultHolds
  <1>2. CASE resultLoop' = [pc |-> "reply", poll |-> p, reply |-> RetainedReply(g)]
             /\ UNCHANGED <<waiters, poll>>
    BY <1>1, <1>2
  <1>3. CASE resultLoop' = ResultIdle /\ FreeSlot(g, waiters[g] \cup {p})
    <2>1. waiters[g] \cup {p} = {p} \cup Parked({g})
      BY <1>1 DEF Parked
    <2>2. waiters' = [h \in Goals |-> IF h \in {g} THEN {} ELSE waiters[h]]
      BY <1>1, <1>3 DEF FreeSlot
    <2> QED BY <1>1, <1>3, <2>1, <2>2 DEF Frees, FreeSlot
  <1>4. CASE /\ resultLoop' = ResultIdle
             /\ waiters' = [waiters EXCEPT ![g] = @ \cup {p}]
             /\ UNCHANGED poll
    BY <1>1, <1>4
  <1> QED BY <1>2, <1>3, <1>4 DEF ActOnSlot

LEMMA FreesEffect ==
  ASSUME TypeInv, NEW G, NEW S, Frees(G, S)
  PROVE  /\ \A h \in Goals : waiters'[h] = IF h \in G THEN {} ELSE waiters[h]
         /\ \A p \in Polls : poll'[p] = IF p \in S THEN "dropped" ELSE poll[p]
  BY DEF Frees, Drop

LEMMA FreesTypes ==
  ASSUME TypeInv, NEW G, NEW S \in SUBSET Polls, Frees(G, S),
         UNCHANGED <<up, target, ack, informed, slot, terminal, cancelled,
                     outcome, window, delivery, drain, sentinels>>
  PROVE  SlotTypes' /\ RequestTypes' /\ Asked'
  BY DEF TypeInv, TypeOK, SlotTypes, RequestTypes, Asked, Frees, Drop, Consumed,
         Answers

LEMMA ClientTypeInv ==
  ASSUME TypeInv, ClientStep PROVE TypeInv'
  <1> USE EngineAssumption DEF None, TypeInv, TypeOK
  <1>1. ASSUME NEW p \in Polls, SendPoll(p) PROVE TypeInv'
    <2> USE <1>1 DEF SendPoll, sharedVars, slotVars, workVars, clientVars,
            loopVars
    <2>1. StoreTypes' /\ SlotTypes' /\ LoopTypes'
      BY DEF StoreTypes, SlotTypes, LoopTypes
    <2>2. Lifecycle' /\ SweepHolds'
      BY DEF Lifecycle, SweepHolds
    <2>3. RequestTypes'
      BY DEF RequestTypes, Consumed, Answers, Outcomes, Requests
    <2>4. ResultHolds'
      BY DEF ResultHolds, LoopTypes, RequestTypes, SlotTypes, Asked, Requests
    <2>5. CancelHolds'
      BY DEF CancelHolds, LoopTypes, RequestTypes, Requests
    <2>6. Asked'
      BY DEF Asked, RequestTypes, Requests
    <2> QED BY <2>1, <2>2, <2>3, <2>4, <2>5, <2>6
  <1>2. ASSUME NEW c \in Cancels, SendCancel(c) PROVE TypeInv'
    <2> USE <1>2 DEF SendCancel, sharedVars, slotVars, workVars, clientVars,
            loopVars
    <2>1. StoreTypes' /\ SlotTypes' /\ LoopTypes'
      BY DEF StoreTypes, SlotTypes, LoopTypes
    <2>2. Lifecycle' /\ SweepHolds'
      BY DEF Lifecycle, SweepHolds
    <2>3. RequestTypes'
      BY DEF RequestTypes, Consumed, Answers, Outcomes, Requests
    <2>4. ResultHolds'
      BY DEF ResultHolds, LoopTypes, RequestTypes, SlotTypes, Asked, Requests
    <2>5. CancelHolds'
      BY DEF CancelHolds, LoopTypes, RequestTypes, Requests
    <2>6. Asked'
      BY DEF Asked, RequestTypes, Requests
    <2> QED BY <2>1, <2>2, <2>3, <2>4, <2>5, <2>6
  <1> QED BY <1>1, <1>2 DEF ClientStep

LEMMA UserTypeInv ==
  ASSUME NEW g \in Goals, TypeInv, UserStep(g) PROVE TypeInv'
  <1> USE EngineAssumption DEF None, TypeInv, TypeOK
  <1>1. ASSUME RecvNextGoal(g) PROVE TypeInv'
    <2> USE <1>1 DEF RecvNextGoal, At, sharedVars, slotVars, workVars,
            clientVars, loopVars
    <2>1. SlotTypes' /\ RequestTypes' /\ LoopTypes'
      BY DEF SlotTypes, RequestTypes, LoopTypes
    <2>2. ResultHolds' /\ CancelHolds' /\ SweepHolds'
      BY DEF ResultHolds, CancelHolds, SweepHolds
    <2>3. Asked'
      BY DEF Asked
    <2>4. StoreTypes'
      BY DEF StoreTypes, Stages, LoopTypes
    <2>5. Lifecycle'
      BY DEF Lifecycle, StoreTypes, SlotTypes, Unaccepted, Outcomes
    <2> QED BY <2>1, <2>2, <2>3, <2>4, <2>5
  <1>2. ASSUME Reject(g) PROVE TypeInv'
    <2> USE <1>2 DEF Reject, At, sharedVars, slotVars, workVars, clientVars,
            loopVars
    <2>1. SlotTypes' /\ RequestTypes' /\ LoopTypes'
      BY DEF SlotTypes, RequestTypes, LoopTypes
    <2>2. ResultHolds' /\ CancelHolds' /\ SweepHolds'
      BY DEF ResultHolds, CancelHolds, SweepHolds
    <2>3. Asked'
      BY DEF Asked
    <2>4. StoreTypes'
      BY DEF StoreTypes, Stages, LoopTypes
    <2>5. Lifecycle'
      BY DEF Lifecycle, StoreTypes, SlotTypes, Unaccepted, Outcomes
    <2> QED BY <2>1, <2>2, <2>3, <2>4, <2>5
  <1>3. ASSUME AcceptRegister(g) PROVE TypeInv'
    <2> USE <1>3 DEF AcceptRegister, At, sharedVars, slotVars, workVars,
            clientVars, loopVars
    <2>1. RequestTypes' /\ LoopTypes' /\ CancelHolds'
      BY DEF RequestTypes, LoopTypes, CancelHolds
    <2>2. Asked'
      BY DEF Asked
    <2>3. StoreTypes'
      BY DEF StoreTypes, Stages, LoopTypes
    <2>4. SlotTypes'
      BY DEF SlotTypes, Lifecycle, Outcomes, RequestTypes
    <2>5. Lifecycle'
      BY DEF Lifecycle, StoreTypes, SlotTypes, Unaccepted, Outcomes
    <2>6. ResultHolds'
      BY DEF ResultHolds, LoopTypes, RequestTypes, SlotTypes, Asked, Requests
    <2>7. SweepHolds'
      BY DEF SweepHolds, LoopTypes, Lifecycle, Unaccepted, SlotTypes
    <2> QED BY <2>1, <2>2, <2>3, <2>4, <2>5, <2>6, <2>7
  <1>4. ASSUME NEW o \in {"Completed", "Cancelled"}, Deliver(g, o) PROVE TypeInv'
    <2> USE <1>4 DEF Deliver, SwapTerminal, sharedVars, slotVars, workVars,
            clientVars, loopVars
    <2>1. StoreTypes' /\ RequestTypes' /\ LoopTypes'
      BY DEF StoreTypes, RequestTypes, LoopTypes
    <2>2. ResultHolds' /\ CancelHolds' /\ SweepHolds'
      BY DEF ResultHolds, CancelHolds, SweepHolds
    <2>3. Asked'
      BY DEF Asked
    <2>4. SlotTypes'
      BY DEF SlotTypes, Lifecycle, Outcomes, RequestTypes
    <2>5. Lifecycle'
      BY DEF Lifecycle, StoreTypes, SlotTypes, Unaccepted, Outcomes
    <2> QED BY <2>1, <2>2, <2>3, <2>4, <2>5
  <1>5. ASSUME DropContext(g) PROVE TypeInv'
    <2> USE <1>5 DEF DropContext, At, sharedVars, slotVars, workVars,
            clientVars, loopVars
    <2>1. SlotTypes' /\ RequestTypes' /\ LoopTypes'
      BY DEF SlotTypes, RequestTypes, LoopTypes
    <2>2. ResultHolds' /\ CancelHolds' /\ SweepHolds'
      BY DEF ResultHolds, CancelHolds, SweepHolds
    <2>3. Asked'
      BY DEF Asked
    <2>4. StoreTypes'
      BY DEF StoreTypes, Stages, LoopTypes
    <2>5. Lifecycle'
      BY DEF Lifecycle, StoreTypes, SlotTypes, Unaccepted, Outcomes
    <2> QED BY <2>1, <2>2, <2>3, <2>4, <2>5
  <1>6. ASSUME DropAccept(g) PROVE TypeInv'
    <2> USE <1>6 DEF DropAccept, At, Drop, sharedVars, slotVars, workVars,
            clientVars, loopVars
    <2>1. SlotTypes' /\ LoopTypes' /\ ResultHolds'
      BY DEF SlotTypes, LoopTypes, ResultHolds
    <2>2. CancelHolds' /\ SweepHolds'
      BY DEF CancelHolds, SweepHolds
    <2>3. StoreTypes'
      <3>1. CASE At(g, "adopting", "leaked")
        BY <3>1 DEF StoreTypes, Stages, LoopTypes
      <3>2. CASE At(g, "replying", "leaked")
        BY <3>2 DEF StoreTypes, Stages, LoopTypes
      <3> QED BY <3>1, <3>2
    <2>4. RequestTypes'
      <3>1. CASE At(g, "adopting", "leaked")
        BY <3>1 DEF RequestTypes, Consumed, Answers, Outcomes, Requests
      <3>2. CASE At(g, "replying", "leaked")
        BY <3>2 DEF RequestTypes, Consumed, Answers, Outcomes, Requests
      <3> QED BY <3>1, <3>2
    <2>5. Lifecycle'
      <3>1. CASE At(g, "adopting", "leaked")
        BY <3>1 DEF Lifecycle, StoreTypes, SlotTypes, Unaccepted, Outcomes
      <3>2. CASE At(g, "replying", "leaked")
        BY <3>2 DEF Lifecycle, StoreTypes, SlotTypes, Unaccepted, Outcomes
      <3> QED BY <3>1, <3>2
    <2>6. Asked'
      <3>1. CASE At(g, "adopting", "leaked")
        BY <3>1 DEF Asked, RequestTypes, Requests
      <3>2. CASE At(g, "replying", "leaked")
        BY <3>2 DEF Asked, RequestTypes, Requests
      <3> QED BY <3>1, <3>2
    <2> QED BY <2>1, <2>2, <2>3, <2>4, <2>5, <2>6
  <1>7. ASSUME DropDelivery(g) PROVE TypeInv'
    <2> USE <1>7 DEF DropDelivery, Drop, sharedVars, slotVars, workVars,
            clientVars, loopVars
    <2>1. StoreTypes' /\ LoopTypes' /\ ResultHolds'
      BY DEF StoreTypes, LoopTypes, ResultHolds
    <2>2. CancelHolds' /\ SweepHolds'
      BY DEF CancelHolds, SweepHolds
    <2>3. SlotTypes'
      BY DEF SlotTypes, Lifecycle, Outcomes, RequestTypes
    <2>4. RequestTypes'
      BY DEF RequestTypes, Consumed, Answers, Outcomes, Requests
    <2>5. Lifecycle'
      BY DEF Lifecycle, StoreTypes, SlotTypes, Unaccepted, Outcomes
    <2>6. Asked'
      BY DEF Asked, RequestTypes, Requests
    <2> QED BY <2>1, <2>2, <2>3, <2>4, <2>5, <2>6
  <1> QED BY <1>1, <1>2, <1>3, <1>4, <1>5, <1>6, <1>7 DEF UserStep

LEMMA GoalTypeInv ==
  ASSUME NEW g \in Goals, TypeInv, GoalStep(g) PROVE TypeInv'
  <1> USE EngineAssumption DEF None, TypeInv, TypeOK
  <1>1. ASSUME AcceptAdopt(g) PROVE TypeInv'
    <2> USE <1>1 DEF AcceptAdopt, At, LeaveEarly, sharedVars, slotVars,
            workVars, clientVars, loopVars
    <2>1. SlotTypes' /\ RequestTypes' /\ LoopTypes'
      BY DEF SlotTypes, RequestTypes, LoopTypes
    <2>2. ResultHolds' /\ CancelHolds' /\ SweepHolds'
      BY DEF ResultHolds, CancelHolds, SweepHolds
    <2>3. Asked'
      BY DEF Asked
    <2>4. StoreTypes'
      BY DEF StoreTypes, Stages, LoopTypes
    <2>5. Lifecycle'
      BY DEF Lifecycle, StoreTypes, SlotTypes, Unaccepted, Outcomes
    <2> QED BY <2>1, <2>2, <2>3, <2>4, <2>5
  <1>2. ASSUME AcceptExtend(g) PROVE TypeInv'
    <2> USE <1>2 DEF AcceptExtend, At, sharedVars, slotVars, workVars,
            clientVars, loopVars
    <2>1. RequestTypes' /\ LoopTypes' /\ ResultHolds'
      BY DEF RequestTypes, LoopTypes, ResultHolds
    <2>2. CancelHolds' /\ SweepHolds' /\ Asked'
      BY DEF CancelHolds, SweepHolds, Asked
    <2>3. StoreTypes'
      BY DEF StoreTypes, Stages, LoopTypes
    <2>4. SlotTypes'
      BY DEF SlotTypes, Lifecycle, Outcomes, RequestTypes, StoreTypes
    <2>5. Lifecycle'
      BY DEF Lifecycle, StoreTypes, SlotTypes, Unaccepted, Outcomes
    <2> QED BY <2>1, <2>2, <2>3, <2>4, <2>5
  <1>3. ASSUME AcceptReply(g) PROVE TypeInv'
    <2> USE <1>3 DEF AcceptReply, At, sharedVars, slotVars, workVars,
            clientVars, loopVars
    <2>1. SlotTypes' /\ RequestTypes' /\ LoopTypes'
      BY DEF SlotTypes, RequestTypes, LoopTypes
    <2>2. ResultHolds' /\ CancelHolds' /\ SweepHolds'
      BY DEF ResultHolds, CancelHolds, SweepHolds
    <2>3. Asked'
      BY DEF Asked
    <2>4. StoreTypes'
      BY DEF StoreTypes, Stages, LoopTypes
    <2>5. Lifecycle'
      BY DEF Lifecycle, StoreTypes, SlotTypes, Unaccepted, Outcomes
    <2> QED BY <2>1, <2>2, <2>3, <2>4, <2>5
  <1>4. ASSUME AcceptReplyFails(g) PROVE TypeInv'
    <2> USE <1>4 DEF AcceptReplyFails, At, sharedVars, slotVars, workVars,
            clientVars, loopVars
    <2>1. SlotTypes' /\ RequestTypes' /\ LoopTypes'
      BY DEF SlotTypes, RequestTypes, LoopTypes
    <2>2. ResultHolds' /\ CancelHolds' /\ SweepHolds'
      BY DEF ResultHolds, CancelHolds, SweepHolds
    <2>3. Asked'
      BY DEF Asked
    <2>4. StoreTypes'
      BY DEF StoreTypes, Stages, LoopTypes
    <2>5. Lifecycle'
      BY DEF Lifecycle, StoreTypes, SlotTypes, Unaccepted, Outcomes
    <2> QED BY <2>1, <2>2, <2>3, <2>4, <2>5
  <1>5. ASSUME AcceptUnregister(g) PROVE TypeInv'
    <2> USE <1>5 DEF AcceptUnregister, At, sharedVars, slotVars, workVars,
            clientVars, loopVars
    <2>1. SlotTypes' /\ RequestTypes' /\ Asked'
      <3>1. PICK G \in SUBSET {g} : Frees(G, Parked(G))
        BY UnregisterFrees
      <3>2. Parked(G) \in SUBSET Polls
        BY DEF Parked
      <3> QED BY <3>1, <3>2, FreesTypes
    <2>2. LoopTypes' /\ ResultHolds'
      BY DEF LoopTypes, ResultHolds
    <2>3. CancelHolds' /\ SweepHolds'
      BY DEF CancelHolds, SweepHolds
    <2>4. StoreTypes'
      BY DEF StoreTypes, Stages, LoopTypes
    <2>5. Lifecycle'
      BY DEF Lifecycle, StoreTypes, SlotTypes, Unaccepted, Outcomes
    <2> QED BY <2>1, <2>2, <2>3, <2>4, <2>5
  <1>6. ASSUME Abandon(g) PROVE TypeInv'
    <2> USE <1>6 DEF Abandon, SwapTerminal, sharedVars, slotVars, workVars,
            clientVars, loopVars
    <2>1. StoreTypes' /\ RequestTypes' /\ LoopTypes'
      BY DEF StoreTypes, RequestTypes, LoopTypes
    <2>2. ResultHolds' /\ CancelHolds' /\ SweepHolds'
      BY DEF ResultHolds, CancelHolds, SweepHolds
    <2>3. Asked'
      BY DEF Asked
    <2>4. SlotTypes'
      BY DEF SlotTypes, Lifecycle, Outcomes, RequestTypes
    <2>5. Lifecycle'
      BY DEF Lifecycle, StoreTypes, SlotTypes, Unaccepted, Outcomes
    <2> QED BY <2>1, <2>2, <2>3, <2>4, <2>5
  <1>7. ASSUME ReplaceState(g) PROVE TypeInv'
    <2> USE <1>7 DEF ReplaceState, TakeWaiters, sharedVars, slotVars,
            workVars, clientVars, loopVars
    <2>1. StoreTypes' /\ RequestTypes' /\ LoopTypes'
      BY DEF StoreTypes, RequestTypes, LoopTypes
    <2>2. CancelHolds' /\ Asked'
      BY DEF CancelHolds, Asked
    <2>3. SlotTypes'
      BY DEF SlotTypes, Lifecycle, Outcomes, RequestTypes
    <2>4. Lifecycle'
      BY DEF Lifecycle, StoreTypes, SlotTypes, Unaccepted, Outcomes
    <2>5. ResultHolds'
      BY DEF ResultHolds, LoopTypes, RequestTypes, SlotTypes, Asked, Requests
    <2>6. SweepHolds'
      BY DEF SweepHolds, LoopTypes
    <2> QED BY <2>1, <2>2, <2>3, <2>4, <2>5, <2>6
  <1>8. ASSUME NEW p \in Polls, WakeWaiter(g, p) PROVE TypeInv'
    <2> USE <1>8 DEF WakeWaiter, sharedVars, slotVars, workVars, clientVars,
            loopVars
    <2>1. StoreTypes' /\ LoopTypes' /\ Lifecycle'
      BY DEF StoreTypes, LoopTypes, Lifecycle
    <2>2. ResultHolds' /\ CancelHolds' /\ SweepHolds'
      BY DEF ResultHolds, CancelHolds, SweepHolds
    <2>3. SlotTypes'
      BY DEF SlotTypes, Lifecycle, Outcomes, RequestTypes
    <2>4. RequestTypes'
      BY DEF RequestTypes, Consumed, Answers, Outcomes, Requests, Lifecycle,
          SlotTypes
    <2>5. Asked'
      BY DEF Asked, RequestTypes, Requests, Lifecycle, SlotTypes, Outcomes
    <2> QED BY <2>1, <2>2, <2>3, <2>4, <2>5
  <1>9. ASSUME PublishEnd(g) PROVE TypeInv'
    <2> USE <1>9 DEF PublishEnd, EndsStream, sharedVars, slotVars, workVars,
            clientVars, loopVars
    <2>1. StoreTypes' /\ RequestTypes' /\ LoopTypes'
      BY DEF StoreTypes, RequestTypes, LoopTypes
    <2>2. ResultHolds' /\ CancelHolds' /\ SweepHolds'
      BY DEF ResultHolds, CancelHolds, SweepHolds
    <2>3. Asked'
      BY DEF Asked
    <2>4. SlotTypes'
      BY DEF SlotTypes, Lifecycle, Outcomes, RequestTypes
    <2>5. Lifecycle'
      BY DEF Lifecycle, StoreTypes, SlotTypes, Unaccepted, Outcomes
    <2> QED BY <2>1, <2>2, <2>3, <2>4, <2>5
  <1> QED BY <1>1, <1>2, <1>3, <1>4, <1>5, <1>6, <1>7, <1>8, <1>9 DEF GoalStep

LEMMA ResultTypeInv ==
  ASSUME TypeInv, ResultStep PROVE TypeInv'
  <1> USE EngineAssumption DEF None, TypeInv, TypeOK
  <1>1. ASSUME NEW p \in Polls, ResultRecv(p) PROVE TypeInv'
    <2> USE <1>1 DEF ResultRecv, sharedVars, slotVars, workVars, clientVars,
            loopVars
    <2>1. StoreTypes' /\ SlotTypes' /\ Lifecycle'
      BY DEF StoreTypes, SlotTypes, Lifecycle
    <2>2. CancelHolds' /\ SweepHolds'
      BY DEF CancelHolds, SweepHolds
    <2>3. RequestTypes'
      <3>1. CASE target[p] = "malformed"
        BY <3>1 DEF RequestTypes, Consumed, Answers, Outcomes, Requests
      <3>2. CASE target[p] # "malformed"
        BY <3>2 DEF RequestTypes, Consumed, Answers, Outcomes, Requests
      <3> QED BY <3>1, <3>2
    <2>4. LoopTypes'
      <3>1. CASE target[p] = "malformed"
        BY <3>1 DEF LoopTypes, Outcomes, CancelStates
      <3>2. CASE target[p] # "malformed"
        BY <3>2 DEF LoopTypes, Outcomes, CancelStates
      <3> QED BY <3>1, <3>2
    <2>5. ResultHolds'
      <3>1. CASE target[p] = "malformed"
        BY <3>1 DEF ResultHolds, LoopTypes, RequestTypes, SlotTypes, Asked,
            Requests
      <3>2. CASE target[p] # "malformed"
        BY <3>2 DEF ResultHolds, LoopTypes, RequestTypes, SlotTypes, Asked,
            Requests
      <3> QED BY <3>1, <3>2
    <2>6. Asked'
      <3>1. CASE target[p] = "malformed"
        BY <3>1 DEF Asked, RequestTypes, Requests
      <3>2. CASE target[p] # "malformed"
        BY <3>2 DEF Asked, RequestTypes, Requests
      <3> QED BY <3>1, <3>2
    <2> QED BY <2>1, <2>2, <2>3, <2>4, <2>5, <2>6
  <1>2. ASSUME ResultLookup PROVE TypeInv'
    <2> USE <1>2 DEF ResultLookup, ResultAt, sharedVars, slotVars, workVars,
            clientVars, loopVars
    <2>1. StoreTypes' /\ SlotTypes' /\ RequestTypes'
      BY DEF StoreTypes, SlotTypes, RequestTypes
    <2>2. Lifecycle' /\ CancelHolds' /\ SweepHolds'
      BY DEF Lifecycle, CancelHolds, SweepHolds
    <2>3. Asked'
      BY DEF Asked
    <2>4. LoopTypes'
      BY DEF LoopTypes, Outcomes, CancelStates
    <2>5. ResultHolds'
      BY DEF ResultHolds, LoopTypes, RequestTypes, SlotTypes, Asked,
          Requests, Lifecycle, Unaccepted, StoreTypes
    <2> QED BY <2>1, <2>2, <2>3, <2>4, <2>5
  <1>3. ASSUME ResultRecheck PROVE TypeInv'
    <2> USE <1>3 DEF ResultRecheck, ResultAt, RegisteredSince, sharedVars,
            slotVars, workVars, clientVars, loopVars
    <2>1. StoreTypes' /\ SlotTypes' /\ RequestTypes'
      BY DEF StoreTypes, SlotTypes, RequestTypes
    <2>2. Lifecycle' /\ CancelHolds' /\ SweepHolds'
      BY DEF Lifecycle, CancelHolds, SweepHolds
    <2>3. Asked'
      BY DEF Asked
    <2>4. LoopTypes'
      BY DEF LoopTypes, Outcomes, CancelStates
    <2>5. ResultHolds'
      BY DEF ResultHolds, LoopTypes, RequestTypes, SlotTypes, Asked,
          Requests, Lifecycle, Unaccepted, StoreTypes
    <2> QED BY <2>1, <2>2, <2>3, <2>4, <2>5
  <1>4. ASSUME ResultPark PROVE TypeInv'
    <2> USE <1>4 DEF ResultPark, ResultIdle, sharedVars, slotVars, workVars,
            clientVars, loopVars
    <2>1. SlotTypes' /\ Lifecycle' /\ CancelHolds'
      BY DEF SlotTypes, Lifecycle, CancelHolds
    <2>2. SweepHolds'
      BY DEF SweepHolds
    <2>3. StoreTypes'
      <3>1. CASE Tombstoned(target[resultLoop.poll])
        BY <3>1 DEF StoreTypes, Stages, LoopTypes, ResultHolds
      <3>2. CASE ~Tombstoned(target[resultLoop.poll]) /\ EarlyFull
        BY <3>2 DEF StoreTypes, Stages, LoopTypes, ResultHolds
      <3>3. CASE ~Tombstoned(target[resultLoop.poll]) /\ ~EarlyFull
        BY <3>3 DEF StoreTypes, Stages, LoopTypes, ResultHolds
      <3> QED BY <3>1, <3>2, <3>3
    <2>4. RequestTypes'
      <3>1. CASE Tombstoned(target[resultLoop.poll])
        BY <3>1 DEF RequestTypes, Consumed, Answers, Outcomes, Requests
      <3>2. CASE ~Tombstoned(target[resultLoop.poll]) /\ EarlyFull
        BY <3>2 DEF RequestTypes, Consumed, Answers, Outcomes, Requests
      <3>3. CASE ~Tombstoned(target[resultLoop.poll]) /\ ~EarlyFull
        BY <3>3 DEF RequestTypes, Consumed, Answers, Outcomes, Requests
      <3> QED BY <3>1, <3>2, <3>3
    <2>5. LoopTypes'
      <3>1. CASE Tombstoned(target[resultLoop.poll])
        BY <3>1 DEF LoopTypes, Outcomes, CancelStates
      <3>2. CASE ~Tombstoned(target[resultLoop.poll]) /\ EarlyFull
        BY <3>2 DEF LoopTypes, Outcomes, CancelStates
      <3>3. CASE ~Tombstoned(target[resultLoop.poll]) /\ ~EarlyFull
        BY <3>3 DEF LoopTypes, Outcomes, CancelStates
      <3> QED BY <3>1, <3>2, <3>3
    <2>6. ResultHolds'
      <3> DEFINE p == resultLoop.poll
      <3>1. p \in Polls /\ target[p] \in Goals
        BY DEF ResultHolds
      <3>2. \/ resultLoop' = [pc |-> "reply", poll |-> p, reply |-> "Expired"]
            \/ resultLoop' = [pc |-> "recv", poll |-> None, reply |-> None]
        BY DEF LoopTypes
      <3> QED BY <3>1, <3>2 DEF ResultHolds
    <2>7. Asked'
      <3>1. CASE Tombstoned(target[resultLoop.poll])
        BY <3>1 DEF Asked, RequestTypes, Requests
      <3>2. CASE ~Tombstoned(target[resultLoop.poll]) /\ EarlyFull
        BY <3>2 DEF Asked, RequestTypes, Requests
      <3>3. CASE ~Tombstoned(target[resultLoop.poll]) /\ ~EarlyFull
        BY <3>3 DEF Asked, RequestTypes, Requests
      <3> QED BY <3>1, <3>2, <3>3
    <2> QED BY <2>1, <2>2, <2>3, <2>4, <2>5, <2>6, <2>7
  <1>5. ASSUME ActOnSlot PROVE TypeInv'
    <2> USE <1>5 DEF ActOnSlot, Parks, RetainedReply, ResultIdle, sharedVars,
            slotVars, workVars, clientVars, loopVars
    <2>1. StoreTypes' /\ Lifecycle'
      BY DEF StoreTypes, Lifecycle
    <2>2. CancelHolds' /\ SweepHolds'
      BY DEF CancelHolds, SweepHolds
    <2>3. SlotTypes' /\ RequestTypes' /\ Asked'
      <3> DEFINE p == resultLoop.poll
                 g == target[p]
      <3>1. p \in Polls /\ g \in Goals
        BY DEF ResultHolds
      <3>2. CASE UNCHANGED <<waiters, poll>>
        BY <3>2 DEF SlotTypes, RequestTypes, Asked
      <3>3. CASE Frees({g}, {p} \cup Parked({g}))
        <4>1. {p} \cup Parked({g}) \in SUBSET Polls
          BY <3>1 DEF Parked
        <4> QED BY <3>3, <4>1, FreesTypes
      <3>4. CASE waiters' = [waiters EXCEPT ![g] = @ \cup {p}] /\ UNCHANGED poll
        BY <3>1, <3>4 DEF SlotTypes, RequestTypes, Asked
      <3> QED BY <1>5, <3>2, <3>3, <3>4, ActFrees
    <2>4. LoopTypes'
      <3> DEFINE p == resultLoop.poll
                 g == target[p]
      <3>1. p \in Polls /\ g \in Goals
        BY DEF ResultHolds
      <3>2. slot[g] = "terminal" => outcome[g] \in Outcomes
        BY <3>1 DEF Lifecycle, SlotTypes
      <3>3. \/ /\ slot[g] = "terminal"
               /\ resultLoop' = [pc |-> "reply", poll |-> p,
                                   reply |-> RetainedReply(g)]
            \/ resultLoop' = [pc |-> "recv", poll |-> None, reply |-> None]
        BY DEF LoopTypes
      <3> QED BY <3>1, <3>2, <3>3 DEF LoopTypes
    <2>5. ResultHolds'
      <3> DEFINE p == resultLoop.poll
                 g == target[p]
      <3>1. p \in Polls /\ g \in Goals
        BY DEF ResultHolds
      <3>2. slot[g] = "terminal" => outcome[g] # None
        BY <3>1 DEF Lifecycle
      <3>3. \/ /\ slot[g] = "terminal"
               /\ resultLoop' = [pc |-> "reply", poll |-> p,
                                   reply |-> RetainedReply(g)]
            \/ resultLoop' = [pc |-> "recv", poll |-> None, reply |-> None]
        BY DEF LoopTypes
      <3> QED BY <3>1, <3>2, <3>3 DEF ResultHolds
    <2> QED BY <2>1, <2>2, <2>3, <2>4, <2>5
  <1>6. ASSUME ResultReply PROVE TypeInv'
    <2> USE <1>6 DEF ResultReply, ResultIdle, sharedVars, slotVars, workVars,
            clientVars, loopVars
    <2>1. StoreTypes' /\ SlotTypes' /\ Lifecycle'
      BY DEF StoreTypes, SlotTypes, Lifecycle
    <2>2. CancelHolds' /\ SweepHolds'
      BY DEF CancelHolds, SweepHolds
    <2>3. RequestTypes'
      BY DEF RequestTypes, Consumed, Answers, Outcomes, Requests, LoopTypes,
          ResultHolds
    <2>4. LoopTypes'
      BY DEF LoopTypes, Outcomes, CancelStates
    <2>5. ResultHolds'
      BY DEF ResultHolds, LoopTypes, RequestTypes, SlotTypes, Asked, Requests
    <2>6. Asked'
      BY DEF Asked, RequestTypes, Requests, LoopTypes, ResultHolds, Outcomes
    <2> QED BY <2>1, <2>2, <2>3, <2>4, <2>5, <2>6
  <1>7. ASSUME ResultStop PROVE TypeInv'
    <2> USE <1>7 DEF ResultStop, ResultIdle, Drop, sharedVars, slotVars,
            workVars, clientVars, loopVars
    <2>1. StoreTypes' /\ Lifecycle'
      BY DEF StoreTypes, Lifecycle
    <2>2. CancelHolds' /\ SweepHolds'
      BY DEF CancelHolds, SweepHolds
    <2>3. SlotTypes' /\ RequestTypes' /\ Asked'
      <3>1. PICK G \in SUBSET Goals, Q \in SUBSET Polls : Frees(G, Q \cup Parked(G))
        BY StopFrees
      <3>2. Q \cup Parked(G) \in SUBSET Polls
        BY DEF Parked
      <3> QED BY <3>1, <3>2, FreesTypes
    <2>4. LoopTypes'
      BY DEF LoopTypes, Outcomes, CancelStates
    <2>5. ResultHolds'
      BY DEF ResultHolds, LoopTypes, RequestTypes, SlotTypes, Asked, Requests
    <2> QED BY <2>1, <2>2, <2>3, <2>4, <2>5
  <1> QED BY <1>1, <1>2, <1>3, <1>4, <1>5, <1>6, <1>7 DEF ResultStep

LEMMA CancelTypeInv ==
  ASSUME TypeInv, CancelStep PROVE TypeInv'
  <1> USE EngineAssumption DEF None, TypeInv, TypeOK
  <1>1. ASSUME NEW c \in Cancels, CancelRecv(c) PROVE TypeInv'
    <2> USE <1>1 DEF CancelRecv, sharedVars, slotVars, workVars, clientVars,
            loopVars
    <2>1. StoreTypes' /\ SlotTypes' /\ Lifecycle'
      BY DEF StoreTypes, SlotTypes, Lifecycle
    <2>2. ResultHolds' /\ SweepHolds' /\ Asked'
      BY DEF ResultHolds, SweepHolds, Asked
    <2>3. RequestTypes'
      <3>1. CASE target[c] = "malformed"
        BY <3>1 DEF RequestTypes, Consumed, Answers, Outcomes, Requests
      <3>2. CASE target[c] # "malformed"
        BY <3>2 DEF RequestTypes, Consumed, Answers, Outcomes, Requests
      <3> QED BY <3>1, <3>2
    <2>4. LoopTypes'
      <3>1. CASE target[c] = "malformed"
        BY <3>1 DEF LoopTypes, Outcomes, CancelStates
      <3>2. CASE target[c] # "malformed"
        BY <3>2 DEF LoopTypes, Outcomes, CancelStates
      <3> QED BY <3>1, <3>2
    <2>5. CancelHolds'
      <3>1. CASE target[c] = "malformed"
        BY <3>1 DEF CancelHolds, LoopTypes, RequestTypes, Requests
      <3>2. CASE target[c] # "malformed"
        BY <3>2 DEF CancelHolds, LoopTypes, RequestTypes, Requests
      <3> QED BY <3>1, <3>2
    <2> QED BY <2>1, <2>2, <2>3, <2>4, <2>5
  <1>2. ASSUME CancelLookup PROVE TypeInv'
    <2> USE <1>2 DEF CancelLookup, sharedVars, slotVars, workVars,
            clientVars, loopVars
    <2>1. StoreTypes' /\ SlotTypes' /\ RequestTypes'
      BY DEF StoreTypes, SlotTypes, RequestTypes
    <2>2. Lifecycle' /\ ResultHolds' /\ SweepHolds'
      BY DEF Lifecycle, ResultHolds, SweepHolds
    <2>3. Asked'
      BY DEF Asked
    <2>4. LoopTypes'
      BY DEF LoopTypes, Outcomes, CancelStates
    <2>5. CancelHolds'
      BY DEF CancelHolds, LoopTypes, RequestTypes, Requests
    <2> QED BY <2>1, <2>2, <2>3, <2>4, <2>5
  <1>3. ASSUME CancelSignal PROVE TypeInv'
    <2> USE <1>3 DEF CancelSignal, sharedVars, slotVars, workVars,
            clientVars, loopVars
    <2>1. StoreTypes' /\ RequestTypes' /\ Lifecycle'
      BY DEF StoreTypes, RequestTypes, Lifecycle
    <2>2. ResultHolds' /\ SweepHolds' /\ Asked'
      BY DEF ResultHolds, SweepHolds, Asked
    <2>3. SlotTypes'
      BY DEF SlotTypes, Lifecycle, Outcomes, RequestTypes, CancelHolds,
          LoopTypes
    <2>4. LoopTypes'
      BY DEF LoopTypes, Outcomes, CancelStates
    <2>5. CancelHolds'
      BY DEF CancelHolds, LoopTypes, RequestTypes, Requests
    <2> QED BY <2>1, <2>2, <2>3, <2>4, <2>5
  <1>4. ASSUME CancelTombstones PROVE TypeInv'
    <2> USE <1>4 DEF CancelTombstones, sharedVars, slotVars, workVars,
            clientVars, loopVars
    <2>1. StoreTypes' /\ SlotTypes' /\ RequestTypes'
      BY DEF StoreTypes, SlotTypes, RequestTypes
    <2>2. Lifecycle' /\ ResultHolds' /\ SweepHolds'
      BY DEF Lifecycle, ResultHolds, SweepHolds
    <2>3. Asked'
      BY DEF Asked
    <2>4. LoopTypes'
      BY DEF LoopTypes, Outcomes, CancelStates
    <2>5. CancelHolds'
      BY DEF CancelHolds, LoopTypes, RequestTypes, Requests
    <2> QED BY <2>1, <2>2, <2>3, <2>4, <2>5
  <1>5. ASSUME CancelReply PROVE TypeInv'
    <2> USE <1>5 DEF CancelReply, CancelIdle, sharedVars, slotVars, workVars,
            clientVars, loopVars
    <2>1. StoreTypes' /\ SlotTypes' /\ Lifecycle'
      BY DEF StoreTypes, SlotTypes, Lifecycle
    <2>2. ResultHolds' /\ SweepHolds' /\ Asked'
      BY DEF ResultHolds, SweepHolds, Asked
    <2>3. RequestTypes'
      BY DEF RequestTypes, Consumed, Answers, Outcomes, Requests,
          CancelHolds, CancelStates, LoopTypes
    <2>4. LoopTypes'
      BY DEF LoopTypes, Outcomes, CancelStates
    <2>5. CancelHolds'
      BY DEF CancelHolds, LoopTypes, RequestTypes, Requests
    <2> QED BY <2>1, <2>2, <2>3, <2>4, <2>5
  <1>6. ASSUME CancelStop PROVE TypeInv'
    <2> USE <1>6 DEF CancelStop, CancelIdle, sharedVars, slotVars, workVars,
            clientVars, loopVars
    <2>1. StoreTypes' /\ SlotTypes' /\ RequestTypes'
      BY DEF StoreTypes, SlotTypes, RequestTypes
    <2>2. Lifecycle' /\ ResultHolds' /\ SweepHolds'
      BY DEF Lifecycle, ResultHolds, SweepHolds
    <2>3. Asked'
      BY DEF Asked
    <2>4. LoopTypes'
      BY DEF LoopTypes, Outcomes, CancelStates
    <2>5. CancelHolds'
      BY DEF CancelHolds, LoopTypes, RequestTypes, Requests
    <2> QED BY <2>1, <2>2, <2>3, <2>4, <2>5
  <1> QED BY <1>1, <1>2, <1>3, <1>4, <1>5, <1>6 DEF CancelStep

LEMMA SweepTypeInv ==
  ASSUME TypeInv, SweepStep PROVE TypeInv'
  <1> USE EngineAssumption DEF None, TypeInv, TypeOK
  <1>1. ASSUME SweepRegistry PROVE TypeInv'
    <2> USE <1>1 DEF SweepRegistry, Evictable, sharedVars, slotVars,
            workVars, clientVars, loopVars
    <2>1. SlotTypes' /\ RequestTypes' /\ ResultHolds'
      BY DEF SlotTypes, RequestTypes, ResultHolds
    <2>2. CancelHolds' /\ Asked'
      BY DEF CancelHolds, Asked
    <2>3. StoreTypes'
      BY DEF StoreTypes, Stages, LoopTypes
    <2>4. LoopTypes'
      BY DEF LoopTypes, Outcomes, CancelStates, StoreTypes
    <2>5. Lifecycle'
      BY DEF Lifecycle, StoreTypes, SlotTypes, Unaccepted, Outcomes
    <2>6. SweepHolds'
      BY DEF SweepHolds, LoopTypes, StoreTypes
    <2> QED BY <2>1, <2>2, <2>3, <2>4, <2>5, <2>6
  <1>2. ASSUME NEW g \in Goals, SweepEntomb(g) PROVE TypeInv'
    <2> USE <1>2 DEF SweepEntomb, Entomb, sharedVars, slotVars, workVars,
            clientVars, loopVars
    <2>1. SlotTypes' /\ RequestTypes' /\ Lifecycle'
      BY DEF SlotTypes, RequestTypes, Lifecycle
    <2>2. ResultHolds' /\ CancelHolds' /\ Asked'
      BY DEF ResultHolds, CancelHolds, Asked
    <2>3. StoreTypes'
      BY DEF StoreTypes, Stages, LoopTypes
    <2>4. LoopTypes'
      BY DEF LoopTypes, Outcomes, CancelStates
    <2>5. SweepHolds'
      BY DEF SweepHolds, LoopTypes
    <2> QED BY <2>1, <2>2, <2>3, <2>4, <2>5
  <1>3. ASSUME SweepEarly PROVE TypeInv'
    <2> USE <1>3 DEF SweepEarly, LeaveEarly, Drop, sharedVars, slotVars,
            workVars, clientVars, loopVars
    <2>1. SlotTypes' /\ Lifecycle' /\ ResultHolds'
      BY DEF SlotTypes, Lifecycle, ResultHolds
    <2>2. CancelHolds'
      BY DEF CancelHolds
    <2>3. StoreTypes'
      BY DEF StoreTypes, Stages, LoopTypes
    <2>4. RequestTypes'
      BY DEF RequestTypes, Consumed, Answers, Outcomes, Requests
    <2>5. LoopTypes'
      BY DEF LoopTypes, Outcomes, CancelStates
    <2>6. SweepHolds'
      BY DEF SweepHolds, LoopTypes
    <2>7. Asked'
      BY DEF Asked, RequestTypes, Requests
    <2> QED BY <2>1, <2>2, <2>3, <2>4, <2>5, <2>6, <2>7
  <1>4. ASSUME SweepStop PROVE TypeInv'
    <2> USE <1>4 DEF SweepStop, sharedVars, slotVars, workVars, clientVars,
            loopVars
    <2>1. StoreTypes' /\ SlotTypes' /\ RequestTypes'
      BY DEF StoreTypes, SlotTypes, RequestTypes
    <2>2. Lifecycle' /\ ResultHolds' /\ CancelHolds'
      BY DEF Lifecycle, ResultHolds, CancelHolds
    <2>3. Asked'
      BY DEF Asked
    <2>4. LoopTypes'
      BY DEF LoopTypes, Outcomes, CancelStates
    <2>5. SweepHolds'
      BY DEF SweepHolds, LoopTypes
    <2> QED BY <2>1, <2>2, <2>3, <2>4, <2>5
  <1> QED BY <1>1, <1>2, <1>3, <1>4 DEF SweepStep

LEMMA TimeTypeInv ==
  ASSUME TypeInv, TimeStep PROVE TypeInv'
  <1> USE EngineAssumption DEF None, TypeInv, TypeOK
  <1>1. ASSUME NEW g \in Goals, CloseWindow(g) PROVE TypeInv'
    <2> USE <1>1 DEF CloseWindow, sharedVars, slotVars, workVars, clientVars,
            loopVars
    <2>1. StoreTypes' /\ RequestTypes' /\ LoopTypes'
      BY DEF StoreTypes, RequestTypes, LoopTypes
    <2>2. ResultHolds' /\ CancelHolds' /\ SweepHolds'
      BY DEF ResultHolds, CancelHolds, SweepHolds
    <2>3. Asked'
      BY DEF Asked
    <2>4. SlotTypes'
      BY DEF SlotTypes, Lifecycle, Outcomes, RequestTypes
    <2>5. Lifecycle'
      BY DEF Lifecycle, StoreTypes, SlotTypes, Unaccepted, Outcomes
    <2> QED BY <2>1, <2>2, <2>3, <2>4, <2>5
  <1>2. ASSUME NEW p \in Polls, PassDeadline(p) PROVE TypeInv'
    <2> USE <1>2 DEF PassDeadline, sharedVars, slotVars, workVars,
            clientVars, loopVars
    <2>1. SlotTypes' /\ RequestTypes' /\ LoopTypes'
      BY DEF SlotTypes, RequestTypes, LoopTypes
    <2>2. Lifecycle' /\ ResultHolds' /\ CancelHolds'
      BY DEF Lifecycle, ResultHolds, CancelHolds
    <2>3. SweepHolds' /\ Asked'
      BY DEF SweepHolds, Asked
    <2>4. StoreTypes'
      BY DEF StoreTypes, Stages, LoopTypes
    <2> QED BY <2>1, <2>2, <2>3, <2>4
  <1> QED BY <1>1, <1>2 DEF TimeStep

LEMMA TypeInvStep == ASSUME TypeInv, [Next]_vars PROVE TypeInv'
  <1>1. CASE ClientStep
    BY <1>1, ClientTypeInv
  <1>2. ASSUME NEW g \in Goals, UserStep(g) \/ GoalStep(g) PROVE TypeInv'
    BY <1>2, UserTypeInv, GoalTypeInv
  <1>3. CASE ResultStep \/ CancelStep \/ SweepStep \/ TimeStep
    BY <1>3, ResultTypeInv, CancelTypeInv, SweepTypeInv, TimeTypeInv
  <1>4. CASE DropEngine \/ UNCHANGED vars
    <2> USE <1>4 DEF TypeInv, TypeOK, DropEngine, vars, sharedVars, slotVars,
                     workVars, clientVars, loopVars
    <2>1. StoreTypes' /\ SlotTypes' /\ LoopTypes'
      BY DEF StoreTypes, SlotTypes, LoopTypes
    <2>2. RequestTypes'
      BY DEF RequestTypes
    <2>3. Lifecycle' /\ Asked'
      BY DEF Lifecycle, Asked
    <2>4. ResultHolds' /\ CancelHolds' /\ SweepHolds'
      BY DEF ResultHolds, CancelHolds, SweepHolds
    <2> QED BY <2>1, <2>2, <2>3, <2>4
  <1> QED BY <1>1, <1>2, <1>3, <1>4 DEF Next

LEMMA TypeInvHolds == Spec => []TypeInv
  <1>1. TypeInv /\ [Next]_vars => TypeInv'
    BY TypeInvStep
  <1> QED BY InitTypeInv, <1>1, PTL DEF Spec

(***************************************************************************)
(* Every variable of the engine keeps its type: in particular an answer    *)
(* handed to a parked poll is always a decided outcome, and the loops only *)
(* ever index the slots of goals.                                          *)
(***************************************************************************)
THEOREM TypeCorrect == Spec => []TypeOK
  <1>1. TypeInv => TypeOK
    BY DEF TypeInv
  <1> QED BY TypeInvHolds, <1>1, PTL

-----------------------------------------------------------------------------
(* Safety                                                                    *)
(* Each property rests on TypeInv and on a strengthening of its own.       *)

(***************************************************************************)
(* The feedback stream of a goal closes once, when its delivery is done;   *)
(* no poll parks in a slot that is terminal, and only a delivery that is   *)
(* draining has polls to answer.                                           *)
(***************************************************************************)
Closing ==
  \A g \in Goals :
    /\ sentinels[g] = IF delivery[g] = "done" /\ HasFeedback THEN 1 ELSE 0
    /\ slot[g] = "terminal" => waiters[g] = {}
    /\ delivery[g] # "draining" => drain[g] = {}

LEMMA ClosingStep ==
  ASSUME TypeInv, Closing, [Next]_vars PROVE Closing'
  <1> USE EngineAssumption
      DEF Closing, TypeInv, TypeOK, SlotTypes, StoreTypes, None, vars,
          sharedVars, slotVars, workVars, clientVars, loopVars, At
  <1>1. ASSUME ClientStep PROVE Closing'
    BY <1>1 DEF ClientStep, SendPoll, SendCancel
  <1>2. ASSUME NEW g \in Goals, UserStep(g) PROVE Closing'
    <2>1. CASE RecvNextGoal(g) \/ Reject(g) \/ DropContext(g) \/ DropAccept(g)
      BY <2>1 DEF RecvNextGoal, Reject, DropContext, DropAccept
    <2>2. CASE AcceptRegister(g)
      BY <2>2 DEF AcceptRegister
    <2>3. ASSUME NEW o \in {"Completed", "Cancelled"}, Deliver(g, o)
          PROVE  Closing'
      BY <2>3 DEF Deliver, SwapTerminal, Lifecycle
    <2>4. CASE DropDelivery(g)
      BY <2>4 DEF DropDelivery
    <2> QED BY <1>2, <2>1, <2>2, <2>3, <2>4 DEF UserStep
  <1>3. ASSUME NEW g \in Goals, GoalStep(g) PROVE Closing'
    <2>1. CASE AcceptAdopt(g) \/ AcceptReply(g) \/ AcceptReplyFails(g)
      BY <2>1 DEF AcceptAdopt, AcceptReply, AcceptReplyFails
    <2>7. CASE AcceptUnregister(g)
      <3>1. PICK G \in SUBSET {g} : Frees(G, Parked(G))
        BY <2>7, UnregisterFrees
      <3>2. \A h \in Goals : waiters'[h] = IF h \in G THEN {} ELSE waiters[h]
        BY <3>1, FreesEffect
      <3> QED BY <2>7, <3>2 DEF AcceptUnregister
    <2>2. CASE AcceptExtend(g)
      <3>1. slot[g] # "terminal"
        BY <2>2 DEF AcceptExtend, Lifecycle
      <3> QED BY <2>2, <3>1 DEF AcceptExtend
    <2>3. CASE Abandon(g)
      BY <2>3 DEF Abandon, SwapTerminal, Lifecycle
    <2>4. CASE ReplaceState(g)
      BY <2>4 DEF ReplaceState, TakeWaiters
    <2>5. ASSUME NEW p \in Polls, WakeWaiter(g, p) PROVE Closing'
      BY <2>5 DEF WakeWaiter
    <2>6. CASE PublishEnd(g)
      BY <2>6 DEF PublishEnd, EndsStream
    <2> QED BY <1>3, <2>1, <2>2, <2>3, <2>4, <2>5, <2>6, <2>7 DEF GoalStep
  <1>4. ASSUME ResultStep PROVE Closing'
    <2>1. CASE \/ ResultLookup \/ ResultRecheck \/ ResultPark \/ ResultReply
               \/ \E p \in Polls : ResultRecv(p)
      BY <2>1 DEF ResultLookup, ResultRecheck, ResultPark, ResultReply,
                  ResultRecv
    <2>2. CASE ActOnSlot
      BY <2>2 DEF ActOnSlot, Parks, FreeSlot, ResultHolds
    <2>3. CASE ResultStop
      BY <2>3, StopFrees, FreesEffect DEF ResultStop
    <2> QED BY <1>4, <2>1, <2>2, <2>3 DEF ResultStep
  <1>5. ASSUME CancelStep PROVE Closing'
    BY <1>5 DEF CancelStep, CancelRecv, CancelLookup, CancelSignal,
                CancelTombstones, CancelReply, CancelStop
  <1>6. ASSUME SweepStep PROVE Closing'
    BY <1>6 DEF SweepStep, SweepRegistry, SweepEntomb, SweepEarly, SweepStop
  <1>7. ASSUME TimeStep \/ DropEngine \/ UNCHANGED vars PROVE Closing'
    BY <1>7 DEF TimeStep, CloseWindow, PassDeadline, DropEngine
  <1> QED BY <1>1, <1>2, <1>3, <1>4, <1>5, <1>6, <1>7 DEF Next

LEMMA ClosingHolds == Spec => []Closing
  <1>1. Init => Closing
    BY DEF Init, Closing, None
  <1>2. TypeInv /\ Closing /\ [Next]_vars => Closing'
    BY ClosingStep
  <1> QED BY TypeInvHolds, <1>1, <1>2, PTL DEF Spec

(***************************************************************************)
(* publish_end runs at most once per goal, and only after every poll that  *)
(* was parked has been answered.                                           *)
(***************************************************************************)
THEOREM SentinelCorrect == Spec => []SentinelOnceAfterResult
  <1>1. TypeInv /\ Closing => SentinelOnceAfterResult
    BY DEF TypeInv, Lifecycle, Closing, SentinelOnceAfterResult
  <1> QED BY TypeInvHolds, ClosingHolds, <1>1, PTL

(***************************************************************************)
(* When the caller never drops an accept or complete future half way, each *)
(* poll parked in a routable slot has a task bound to answer it: between   *)
(* accept and the delivery that wins, the goal's own task; after it, that  *)
(* delivery.                                                               *)
(***************************************************************************)
Uncut ==
  ~DropsFutures =>
    \A g \in Goals :
      /\ stage[g] # "leaked"
      /\ delivery[g] # "cut"
      /\ stage[g] = "failed" => g \notin registry

LEMMA UncutStep ==
  ASSUME TypeInv, Uncut, [Next]_vars PROVE Uncut'
  <1> USE EngineAssumption
      DEF Uncut, TypeInv, TypeOK, SlotTypes, StoreTypes, None, vars,
          sharedVars, slotVars, workVars, clientVars, loopVars, At
  <1>1. ASSUME ClientStep PROVE Uncut'
    BY <1>1 DEF ClientStep, SendPoll, SendCancel
  <1>2. ASSUME NEW g \in Goals, UserStep(g) PROVE Uncut'
    <2>1. CASE RecvNextGoal(g) \/ Reject(g) \/ DropContext(g)
      BY <2>1 DEF RecvNextGoal, Reject, DropContext
    <2>2. CASE AcceptRegister(g)
      BY <2>2 DEF AcceptRegister
    <2>3. ASSUME NEW o \in {"Completed", "Cancelled"}, Deliver(g, o)
          PROVE  Uncut'
      BY <2>3 DEF Deliver, SwapTerminal
    <2>4. CASE DropAccept(g) \/ DropDelivery(g)
      BY <2>4 DEF DropAccept, DropDelivery
    <2> QED BY <1>2, <2>1, <2>2, <2>3, <2>4 DEF UserStep
  <1>3. ASSUME NEW g \in Goals, GoalStep(g) PROVE Uncut'
    <2>1. CASE \/ AcceptAdopt(g) \/ AcceptExtend(g) \/ AcceptReply(g)
               \/ AcceptReplyFails(g)
      BY <2>1 DEF AcceptAdopt, AcceptExtend, AcceptReply, AcceptReplyFails
    <2>2. CASE AcceptUnregister(g)
      BY <2>2 DEF AcceptUnregister
    <2>3. CASE Abandon(g)
      BY <2>3 DEF Abandon, SwapTerminal
    <2>4. CASE ReplaceState(g) \/ PublishEnd(g) \/ \E p \in Polls : WakeWaiter(g, p)
      BY <2>4 DEF ReplaceState, WakeWaiter, PublishEnd
    <2> QED BY <1>3, <2>1, <2>2, <2>3, <2>4 DEF GoalStep
  <1>4. ASSUME ResultStep PROVE Uncut'
    BY <1>4 DEF ResultStep, ResultRecv, ResultLookup, ResultRecheck,
                ResultPark, ActOnSlot, ResultReply, ResultStop
  <1>5. ASSUME CancelStep PROVE Uncut'
    BY <1>5 DEF CancelStep, CancelRecv, CancelLookup, CancelSignal,
                CancelTombstones, CancelReply, CancelStop
  <1>6. ASSUME SweepStep PROVE Uncut'
    BY <1>6 DEF SweepStep, SweepRegistry, SweepEntomb, SweepEarly, SweepStop
  <1>7. ASSUME TimeStep \/ DropEngine \/ UNCHANGED vars PROVE Uncut'
    BY <1>7 DEF TimeStep, CloseWindow, PassDeadline, DropEngine
  <1> QED BY <1>1, <1>2, <1>3, <1>4, <1>5, <1>6, <1>7 DEF Next

(***************************************************************************)
(* No wakeup is lost as long as nobody drops an accept or complete future  *)
(* (the run EngineCutOrphans shows that the condition is needed): a poll   *)
(* parked in a routable slot always has a task that will still reach it.   *)
(***************************************************************************)
THEOREM OwnerCorrect ==
  ASSUME ~DropsFutures PROVE Spec => []WaiterHasOwner
  <1>1. Init => Uncut
    BY DEF Init, Uncut, None
  <1>2. TypeInv /\ Uncut /\ [Next]_vars => Uncut'
    BY UncutStep
  <1>3. TypeInv /\ Closing /\ Uncut => WaiterHasOwner
    BY DEF TypeInv, TypeOK, StoreTypes, SlotTypes, Stages, Lifecycle, Closing,
           Uncut, WaiterHasOwner, HasOwner, Accepting, Unaccepted, None
  <1> QED BY TypeInvHolds, ClosingHolds, <1>1, <1>2, <1>3, PTL DEF Spec

(***************************************************************************)
(* A pending slot is routable until accept takes it back; from then on it  *)
(* holds polls only while the result loop has a clone of it.               *)
(***************************************************************************)
Routed ==
  \A g \in Goals :
    /\ slot[g] = "pending" => g \in registry \/ stage[g] = "failed"
    /\ g \notin registry /\ waiters[g] # {} => Busy(g)

LEMMA RoutedStep ==
  ASSUME TypeInv, Closing, Routed, [Next]_vars PROVE Routed'
  <1> USE EngineAssumption
      DEF Routed, Busy, TypeInv, TypeOK, StoreTypes, SlotTypes, None, vars,
          sharedVars, slotVars, workVars, clientVars, loopVars, At
  <1>0. \A g \in Goals : Busy(g) => slot[g] # None
    BY DEF ResultHolds
  <1>t. /\ stage \in [Goals -> Stages] /\ waiters \in [Goals -> SUBSET Polls]
        /\ slot \in [Goals -> {None, "pending", "terminal"}]
    OBVIOUS
  <1>1. ASSUME ClientStep PROVE Routed'
    <2>1. \A g \in Goals : Busy(g) => Busy(g)'
      <3>1. resultLoop.pc = "act" => resultLoop.poll \in Polls
                                     /\ target[resultLoop.poll] \in Goals
        BY DEF ResultHolds
      <3>2. resultLoop.pc = "act" => target'[resultLoop.poll] = target[resultLoop.poll]
        <4>1. resultLoop.pc = "act" => poll[resultLoop.poll] # "idle"
          BY <3>1 DEF Asked
        <4>2. ASSUME NEW p \in Polls, SendPoll(p) PROVE <3>2
          BY <3>1, <4>1, <4>2 DEF SendPoll
        <4>3. ASSUME NEW c \in Cancels, SendCancel(c) PROVE <3>2
          BY <3>1, <4>3 DEF SendCancel
        <4> QED BY <1>1, <4>2, <4>3 DEF ClientStep
      <3> QED BY <1>1, <3>2 DEF ClientStep, SendPoll, SendCancel
    <2> QED BY <1>1, <2>1 DEF ClientStep, SendPoll, SendCancel
  <1>2. ASSUME NEW g \in Goals, UserStep(g) PROVE Routed'
    <2>1. CASE RecvNextGoal(g) \/ Reject(g) \/ DropContext(g) \/ DropAccept(g)
      <3>1. /\ UNCHANGED <<slot, registry, waiters, resultLoop, target>>
            /\ stage[g] # "failed"
            /\ \E to : stage' = [stage EXCEPT ![g] = to]
        BY <2>1 DEF RecvNextGoal, Reject, DropContext, DropAccept
      <3> HIDE DEF TypeInv
      <3> QED BY <1>t, <3>1
    <2>2. CASE AcceptRegister(g)
      BY <2>2 DEF AcceptRegister
    <2>3. ASSUME NEW o \in {"Completed", "Cancelled"}, Deliver(g, o)
          PROVE  Routed'
      BY <2>3 DEF Deliver
    <2>4. CASE DropDelivery(g)
      BY <2>4 DEF DropDelivery
    <2> QED BY <1>2, <2>1, <2>2, <2>3, <2>4 DEF UserStep
  <1>3. ASSUME NEW g \in Goals, GoalStep(g) PROVE Routed'
    <2>1. CASE AcceptAdopt(g) \/ AcceptReply(g) \/ AcceptReplyFails(g)
      BY <2>1 DEF AcceptAdopt, AcceptReply, AcceptReplyFails
    <2>2. CASE AcceptExtend(g)
      <3>1. g \in registry
        <4>1. stage[g] = "adopting"
          BY <2>2 DEF AcceptExtend
        <4>2. slot[g] # None /\ slot[g] # "terminal"
          BY <4>1 DEF Lifecycle, Unaccepted
        <4> QED BY <4>1, <4>2
      <3> QED BY <2>2, <3>1 DEF AcceptExtend
    <2>3. CASE AcceptUnregister(g)
      <3>1. /\ stage' = [stage EXCEPT ![g] = "failed"]
            /\ registry' = registry \ {g} /\ UNCHANGED <<slot, resultLoop, target>>
        BY <2>3 DEF AcceptUnregister
      <3> USE <1>t
      <3>2. \/ Busy(g) /\ UNCHANGED waiters
            \/ waiters' = [waiters EXCEPT ![g] = {}]
        BY <2>3 DEF AcceptUnregister, FreeSlot
      <3> HIDE DEF TypeInv
      <3>3. ASSUME NEW h \in Goals
            PROVE  /\ slot'[h] = "pending" => h \in registry' \/ stage'[h] = "failed"
                   /\ h \notin registry' /\ waiters'[h] # {} => Busy(h)'
        <4>1. CASE h = g
          BY <3>1, <3>2, <4>1
        <4>2. CASE h # g
          BY <3>1, <3>2, <4>2
        <4> QED BY <4>1, <4>2
      <3> QED BY <3>3
    <2>4. CASE Abandon(g) \/ PublishEnd(g) \/ \E p \in Polls : WakeWaiter(g, p)
      BY <2>4 DEF Abandon, PublishEnd, WakeWaiter
    <2>5. CASE ReplaceState(g)
      BY <2>5 DEF ReplaceState, TakeWaiters
    <2> QED BY <1>3, <2>1, <2>2, <2>3, <2>4, <2>5 DEF GoalStep
  <1>4. ASSUME ResultStep PROVE Routed'
    <2>1. CASE \/ ResultLookup \/ ResultRecheck \/ ResultPark \/ ResultReply
               \/ \E p \in Polls : ResultRecv(p)
      <3>1. resultLoop.pc # "act" /\ UNCHANGED <<slot, registry, stage, waiters>>
        BY <2>1 DEF ResultLookup, ResultRecheck, ResultPark, ResultReply,
                    ResultRecv, ResultAt
      <3> QED BY <3>1 DEF Busy
    <2>2. CASE ActOnSlot
      <3> DEFINE r == resultLoop.poll
                 g == target[r]
      <3>1. /\ g \in Goals /\ UNCHANGED <<slot, registry, stage>>
            /\ \A h \in Goals : Busy(h) => h = g
        BY <2>2 DEF ActOnSlot, ResultHolds
      <3>2. \/ slot[g] = "terminal" /\ UNCHANGED waiters
            \/ stage[g] = "failed" /\ waiters' = [waiters EXCEPT ![g] = {}]
            \/ /\ slot[g] = "pending" /\ stage[g] # "failed"
               /\ waiters' = [waiters EXCEPT ![g] = @ \cup {r}]
        BY <2>2 DEF ActOnSlot, Parks, FreeSlot
      <3>3. slot[g] = "terminal" => waiters[g] = {}
        BY <3>1 DEF Closing
      <3> HIDE DEF r, g, TypeInv
      <3>4. ASSUME NEW h \in Goals, h \notin registry PROVE waiters'[h] = {}
        <4>1. CASE h = g
          BY <1>t, <3>1, <3>2, <3>3, <3>4, <4>1
        <4>2. CASE h # g
          BY <1>t, <3>1, <3>2, <3>4, <4>2
        <4> QED BY <4>1, <4>2
      <3> QED BY <3>1, <3>4
    <2>3. CASE ResultStop
      <3>1. /\ UNCHANGED <<slot, registry, stage>>
            /\ waiters' = [h \in Goals |-> IF Busy(h) /\ stage[h] = "failed" THEN {}
                                                                          ELSE waiters[h]]
        BY <2>3 DEF ResultStop
      <3>2. ASSUME NEW h \in Goals, h \notin registry PROVE waiters'[h] = {}
        <4>1. CASE slot[h] = "pending"
          BY <3>1, <3>2, <4>1
        <4>2. CASE slot[h] = "terminal"
          BY <3>1, <3>2, <4>2 DEF Closing
        <4>3. CASE slot[h] = None
          <5>1. ~Busy(h)
            BY <1>0, <4>3
          <5> QED BY <3>1, <3>2, <5>1
        <4> QED BY <4>1, <4>2, <4>3
      <3> QED BY <3>1, <3>2
    <2> QED BY <1>4, <2>1, <2>2, <2>3 DEF ResultStep
  <1>5. ASSUME CancelStep PROVE Routed'
    BY <1>5 DEF CancelStep, CancelRecv, CancelLookup, CancelSignal,
                CancelTombstones, CancelReply, CancelStop
  <1>6. ASSUME SweepStep PROVE Routed'
    <2>1. CASE SweepRegistry
      BY <2>1 DEF SweepRegistry, Evictable, Closing
    <2>2. CASE SweepEarly \/ SweepStop \/ \E g \in Goals : SweepEntomb(g)
      BY <2>2 DEF SweepEarly, SweepStop, SweepEntomb
    <2> QED BY <1>6, <2>1, <2>2 DEF SweepStep
  <1>7. ASSUME TimeStep \/ DropEngine \/ UNCHANGED vars PROVE Routed'
    BY <1>7 DEF TimeStep, CloseWindow, PassDeadline, DropEngine
  <1> QED BY <1>1, <1>2, <1>3, <1>4, <1>5, <1>6, <1>7 DEF Next

(***************************************************************************)
(* Whatever a failed accept or an eviction leaves behind, no poll stays    *)
(* open in a slot nobody can reach: accept closes the polls it adopted, or *)
(* the result loop does when it lets go of the clone it took before.       *)
(***************************************************************************)
THEOREM WithdrawalCorrect == Spec => []UnroutedSlotIsEmpty
  <1>1. Init => Routed
    BY DEF Init, Routed, None
  <1>2. TypeInv /\ Closing /\ Routed /\ [Next]_vars => Routed'
    BY RoutedStep
  <1>3. Routed => UnroutedSlotIsEmpty
    BY DEF Routed, UnroutedSlotIsEmpty
  <1> QED BY TypeInvHolds, ClosingHolds, <1>1, <1>2, <1>3, PTL DEF Spec

(***************************************************************************)
(* The last look of the result loop holds pending_waiters: until it parks, *)
(* accept may register the goal but not run its adoption pass.             *)
(***************************************************************************)
NotPassedOver(p) == target[p] \in registry => stage[target[p]] = "registered"

Adoptable ==
  /\ \A p \in early : NotPassedOver(p) /\ target[p] \in Goals
  /\ resultLoop.pc = "park" => NotPassedOver(resultLoop.poll)

LEMMA AdoptableStep ==
  ASSUME TypeInv, Adoptable, [Next]_vars PROVE Adoptable'
  <1> USE EngineAssumption
      DEF Adoptable, NotPassedOver, TypeInv, TypeOK, StoreTypes, RequestTypes,
          Requests, None, vars, sharedVars, slotVars, workVars, clientVars,
          loopVars, At
  <1>1. ASSUME ClientStep PROVE Adoptable'
    <2>1. ASSUME NEW p \in Polls, SendPoll(p) PROVE Adoptable'
      <3>1. p \notin early /\ (resultLoop.pc = "park" => p # resultLoop.poll)
        BY <2>1 DEF SendPoll, Asked, ResultHolds
      <3> QED BY <2>1, <3>1 DEF SendPoll, ResultHolds
    <2>2. ASSUME NEW c \in Cancels, SendCancel(c) PROVE Adoptable'
      BY <2>2 DEF SendCancel, ResultHolds
    <2> QED BY <1>1, <2>1, <2>2 DEF ClientStep
  <1>2. ASSUME NEW g \in Goals, UserStep(g) PROVE Adoptable'
    <2>1. CASE RecvNextGoal(g) \/ Reject(g) \/ DropContext(g) \/ DropAccept(g)
      BY <2>1 DEF RecvNextGoal, Reject, DropContext, DropAccept
    <2>2. CASE AcceptRegister(g)
      BY <2>2 DEF AcceptRegister
    <2>3. CASE DropDelivery(g) \/ \E o \in {"Completed", "Cancelled"} : Deliver(g, o)
      BY <2>3 DEF Deliver, DropDelivery
    <2> QED BY <1>2, <2>1, <2>2, <2>3 DEF UserStep
  <1>3. ASSUME NEW g \in Goals, GoalStep(g) PROVE Adoptable'
    <2>1. CASE AcceptAdopt(g)
      BY <2>1 DEF AcceptAdopt, EarlyLocked, LeaveEarly
    <2>2. CASE \/ AcceptExtend(g) \/ AcceptReply(g) \/ AcceptReplyFails(g)
               \/ AcceptUnregister(g)
      BY <2>2 DEF AcceptExtend, AcceptReply, AcceptReplyFails, AcceptUnregister
    <2>3. CASE Abandon(g) \/ ReplaceState(g)
      BY <2>3 DEF Abandon, ReplaceState
    <2>4. CASE PublishEnd(g) \/ \E p \in Polls : WakeWaiter(g, p)
      BY <2>4 DEF WakeWaiter, PublishEnd
    <2> QED BY <1>3, <2>1, <2>2, <2>3, <2>4 DEF GoalStep
  <1>4. ASSUME ResultStep PROVE Adoptable'
    <2> USE DEF LoopTypes, ResultHolds
    <2>1. CASE (\E p \in Polls : ResultRecv(p)) \/ ResultLookup
      BY <2>1 DEF ResultRecv, ResultLookup, ResultAt
    <2>2. CASE ResultRecheck
      BY <2>2 DEF ResultRecheck, ResultAt, RegisteredSince
    <2>3. CASE ResultPark
      <3> DEFINE p == resultLoop.poll
      <3>1. \/ resultLoop' = [pc |-> "reply", poll |-> p, reply |-> "Expired"]
            \/ resultLoop' = [pc |-> "recv", poll |-> None, reply |-> None]
        BY <2>3 DEF ResultPark, ResultIdle
      <3>2. early' \subseteq early \cup {resultLoop.poll}
        BY <2>3 DEF ResultPark
      <3>3. UNCHANGED <<registry, stage, target>> /\ resultLoop.pc = "park"
        BY <2>3 DEF ResultPark
      <3> QED BY <3>1, <3>2, <3>3
    <2>4. CASE ActOnSlot
      <3> DEFINE p == resultLoop.poll
      <3>1. \/ resultLoop' = [pc |-> "reply", poll |-> p,
                              reply |-> RetainedReply(target[p])]
            \/ resultLoop' = [pc |-> "recv", poll |-> None, reply |-> None]
        BY <2>4 DEF ActOnSlot, RetainedReply, ResultIdle
      <3>2. UNCHANGED <<early, registry, stage, target>>
        BY <2>4 DEF ActOnSlot
      <3> QED BY <3>1, <3>2
    <2>5. CASE ResultReply \/ ResultStop
      BY <2>5 DEF ResultReply, ResultStop, ResultIdle
    <2> QED BY <1>4, <2>1, <2>2, <2>3, <2>4, <2>5 DEF ResultStep
  <1>5. ASSUME CancelStep PROVE Adoptable'
    BY <1>5 DEF CancelStep, CancelRecv, CancelLookup, CancelSignal,
                CancelTombstones, CancelReply, CancelStop
  <1>6. ASSUME SweepStep PROVE Adoptable'
    <2>1. CASE SweepRegistry
      BY <2>1 DEF SweepRegistry
    <2>2. CASE SweepEarly
      BY <2>2 DEF SweepEarly, LeaveEarly
    <2>3. CASE SweepStop \/ \E g \in Goals : SweepEntomb(g)
      BY <2>3 DEF SweepStop, SweepEntomb
    <2> QED BY <1>6, <2>1, <2>2, <2>3 DEF SweepStep
  <1>7. ASSUME TimeStep \/ DropEngine \/ UNCHANGED vars PROVE Adoptable'
    BY <1>7 DEF TimeStep, CloseWindow, PassDeadline, DropEngine
  <1> QED BY <1>1, <1>2, <1>3, <1>4, <1>5, <1>6, <1>7 DEF Next

(***************************************************************************)
(* No early poll is orphaned by accept, however the result loop's two      *)
(* looks at the registry interleave with accept's registration and its     *)
(* adoption pass: taking pending_waiters for the second look is enough.    *)
(***************************************************************************)
THEOREM AdoptionCorrect == Spec => []EarlyPollAdopted
  <1>1. Init => Adoptable
    BY DEF Init, Adoptable, ResultIdle
  <1>2. TypeInv /\ Adoptable /\ [Next]_vars => Adoptable'
    BY AdoptableStep
  <1>3. Adoptable => EarlyPollAdopted
    BY DEF Adoptable, NotPassedOver, EarlyPollAdopted
  <1> QED BY TypeInvHolds, <1>1, <1>2, <1>3, PTL DEF Spec

(***************************************************************************)
(* What a poll may rely on once it is asked: its goal id, the terminal     *)
(* state of a slot with its outcome, and the end of a retention window     *)
(* never change.                                                           *)
(***************************************************************************)
Settled ==
  /\ \A g \in Goals :
       /\ slot[g] = "terminal" => slot'[g] = "terminal" /\ outcome'[g] = outcome[g]
       /\ window[g] = "closed" => window'[g] = "closed"
  /\ \A p \in Polls : poll[p] # "idle" => target'[p] = target[p]

LEMMA SettledStep ==
  ASSUME TypeInv, [Next]_vars PROVE Settled
  <1> USE EngineAssumption
      DEF Settled, TypeInv, TypeOK, SlotTypes, RequestTypes, Requests, None,
          vars, sharedVars, slotVars, workVars, clientVars, loopVars, At
  <1>1. ASSUME ClientStep PROVE Settled
    BY <1>1 DEF ClientStep, SendPoll, SendCancel
  <1>2. ASSUME NEW g \in Goals, UserStep(g) PROVE Settled
    <2>1. CASE RecvNextGoal(g) \/ Reject(g) \/ DropContext(g) \/ DropAccept(g)
      BY <2>1 DEF RecvNextGoal, Reject, DropContext, DropAccept
    <2>2. CASE AcceptRegister(g)
      BY <2>2 DEF AcceptRegister, Lifecycle, Unaccepted
    <2>3. ASSUME NEW o \in {"Completed", "Cancelled"}, Deliver(g, o)
          PROVE  Settled
      BY <2>3 DEF Deliver, SwapTerminal, Lifecycle
    <2>4. CASE DropDelivery(g)
      BY <2>4 DEF DropDelivery
    <2> QED BY <1>2, <2>1, <2>2, <2>3, <2>4 DEF UserStep
  <1>3. ASSUME NEW g \in Goals, GoalStep(g) PROVE Settled
    <2>1. CASE \/ AcceptAdopt(g) \/ AcceptExtend(g) \/ AcceptReply(g)
               \/ AcceptReplyFails(g) \/ AcceptUnregister(g)
      BY <2>1 DEF AcceptAdopt, AcceptExtend, AcceptReply, AcceptReplyFails,
                  AcceptUnregister
    <2>2. CASE Abandon(g)
      BY <2>2 DEF Abandon, SwapTerminal, Lifecycle
    <2>3. CASE ReplaceState(g)
      BY <2>3 DEF ReplaceState, Lifecycle
    <2>4. CASE PublishEnd(g) \/ \E p \in Polls : WakeWaiter(g, p)
      BY <2>4 DEF WakeWaiter, PublishEnd
    <2> QED BY <1>3, <2>1, <2>2, <2>3, <2>4 DEF GoalStep
  <1>4. ASSUME ResultStep PROVE Settled
    BY <1>4 DEF ResultStep, ResultRecv, ResultLookup, ResultRecheck,
                ResultPark, ActOnSlot, ResultReply, ResultStop
  <1>5. ASSUME CancelStep PROVE Settled
    BY <1>5 DEF CancelStep, CancelRecv, CancelLookup, CancelSignal,
                CancelTombstones, CancelReply, CancelStop
  <1>6. ASSUME SweepStep PROVE Settled
    BY <1>6 DEF SweepStep, SweepRegistry, SweepEntomb, SweepEarly, SweepStop
  <1>7. ASSUME TimeStep \/ DropEngine \/ UNCHANGED vars PROVE Settled
    BY <1>7 DEF TimeStep, CloseWindow, PassDeadline, DropEngine
  <1> QED BY <1>1, <1>2, <1>3, <1>4, <1>5, <1>6, <1>7 DEF Next

(***************************************************************************)
(* The polls a goal has in its keeping are its own, only goals whose       *)
(* window is closed are buried, and the result loop's reply is the one its *)
(* poll is owed.                                                           *)
(***************************************************************************)
OwnPolls ==
  /\ \A p \in early : target[p] \in Goals
  /\ \A g \in Goals :
       \A p \in adopting[g] \cup waiters[g] \cup drain[g] : target[p] = g

Buried ==
  /\ \A i \in DOMAIN tombstones : window[tombstones[i]] = "closed"
  /\ \A g \in sweeper.expired : window[g] = "closed"

Owed(p, a) ==
  /\ a \in Outcomes => /\ target[p] \in Goals
                       /\ slot[target[p]] = "terminal"
                       /\ a = outcome[target[p]]
  /\ a = "Expired" => target[p] \in Goals /\ window[target[p]] = "closed"

Answered ==
  /\ resultLoop.pc = "reply" => Owed(resultLoop.poll, resultLoop.reply)
  /\ \A p \in Polls : Owed(p, poll[p])

LEMMA OwnPollsStep ==
  ASSUME TypeInv, OwnPolls, [Next]_vars PROVE OwnPolls'
  <1> USE EngineAssumption
      DEF OwnPolls, TypeInv, TypeOK, StoreTypes, SlotTypes, RequestTypes,
          Requests, None, vars, sharedVars, slotVars, workVars, clientVars,
          loopVars, At
  <1>1. ASSUME ClientStep PROVE OwnPolls'
    <2>1. ASSUME NEW p \in Polls, SendPoll(p) PROVE OwnPolls'
      <3>1. p \notin early /\ \A g \in Goals :
              p \notin adopting[g] \cup waiters[g] \cup drain[g]
        BY <2>1 DEF SendPoll, Asked
      <3> QED BY <2>1, <3>1 DEF SendPoll
    <2>2. ASSUME NEW c \in Cancels, SendCancel(c) PROVE OwnPolls'
      <3>1. \A p \in Polls : target'[p] = target[p]
        BY <2>2 DEF SendCancel
      <3> QED BY <2>2, <3>1 DEF SendCancel
    <2> QED BY <1>1, <2>1, <2>2 DEF ClientStep
  <1>2. ASSUME NEW g \in Goals, UserStep(g) PROVE OwnPolls'
    <2>1. CASE RecvNextGoal(g) \/ Reject(g) \/ DropContext(g) \/ AcceptRegister(g)
      BY <2>1 DEF RecvNextGoal, Reject, DropContext, AcceptRegister
    <2>2. CASE DropAccept(g)
      BY <2>2 DEF DropAccept
    <2>3. CASE DropDelivery(g) \/ \E o \in {"Completed", "Cancelled"} : Deliver(g, o)
      BY <2>3 DEF Deliver, DropDelivery
    <2> QED BY <1>2, <2>1, <2>2, <2>3 DEF UserStep
  <1>3. ASSUME NEW g \in Goals, GoalStep(g) PROVE OwnPolls'
    <2>1. CASE AcceptAdopt(g)
      BY <2>1 DEF AcceptAdopt, LeaveEarly
    <2>2. CASE AcceptExtend(g)
      BY <2>2 DEF AcceptExtend
    <2>3. CASE \/ AcceptReply(g) \/ AcceptReplyFails(g) \/ Abandon(g)
               \/ PublishEnd(g)
      BY <2>3 DEF AcceptReply, AcceptReplyFails, Abandon, PublishEnd
    <2>4. CASE ReplaceState(g)
      BY <2>4 DEF ReplaceState, TakeWaiters
    <2>5. ASSUME NEW p \in Polls, WakeWaiter(g, p) PROVE OwnPolls'
      BY <2>5 DEF WakeWaiter
    <2>6. CASE AcceptUnregister(g)
      <3>1. PICK G \in SUBSET {g} : Frees(G, Parked(G))
        BY <2>6, UnregisterFrees
      <3>2. \A h \in Goals : waiters'[h] = IF h \in G THEN {} ELSE waiters[h]
        BY <3>1, FreesEffect
      <3> QED BY <2>6, <3>2 DEF AcceptUnregister
    <2> QED BY <1>3, <2>1, <2>2, <2>3, <2>4, <2>5, <2>6 DEF GoalStep
  <1>4. ASSUME ResultStep PROVE OwnPolls'
    <2>1. CASE \/ ResultLookup \/ ResultRecheck \/ ResultReply
               \/ \E p \in Polls : ResultRecv(p)
      BY <2>1 DEF ResultLookup, ResultRecheck, ResultReply, ResultRecv
    <2>4. CASE ResultStop
      BY <2>4, StopFrees, FreesEffect DEF ResultStop
    <2>2. CASE ResultPark
      BY <2>2 DEF ResultPark, ResultHolds
    <2>3. CASE ActOnSlot
      <3> DEFINE p == resultLoop.poll
                 g == target[p]
      <3>1. p \in Polls /\ g \in Goals
        BY <2>3 DEF ActOnSlot, ResultHolds
      <3>2. \/ waiters' = waiters
            \/ Frees({g}, {p} \cup Parked({g}))
            \/ waiters' = [waiters EXCEPT ![g] = @ \cup {p}]
        BY <2>3, ActFrees
      <3>3. UNCHANGED <<early, adopting, drain, target>>
        BY <2>3 DEF ActOnSlot
      <3>4. \A h \in Goals : \A q \in waiters'[h] :
              q \in waiters[h] \/ (h = g /\ q = p)
        BY <3>1, <3>2, FreesEffect
      <3>5. ASSUME NEW h \in Goals,
                   NEW q \in adopting'[h] \cup waiters'[h] \cup drain'[h]
            PROVE  target'[q] = h
        <4>1. \A k \in Goals : \A x :
                x \in adopting[k] \/ x \in waiters[k] \/ x \in drain[k]
                  => target[x] = k
          OBVIOUS
        <4>2. target'[q] = target[q]
          BY <3>3
        <4>3. CASE q \in waiters'[h]
          <5>1. q \in waiters[h] \/ (h = target[p] /\ q = p)
            BY <3>4, <4>3
          <5>2. target[q] = h
            BY <4>1, <5>1
          <5> QED BY <4>2, <5>2
        <4>4. CASE q \in adopting'[h] \cup drain'[h]
          BY <3>3, <4>1, <4>2, <4>4
        <4> QED BY <3>5, <4>3, <4>4
      <3> QED BY <3>3, <3>5
    <2> QED BY <1>4, <2>1, <2>2, <2>3, <2>4 DEF ResultStep
  <1>5. ASSUME CancelStep PROVE OwnPolls'
    BY <1>5 DEF CancelStep, CancelRecv, CancelLookup, CancelSignal,
                CancelTombstones, CancelReply, CancelStop
  <1>6. ASSUME SweepStep PROVE OwnPolls'
    BY <1>6 DEF SweepStep, SweepRegistry, SweepEntomb, SweepEarly, SweepStop,
                LeaveEarly
  <1>7. ASSUME TimeStep \/ DropEngine \/ UNCHANGED vars PROVE OwnPolls'
    BY <1>7 DEF TimeStep, CloseWindow, PassDeadline, DropEngine
  <1> QED BY <1>1, <1>2, <1>3, <1>4, <1>5, <1>6, <1>7 DEF Next

LEMMA BuriedStep ==
  ASSUME TypeInv, Buried, [Next]_vars PROVE Buried'
  <1> USE EngineAssumption
      DEF Buried, TypeInv, TypeOK, StoreTypes, LoopTypes, None, vars,
          sharedVars, slotVars, workVars, clientVars, loopVars
  <1>1. \A g \in Goals : window[g] = "closed" => window'[g] = "closed"
    BY SettledStep DEF Settled
  <1>2. ASSUME UNCHANGED <<tombstones, sweeper>> PROVE Buried'
    BY <1>1, <1>2
  <1>3. ASSUME SweepStep PROVE Buried'
    <2>1. CASE SweepRegistry
      BY <1>1, <2>1 DEF SweepRegistry, Evictable
    <2>2. ASSUME NEW g \in Goals, SweepEntomb(g) PROVE Buried'
      <3>1. window[g] = "closed" /\ UNCHANGED window
        BY <2>2 DEF SweepEntomb
      <3>2. \A i \in DOMAIN tombstones' : window[tombstones'[i]] = "closed"
        BY <2>2, <3>1 DEF SweepEntomb, Entomb
      <3>3. \A h \in sweeper'.expired : window[h] = "closed"
        BY <2>2 DEF SweepEntomb
      <3> QED BY <3>1, <3>2, <3>3
    <2>3. CASE SweepEarly \/ SweepStop
      BY <1>1, <2>3 DEF SweepEarly, SweepStop
    <2> QED BY <1>3, <2>1, <2>2, <2>3 DEF SweepStep
  <1>4. ASSUME ClientStep \/ TimeStep \/ DropEngine \/ UNCHANGED vars
        PROVE  UNCHANGED <<tombstones, sweeper>>
    BY <1>4 DEF ClientStep, SendPoll, SendCancel, TimeStep, CloseWindow,
                PassDeadline, DropEngine
  <1>5. ASSUME NEW g \in Goals, UserStep(g)
        PROVE  UNCHANGED <<tombstones, sweeper>>
    BY <1>5 DEF UserStep, RecvNextGoal, Reject, AcceptRegister, Deliver,
                DropContext, DropAccept, DropDelivery
  <1>6. ASSUME NEW g \in Goals, GoalStep(g)
        PROVE  UNCHANGED <<tombstones, sweeper>>
    BY <1>6 DEF GoalStep, AcceptAdopt, AcceptExtend, AcceptReply,
                AcceptReplyFails, AcceptUnregister, Abandon, ReplaceState,
                WakeWaiter, PublishEnd
  <1>7. ASSUME ResultStep \/ CancelStep
        PROVE  UNCHANGED <<tombstones, sweeper>>
    BY <1>7 DEF ResultStep, ResultRecv, ResultLookup, ResultRecheck,
                ResultPark, ActOnSlot, ResultReply, ResultStop, CancelStep,
                CancelRecv, CancelLookup, CancelSignal, CancelTombstones,
                CancelReply, CancelStop
  <1> QED BY <1>2, <1>3, <1>4, <1>5, <1>6, <1>7 DEF Next

LEMMA AnsweredStep ==
  ASSUME TypeInv, OwnPolls, Buried, Answered, [Next]_vars PROVE Answered'
  <1> USE EngineAssumption
      DEF TypeInv, TypeOK, SlotTypes, RequestTypes, Requests, None, vars,
          sharedVars, slotVars, workVars, clientVars, loopVars
  <1>1. ASSUME NEW p \in Polls, NEW a, poll[p] # "idle", Owed(p, a)
        PROVE  Owed(p, a)'
    BY <1>1, SettledStep DEF Settled, Owed
  <1>2. ASSUME NEW p \in Polls,
               poll'[p] = poll[p] \/ poll'[p] \notin Outcomes \cup {"Expired"}
        PROVE  Owed(p, poll[p])'
    <2>1. CASE poll'[p] \notin Outcomes \cup {"Expired"}
      BY <2>1 DEF Owed, Outcomes
    <2>2. CASE poll'[p] \in Outcomes \cup {"Expired"}
      BY <1>1, <1>2, <2>2 DEF Answered, Outcomes
    <2> QED BY <2>1, <2>2
  <1>3. ASSUME UNCHANGED resultLoop
        PROVE  resultLoop'.pc = "reply"
                 => Owed(resultLoop.poll, resultLoop.reply)'
    <2>1. ASSUME resultLoop.pc = "reply"
          PROVE  resultLoop.poll \in Polls /\ poll[resultLoop.poll] # "idle"
      BY <2>1 DEF ResultHolds, Asked
    <2> QED BY <1>1, <1>3, <2>1 DEF Answered
  <1>4. ASSUME UNCHANGED <<resultLoop, poll>> PROVE Answered'
    BY <1>2, <1>3, <1>4 DEF Answered
  <1>5. ASSUME ClientStep PROVE Answered'
    <2>1. ASSUME NEW p \in Polls, SendPoll(p) PROVE Answered'
      BY <1>2, <1>3, <2>1 DEF SendPoll, Answered, Outcomes
    <2>2. ASSUME NEW c \in Cancels, SendCancel(c) PROVE Answered'
      BY <1>4, <2>2 DEF SendCancel
    <2> QED BY <1>5, <2>1, <2>2 DEF ClientStep
  <1>6. ASSUME NEW g \in Goals, UserStep(g) PROVE Answered'
    <2>1. CASE DropAccept(g) \/ DropDelivery(g)
      <3>1. UNCHANGED resultLoop
        BY <2>1 DEF DropAccept, DropDelivery
      <3>2. \A p \in Polls : poll'[p] = poll[p] \/ poll'[p] = "dropped"
        BY <2>1 DEF DropAccept, DropDelivery, Drop
      <3> QED BY <1>2, <1>3, <3>1, <3>2 DEF Answered, Outcomes
    <2>2. CASE \/ RecvNextGoal(g) \/ Reject(g) \/ AcceptRegister(g)
               \/ DropContext(g)
               \/ \E o \in {"Completed", "Cancelled"} : Deliver(g, o)
      BY <1>4, <2>2 DEF RecvNextGoal, Reject, AcceptRegister, DropContext,
                        Deliver
    <2> QED BY <1>6, <2>1, <2>2 DEF UserStep
  <1>7. ASSUME NEW g \in Goals, GoalStep(g) PROVE Answered'
    <2>1. CASE \/ AcceptAdopt(g) \/ AcceptExtend(g) \/ AcceptReply(g)
               \/ AcceptReplyFails(g) \/ Abandon(g) \/ ReplaceState(g)
               \/ PublishEnd(g)
      BY <1>4, <2>1 DEF AcceptAdopt, AcceptExtend, AcceptReply,
                        AcceptReplyFails, Abandon, ReplaceState, PublishEnd
    <2>3. CASE AcceptUnregister(g)
      <3>1. UNCHANGED resultLoop
        BY <2>3 DEF AcceptUnregister
      <3>2. \A p \in Polls : poll'[p] = poll[p] \/ poll'[p] = "dropped"
        BY <2>3, UnregisterFrees, FreesEffect
      <3> QED BY <1>2, <1>3, <3>1, <3>2 DEF Answered, Outcomes
    <2>2. ASSUME NEW q \in Polls, WakeWaiter(g, q) PROVE Answered'
      <3>1. slot[g] = "terminal" /\ target[q] = g /\ q \in drain[g]
        BY <2>2 DEF WakeWaiter, OwnPolls, Lifecycle
      <3>2. outcome[g] \in Outcomes
        BY <3>1 DEF Lifecycle
      <3>3. Owed(q, poll[q])'
        BY <2>2, <3>1, <3>2 DEF WakeWaiter, Owed, Outcomes
      <3>4. \A p \in Polls \ {q} : poll'[p] = poll[p]
        BY <2>2 DEF WakeWaiter
      <3>5. UNCHANGED resultLoop
        BY <2>2 DEF WakeWaiter
      <3> QED BY <1>2, <1>3, <3>3, <3>4, <3>5 DEF Answered
    <2> QED BY <1>7, <2>1, <2>2, <2>3 DEF GoalStep
  <1>8. ASSUME ResultStep PROVE Answered'
    <2> USE DEF LoopTypes
    <2>1. ASSUME NEW q \in Polls, ResultRecv(q) PROVE Answered'
      <3>1. resultLoop'.pc # "reply"
        BY <2>1 DEF ResultRecv
      <3>2. \A p \in Polls : \/ poll'[p] = poll[p]
                             \/ poll'[p] \in {"malformed", "taken"}
        BY <2>1 DEF ResultRecv
      <3> QED BY <1>2, <3>1, <3>2 DEF Answered, Outcomes
    <2>2. CASE ResultLookup \/ ResultRecheck
      <3>1. resultLoop'.pc # "reply"
        BY <2>2 DEF ResultLookup, ResultRecheck, ResultAt
      <3>2. UNCHANGED poll
        BY <2>2 DEF ResultLookup, ResultRecheck
      <3> QED BY <1>2, <3>1, <3>2 DEF Answered
    <2>3. CASE ResultPark
      <3> DEFINE r == resultLoop.poll
      <3>1. r \in Polls /\ target[r] \in Goals /\ UNCHANGED <<window, target>>
        BY <2>3 DEF ResultPark, ResultHolds
      <3>2. \/ /\ resultLoop' = [pc |-> "reply", poll |-> r, reply |-> "Expired"]
               /\ window[target[r]] = "closed"
            \/ resultLoop' = [pc |-> "recv", poll |-> None, reply |-> None]
        <4>1. CASE Tombstoned(target[r])
          <5>1. window[target[r]] = "closed"
            BY <4>1 DEF Tombstoned, Buried
          <5> QED BY <2>3, <4>1, <5>1 DEF ResultPark
        <4>2. CASE ~Tombstoned(target[r])
          BY <2>3, <4>2 DEF ResultPark, ResultIdle
        <4> QED BY <4>1, <4>2
      <3>3. resultLoop'.pc = "reply" => Owed(resultLoop.poll, resultLoop.reply)'
        BY <3>1, <3>2 DEF Owed, Outcomes
      <3>4. \A p \in Polls : poll'[p] = poll[p] \/ poll'[p] = "dropped"
        BY <2>3 DEF ResultPark
      <3> QED BY <1>2, <3>3, <3>4 DEF Answered, Outcomes
    <2>4. CASE ActOnSlot
      <3> DEFINE r == resultLoop.poll
                 g == target[r]
      <3>1. /\ r \in Polls /\ g \in Goals
            /\ UNCHANGED <<slot, window, outcome, target>>
        BY <2>4 DEF ActOnSlot, ResultHolds
      <3>2. \/ /\ slot[g] = "terminal"
               /\ resultLoop' = [pc |-> "reply", poll |-> r,
                                 reply |-> RetainedReply(g)]
            \/ resultLoop' = [pc |-> "recv", poll |-> None, reply |-> None]
        <4>1. CASE slot[g] = "terminal"
          BY <2>4, <4>1 DEF ActOnSlot, Parks
        <4>2. CASE slot[g] # "terminal"
          BY <2>4, <4>2 DEF ActOnSlot, ResultIdle
        <4> QED BY <4>1, <4>2
      <3>3. slot[g] = "terminal" => Owed(r, RetainedReply(g))
        BY <3>1 DEF Owed, Outcomes, RetainedReply, Lifecycle
      <3>4. resultLoop'.pc = "reply" => Owed(resultLoop.poll, resultLoop.reply)'
        BY <3>1, <3>2, <3>3 DEF Owed
      <3>5. UNCHANGED poll \/ Frees({g}, {r} \cup Parked({g}))
        BY <2>4, ActFrees
      <3>6. \A p \in Polls : poll'[p] = poll[p] \/ poll'[p] = "dropped"
        BY <3>5, FreesEffect
      <3> QED BY <1>2, <3>4, <3>6 DEF Answered, Outcomes
    <2>5. CASE ResultReply
      <3> PICK r \in Polls : r = resultLoop.poll
        BY <2>5 DEF ResultReply, ResultHolds
      <3>1. Owed(r, resultLoop.reply)
        BY <2>5 DEF ResultReply, Answered
      <3>2. UNCHANGED <<slot, window, outcome, target>>
        BY <2>5 DEF ResultReply
      <3>3. /\ poll'[r] = resultLoop.reply
            /\ \A p \in Polls \ {r} : poll'[p] = poll[p]
            /\ resultLoop' = [pc |-> "recv", poll |-> None, reply |-> None]
        BY <2>5, <3>1 DEF ResultReply, ResultIdle
      <3>4. Owed(r, poll[r])'
        BY <3>1, <3>2, <3>3 DEF Owed
      <3> QED BY <1>2, <3>3, <3>4 DEF Answered
    <2>6. CASE ResultStop
      <3>1. resultLoop'.pc # "reply"
        BY <2>6 DEF ResultStop, ResultIdle
      <3>2. \A p \in Polls : poll'[p] = poll[p] \/ poll'[p] = "dropped"
        BY <2>6 DEF ResultStop, Drop
      <3> QED BY <1>2, <3>1, <3>2 DEF Answered, Outcomes
    <2> QED BY <1>8, <2>1, <2>2, <2>3, <2>4, <2>5, <2>6 DEF ResultStep
  <1>9. ASSUME CancelStep \/ TimeStep \/ DropEngine \/ UNCHANGED vars
        PROVE  Answered'
    BY <1>4, <1>9 DEF CancelStep, CancelRecv, CancelLookup, CancelSignal,
       CancelTombstones, CancelReply, CancelStop, TimeStep, CloseWindow,
       PassDeadline, DropEngine
  <1>10. ASSUME SweepStep PROVE Answered'
    <2>1. UNCHANGED resultLoop
      BY <1>10 DEF SweepStep, SweepRegistry, SweepEntomb, SweepEarly, SweepStop
    <2>2. \A p \in Polls : poll'[p] = poll[p] \/ poll'[p] = "dropped"
      BY <1>10 DEF SweepStep, SweepRegistry, SweepEntomb, SweepEarly,
                   SweepStop, Drop
    <2> QED BY <1>2, <1>3, <2>1, <2>2 DEF Answered, Outcomes
  <1> QED BY <1>5, <1>6, <1>7, <1>8, <1>9, <1>10 DEF Next

(* The invariants the answers of the engine rest on.                         *)
LEMMA AnswersHold == Spec => [](OwnPolls /\ Buried /\ Answered)
  <1> DEFINE Inv == OwnPolls /\ Buried /\ Answered
  <1>1. Init => Inv
    BY DEF Init, OwnPolls, Buried, Answered, Owed, Outcomes, ResultIdle
  <1>2. TypeInv /\ Inv /\ [Next]_vars => Inv'
    BY OwnPollsStep, BuriedStep, AnsweredStep
  <1> HIDE DEF Inv
  <1>3. Spec => []Inv
    BY TypeInvHolds, <1>1, <1>2, PTL DEF Spec
  <1> QED BY <1>3 DEF Inv

(***************************************************************************)
(* A poll is answered with the one outcome of its own goal, from the slot  *)
(* or by the delivery that woke it, and Expired only once the goal's       *)
(* window is over, from the slot or from its tombstone.                    *)
(***************************************************************************)
THEOREM AnswerCorrect == Spec => []AnswerIsOutcome
  <1>1. Answered => AnswerIsOutcome
    BY DEF Answered, Owed, AnswerIsOutcome
  <1> QED BY AnswersHold, <1>1, PTL

-----------------------------------------------------------------------------
(* Refinement: ActionEngine implements ActionGoal.  And the properties that  *)
(* rest on the same invariants: a responder is in one place, a request sent  *)
(* after the goal's reply finds the goal, and a tombstone names a goal that  *)
(* is gone.                                                                  *)

(***************************************************************************)
(* The ids the sweeper has taken out of the registry and the tombstones it *)
(* has made of them: bounded, all different, and never routed again.       *)
(***************************************************************************)
Entombed ==
  /\ Len(tombstones) <= TombstoneCap
  /\ \A i, j \in DOMAIN tombstones : tombstones[i] = tombstones[j] => i = j
  /\ \A i \in DOMAIN tombstones : tombstones[i] \notin registry
  /\ \A g \in sweeper.expired : g \notin registry

(***************************************************************************)
(* ExpiredTombstones::insert keeps the list within its cap and its ids     *)
(* different, and adds no id but the one it is given.                      *)
(***************************************************************************)
LEMMA EntombKeeps ==
  ASSUME NEW order \in Seq(Goals), NEW g \in Goals,
         Len(order) <= TombstoneCap,
         \A i, j \in DOMAIN order : order[i] = order[j] => i = j
  PROVE  /\ Entomb(order, g) \in Seq(Goals)
         /\ Len(Entomb(order, g)) <= TombstoneCap
         /\ \A i, j \in DOMAIN Entomb(order, g) :
              Entomb(order, g)[i] = Entomb(order, g)[j] => i = j
         /\ \A i \in DOMAIN Entomb(order, g) :
              \/ Entomb(order, g)[i] = g
              \/ \E k \in DOMAIN order : Entomb(order, g)[i] = order[k]
  <1> USE EngineAssumption
  <1>1. CASE \E i \in DOMAIN order : order[i] = g
    BY <1>1 DEF Entomb
  <1>2. CASE ~\E i \in DOMAIN order : order[i] = g
    <2> DEFINE kept == IF Len(order) >= TombstoneCap THEN Tail(order) ELSE order
    <2>1. Entomb(order, g) = Append(kept, g)
      BY <1>2 DEF Entomb
    <2>2. /\ kept \in Seq(Goals) /\ Len(kept) < TombstoneCap
          /\ \A i \in 1..Len(kept) : \E k \in 1..Len(order) :
               kept[i] = order[k] /\ (k = i \/ k = i + 1)
          /\ \A i, j \in 1..Len(kept) : kept[i] = kept[j] => i = j
      <3>1. CASE Len(order) >= TombstoneCap
        <4>1. /\ kept = Tail(order) /\ Len(order) = TombstoneCap
              /\ order # << >>
          BY <3>1
        <4>2. /\ kept \in Seq(Goals) /\ Len(kept) = Len(order) - 1
              /\ \A i \in 1..Len(kept) : kept[i] = order[i + 1]
          BY <4>1
        <4> HIDE DEF kept
        <4> QED BY <4>1, <4>2
      <3>2. CASE ~(Len(order) >= TombstoneCap)
        BY <3>2
      <3> QED BY <3>1, <3>2
    <2>3. \A i \in 1..Len(kept) : kept[i] # g
      BY <1>2, <2>2
    <2> HIDE DEF kept
    <2> QED BY <2>1, <2>2, <2>3, SMTT(30)
  <1> QED BY <1>1, <1>2

LEMMA EntombedStep ==
  ASSUME TypeInv, Buried, Entombed, [Next]_vars PROVE Entombed'
  <1> USE EngineAssumption
      DEF Entombed, TypeInv, TypeOK, StoreTypes, SlotTypes, LoopTypes, None,
          vars, sharedVars, slotVars, workVars, clientVars, loopVars, At
  <1>1. ASSUME UNCHANGED <<tombstones, sweeper>>, registry' \subseteq registry
        PROVE  Entombed'
    BY <1>1
  <1>2. ASSUME NEW g \in Goals, UserStep(g) PROVE Entombed'
    <2>1. CASE AcceptRegister(g)
      <3>1. window[g] # "closed"
        BY <2>1 DEF AcceptRegister, Lifecycle, Unaccepted
      <3>2. \A i \in DOMAIN tombstones : tombstones[i] # g
        BY <3>1 DEF Buried
      <3>3. g \notin sweeper.expired
        BY <3>1 DEF Buried
      <3> QED BY <2>1, <3>2, <3>3 DEF AcceptRegister
    <2>2. CASE \/ RecvNextGoal(g) \/ Reject(g) \/ DropContext(g)
               \/ DropAccept(g) \/ DropDelivery(g)
               \/ \E o \in {"Completed", "Cancelled"} : Deliver(g, o)
      BY <1>1, <2>2 DEF RecvNextGoal, Reject, DropContext, DropAccept,
                        DropDelivery, Deliver
    <2> QED BY <1>2, <2>1, <2>2 DEF UserStep
  <1>3. ASSUME NEW g \in Goals, GoalStep(g) PROVE Entombed'
    BY <1>1, <1>3 DEF GoalStep, AcceptAdopt, AcceptExtend, AcceptReply,
                AcceptReplyFails, AcceptUnregister, Abandon, ReplaceState,
                WakeWaiter, PublishEnd
  <1>4. ASSUME SweepStep PROVE Entombed'
    <2>1. CASE SweepRegistry
      BY <2>1 DEF SweepRegistry, Evictable
    <2>2. ASSUME NEW g \in Goals, SweepEntomb(g) PROVE Entombed'
      <3>1. /\ tombstones' = Entomb(tombstones, g) /\ UNCHANGED registry
            /\ sweeper'.expired \subseteq sweeper.expired
        BY <2>2 DEF SweepEntomb
      <3>2. g \notin registry
        BY <2>2 DEF SweepEntomb
      <3>3. /\ tombstones' \in Seq(Goals)
            /\ Len(tombstones') <= TombstoneCap
            /\ \A i, j \in DOMAIN tombstones' :
                 tombstones'[i] = tombstones'[j] => i = j
            /\ \A i \in DOMAIN tombstones' :
                 \/ tombstones'[i] = g
                 \/ \E k \in DOMAIN tombstones : tombstones'[i] = tombstones[k]
        BY <3>1, EntombKeeps
      <3>4. \A i \in DOMAIN tombstones' : tombstones'[i] \notin registry
        <4> TAKE i \in DOMAIN tombstones'
        <4>1. CASE tombstones'[i] = g
          BY <3>2, <4>1
        <4>2. ASSUME NEW k \in DOMAIN tombstones, tombstones'[i] = tombstones[k]
              PROVE  tombstones'[i] \notin registry
          BY <4>2
        <4> QED BY <3>3, <4>1, <4>2
      <3>5. \A h \in sweeper'.expired : h \notin registry
        BY <3>1
      <3> QED BY <3>1, <3>3, <3>4, <3>5
    <2>3. CASE SweepEarly \/ SweepStop
      BY <2>3 DEF SweepEarly, SweepStop
    <2> QED BY <1>4, <2>1, <2>2, <2>3 DEF SweepStep
  <1>5. ASSUME \/ ClientStep \/ ResultStep \/ CancelStep \/ TimeStep
               \/ DropEngine \/ UNCHANGED vars
        PROVE  UNCHANGED <<tombstones, sweeper, registry>>
    BY <1>5 DEF ClientStep, SendPoll, SendCancel, TimeStep, CloseWindow,
       PassDeadline, DropEngine, ResultStep, ResultRecv, ResultLookup,
       ResultRecheck, ResultPark, ActOnSlot, ResultReply, ResultStop,
       CancelStep, CancelRecv, CancelLookup, CancelSignal, CancelTombstones,
       CancelReply, CancelStop
  <1> QED BY <1>1, <1>2, <1>3, <1>4, <1>5 DEF Next

LEMMA EntombedHolds == Spec => []Entombed
  <1>1. Init => Entombed
    BY EngineAssumption DEF Init, Entombed
  <1>2. TypeInv /\ Buried /\ Entombed /\ [Next]_vars => Entombed'
    BY EntombedStep
  <1> QED BY TypeInvHolds, AnswersHold, <1>1, <1>2, PTL DEF Spec

(***************************************************************************)
(* The tombstones stay within their cap and name each goal once, and only  *)
(* goals that are past their window and that the registry no longer        *)
(* routes: no id comes back once sweep_once has taken it out.              *)
(***************************************************************************)
THEOREM TombstonesCorrect == Spec => []TombstonedGone
  <1>1. Buried /\ Entombed => TombstonedGone
    BY DEF Buried, Entombed, TombstonedGone
  <1> QED BY AnswersHold, EntombedHolds, <1>1, PTL

(* A goal on its way through accept, or announced, is routable until its     *)
(* window has closed; what a request sent after the announcement met on its  *)
(* way says the same.                                                        *)
Gone(r) == r \in informed => window[target[r]] = "closed"

Findable ==
  /\ \A g \in Goals :
       stage[g] \in Accepting \cup {"running", "dropped"} =>
         g \in registry \/ window[g] = "closed"
  /\ \A r \in informed : target[r] \in Goals /\ Announced(target[r])
  /\ resultLoop.pc \in {"recheck", "park"} => Gone(resultLoop.poll)
  /\ \A p \in early : Gone(p)
  /\ cancelLoop.pc = "tombstones" => Gone(cancelLoop.cancel)
  /\ cancelLoop.pc = "ack" /\ cancelLoop.reply = "Unknown" => Gone(cancelLoop.cancel)
  /\ \A c \in Cancels : /\ ack[c] # None => target[c] # None
                        /\ ack[c] = "Unknown" => Gone(c)

(***************************************************************************)
(* A goal stays announced, and what is known of an informed request stays  *)
(* known: its goal id does not change, and a closed window stays closed.   *)
(***************************************************************************)
LEMMA InformedStep ==
  ASSUME TypeInv, Findable, [Next]_vars
  PROVE  /\ \A g \in Goals : Announced(g) => Announced(g)'
         /\ \A r \in informed : target'[r] = target[r]
         /\ \A r \in informed : Gone(r) => (window[target[r]] = "closed")'
  <1> USE EngineAssumption
      DEF TypeInv, TypeOK, StoreTypes, SlotTypes, RequestTypes, Requests,
          None, vars, sharedVars, slotVars, workVars, clientVars, loopVars
  <1>1. \A g \in Goals : Announced(g) => Announced(g)'
    <2> USE DEF Announced, At
    <2>1. ASSUME NEW g \in Goals, UserStep(g) PROVE <1>1!:
      BY <2>1 DEF UserStep, RecvNextGoal, Reject, AcceptRegister, Deliver,
                  DropContext, DropAccept, DropDelivery
    <2>2. ASSUME NEW g \in Goals, GoalStep(g) PROVE <1>1!:
      BY <2>2 DEF GoalStep, AcceptAdopt, AcceptExtend, AcceptReply,
                  AcceptReplyFails, AcceptUnregister, Abandon, ReplaceState,
                  WakeWaiter, PublishEnd
    <2>3. ASSUME \/ ClientStep \/ ResultStep \/ CancelStep \/ SweepStep
                 \/ TimeStep \/ DropEngine \/ UNCHANGED vars
          PROVE  UNCHANGED stage
      BY <2>3 DEF ClientStep, SendPoll, SendCancel, TimeStep, CloseWindow,
         PassDeadline, DropEngine, ResultStep, ResultRecv, ResultLookup,
         ResultRecheck, ResultPark, ActOnSlot, ResultReply, ResultStop,
         CancelStep, CancelRecv, CancelLookup, CancelSignal, CancelTombstones,
         CancelReply, CancelStop, SweepStep, SweepRegistry, SweepEntomb,
         SweepEarly, SweepStop
    <2> QED BY <2>1, <2>2, <2>3 DEF Next
  <1>2. \A r \in informed : target'[r] = target[r]
    <2>1. CASE ClientStep
      BY <2>1 DEF ClientStep, SendPoll, SendCancel, Findable, Asked
    <2>2. ASSUME NEW g \in Goals, UserStep(g) PROVE UNCHANGED target
      BY <2>2 DEF UserStep, RecvNextGoal, Reject, AcceptRegister, Deliver,
                  DropContext, DropAccept, DropDelivery
    <2>3. ASSUME NEW g \in Goals, GoalStep(g) PROVE UNCHANGED target
      BY <2>3 DEF GoalStep, AcceptAdopt, AcceptExtend, AcceptReply,
                  AcceptReplyFails, AcceptUnregister, Abandon, ReplaceState,
                  WakeWaiter, PublishEnd
    <2>4. ASSUME \/ ResultStep \/ CancelStep \/ SweepStep
                 \/ TimeStep \/ DropEngine \/ UNCHANGED vars
          PROVE  UNCHANGED target
      BY <2>4 DEF TimeStep, CloseWindow,
         PassDeadline, DropEngine, ResultStep, ResultRecv, ResultLookup,
         ResultRecheck, ResultPark, ActOnSlot, ResultReply, ResultStop,
         CancelStep, CancelRecv, CancelLookup, CancelSignal, CancelTombstones,
         CancelReply, CancelStop, SweepStep, SweepRegistry, SweepEntomb,
         SweepEarly, SweepStop
    <2> QED BY <2>1, <2>2, <2>3, <2>4 DEF Next
  <1> QED BY <1>1, <1>2, SettledStep DEF Settled, Gone, Findable

LEMMA FindableStep ==
  ASSUME TypeInv, OwnPolls, Findable, [Next]_vars PROVE Findable'
  <1> USE EngineAssumption
      DEF TypeInv, TypeOK, StoreTypes, SlotTypes, RequestTypes, LoopTypes,
          Requests, None, vars, sharedVars, slotVars, workVars, clientVars,
          loopVars
  <1> DEFINE Routable ==
               \A g \in Goals :
                 stage[g] \in Accepting \cup {"running", "dropped"} =>
                   g \in registry \/ window[g] = "closed"
  <1>1. Routable'
    <2> USE DEF Findable, Accepting, At
    <2>1. \A g \in Goals : window[g] = "closed" => window'[g] = "closed"
      BY SettledStep DEF Settled
    <2>2. ASSUME NEW g \in Goals, UserStep(g) PROVE Routable'
      BY <2>2 DEF UserStep, RecvNextGoal, Reject, AcceptRegister, Deliver,
                  DropContext, DropAccept, DropDelivery
    <2>3. ASSUME NEW g \in Goals, GoalStep(g) PROVE Routable'
      BY <2>1, <2>3 DEF GoalStep, AcceptAdopt, AcceptExtend, AcceptReply,
                  AcceptReplyFails, AcceptUnregister, Abandon, ReplaceState,
                  WakeWaiter, PublishEnd
    <2>4. ASSUME SweepStep PROVE Routable'
      BY <2>4 DEF SweepStep, SweepRegistry, SweepEntomb, SweepEarly,
                  SweepStop, Evictable
    <2>5. ASSUME \/ ClientStep \/ ResultStep \/ CancelStep
                 \/ TimeStep \/ DropEngine \/ UNCHANGED vars
          PROVE  UNCHANGED <<stage, registry>>
      BY <2>5 DEF ClientStep, SendPoll, SendCancel, TimeStep, CloseWindow,
         PassDeadline, DropEngine, ResultStep, ResultRecv, ResultLookup,
         ResultRecheck, ResultPark, ActOnSlot, ResultReply, ResultStop,
         CancelStep, CancelRecv, CancelLookup, CancelSignal, CancelTombstones,
         CancelReply, CancelStop
    <2> QED BY <2>1, <2>2, <2>3, <2>4, <2>5 DEF Next
  <1> HIDE DEF Routable
  <1>2. ASSUME UNCHANGED informed
        PROVE  /\ \A r \in informed' : target'[r] \in Goals /\ Announced(target[r])'
               /\ \A r : Gone(r) => Gone(r)'
    BY <1>2, InformedStep DEF Findable, Gone, Announced
  <1>3. ASSUME UNCHANGED <<informed, resultLoop, early, cancelLoop, ack>>,
               \A c \in Cancels : target'[c] = target[c]
        PROVE  Findable'
    BY <1>1, <1>2, <1>3 DEF Findable, Routable
  <1>4. ASSUME ClientStep PROVE Findable'
    <2>1. ASSUME NEW p \in Polls, SendPoll(p) PROVE Findable'
      <3>1. /\ target[p] = None /\ p \notin informed
            /\ p \notin early
            /\ resultLoop.pc \in {"recheck", "park"} => p # resultLoop.poll
        BY <2>1 DEF SendPoll, Asked, OwnPolls, Findable, ResultHolds
      <3>2. /\ informed' \subseteq informed \cup {p}
            /\ p \in informed' => target'[p] \in Goals /\ Announced(target[p])'
            /\ \A q \in Requests \ {p} : target'[q] = target[q]
            /\ UNCHANGED <<stage, window, resultLoop, early, cancelLoop, ack>>
        BY <2>1, <3>1 DEF SendPoll, Announced
      <3>3. \A r \in informed' : target'[r] \in Goals /\ Announced(target[r])'
        <4>1. ASSUME NEW r \in informed
              PROVE  target'[r] \in Goals /\ Announced(target[r])'
          <5>1. target[r] \in Goals /\ Announced(target[r])
            BY DEF Findable
          <5>2. target'[r] = target[r] /\ UNCHANGED stage
            BY <3>2, InformedStep
          <5> QED BY <5>1, <5>2 DEF Announced
        <4> QED BY <3>2, <4>1
      <3>4. \A r \in Requests \ {p} : Gone(r) => Gone(r)'
        BY <3>2, InformedStep DEF Gone
      <3> QED BY <1>1, <3>1, <3>2, <3>3, <3>4 DEF Findable, Routable,
                 ResultHolds, CancelHolds
    <2>2. ASSUME NEW c \in Cancels, SendCancel(c) PROVE Findable'
      <3>1. /\ target[c] = None /\ c \notin informed /\ ack[c] = None
            /\ cancelLoop.pc \in {"tombstones", "ack"} => c # cancelLoop.cancel
        BY <2>2 DEF SendCancel, Findable, CancelHolds
      <3>2. /\ informed' \subseteq informed \cup {c}
            /\ c \in informed' => target'[c] \in Goals /\ Announced(target[c])'
            /\ \A q \in Requests \ {c} : target'[q] = target[q]
            /\ UNCHANGED <<stage, window, resultLoop, early, cancelLoop, ack>>
        BY <2>2, <3>1 DEF SendCancel, Announced
      <3>3. \A r \in informed' : target'[r] \in Goals /\ Announced(target[r])'
        <4>1. ASSUME NEW r \in informed
              PROVE  target'[r] \in Goals /\ Announced(target[r])'
          <5>1. target[r] \in Goals /\ Announced(target[r])
            BY DEF Findable
          <5>2. target'[r] = target[r] /\ UNCHANGED stage
            BY <3>2, InformedStep
          <5> QED BY <5>1, <5>2 DEF Announced
        <4> QED BY <3>2, <4>1
      <3>4. \A r \in Requests \ {c} : Gone(r) => Gone(r)'
        BY <3>2, InformedStep DEF Gone
      <3> QED BY <1>1, <3>1, <3>2, <3>3, <3>4 DEF Findable, Routable,
                 ResultHolds, CancelHolds
    <2> QED BY <1>4, <2>1, <2>2 DEF ClientStep
  <1>5. ASSUME NEW g \in Goals, UserStep(g) PROVE Findable'
    BY <1>3, <1>5 DEF UserStep, RecvNextGoal, Reject, AcceptRegister, Deliver,
                      DropContext, DropAccept, DropDelivery
  <1>6. ASSUME NEW g \in Goals, GoalStep(g) PROVE Findable'
    <2>1. CASE AcceptAdopt(g)
      BY <1>1, <1>2, <2>1 DEF AcceptAdopt, LeaveEarly, Findable, Routable
    <2>2. CASE \/ AcceptExtend(g) \/ AcceptReply(g) \/ AcceptReplyFails(g)
               \/ AcceptUnregister(g) \/ Abandon(g) \/ ReplaceState(g)
               \/ PublishEnd(g) \/ \E p \in Polls : WakeWaiter(g, p)
      BY <1>3, <2>2 DEF AcceptExtend, AcceptReply, AcceptReplyFails,
                AcceptUnregister, Abandon, ReplaceState, WakeWaiter, PublishEnd
    <2> QED BY <1>6, <2>1, <2>2 DEF GoalStep
  <1>7. ASSUME ResultStep PROVE Findable'
    <2>1. UNCHANGED <<informed, cancelLoop, ack, target>>
      BY <1>7 DEF ResultStep, ResultRecv, ResultLookup, ResultRecheck,
                  ResultPark, ActOnSlot, ResultReply, ResultStop
    <2>2. resultLoop'.pc \in {"recheck", "park"} => Gone(resultLoop.poll)'
      <3>1. CASE ResultLookup
        BY <3>1 DEF ResultLookup, ResultAt, ResultHolds, Findable, Gone,
                    Announced
      <3>2. CASE ResultRecheck
        BY <3>2 DEF ResultRecheck, ResultAt, Findable, Gone
      <3>3. CASE \/ ResultPark \/ ActOnSlot \/ ResultReply \/ ResultStop
                 \/ \E p \in Polls : ResultRecv(p)
        BY <3>3 DEF ResultPark, ActOnSlot, ResultReply, ResultStop, ResultRecv,
                    ResultIdle, Findable, Gone
      <3> QED BY <1>7, <3>1, <3>2, <3>3 DEF ResultStep
    <2>3. \A p \in early' : Gone(p)'
      <3>1. CASE ResultPark
        BY <2>1, <3>1 DEF ResultPark, Findable, Gone
      <3>2. CASE UNCHANGED <<early, window>>
        BY <2>1, <3>2 DEF Findable, Gone
      <3> QED BY <1>7, <3>1, <3>2 DEF ResultStep, ResultRecv, ResultLookup,
                 ResultRecheck, ActOnSlot, ResultReply, ResultStop
    <2> QED BY <1>1, <1>2, <2>1, <2>2, <2>3 DEF Findable, Routable
  <1>8. ASSUME CancelStep PROVE Findable'
    <2>1. UNCHANGED <<informed, resultLoop, early, target, window>>
      BY <1>8 DEF CancelStep, CancelRecv, CancelLookup, CancelSignal,
                  CancelTombstones, CancelReply, CancelStop
    <2>2. /\ cancelLoop'.pc = "tombstones" => Gone(cancelLoop.cancel)'
          /\ cancelLoop'.pc = "ack" /\ cancelLoop'.reply = "Unknown"
               => Gone(cancelLoop.cancel)'
      <3>1. CASE CancelLookup
        BY <2>1, <3>1 DEF CancelLookup, CancelHolds, Findable, Gone, Announced
      <3>2. CASE CancelTombstones
        BY <2>1, <3>2 DEF CancelTombstones, Findable, Gone
      <3>3. CASE CancelSignal
        <4>1. cancelLoop'.pc = "ack" /\ cancelLoop'.reply = "Signalled"
          BY <3>3 DEF CancelSignal
        <4> QED BY <4>1
      <3>5. CASE CancelReply
        BY <3>5 DEF CancelReply, CancelIdle
      <3>6. CASE CancelStop
        BY <3>6 DEF CancelStop, CancelIdle
      <3>4. ASSUME NEW c \in Cancels, CancelRecv(c) PROVE <2>2
        BY <3>4 DEF CancelRecv
      <3> QED BY <1>8, <3>1, <3>2, <3>3, <3>4, <3>5, <3>6 DEF CancelStep
    <2>3. \A c \in Cancels : /\ ack'[c] # None => target'[c] # None
                             /\ ack'[c] = "Unknown" => Gone(c)'
      <3>1. ASSUME NEW c \in Cancels, CancelRecv(c) PROVE <2>3
        BY <2>1, <3>1 DEF CancelRecv, Findable, Gone
      <3>2. CASE CancelReply
        BY <2>1, <3>2 DEF CancelReply, CancelHolds, Findable, Gone
      <3>3. CASE UNCHANGED ack
        BY <2>1, <3>3 DEF Findable, Gone
      <3> QED BY <1>8, <3>1, <3>2, <3>3 DEF CancelStep, CancelLookup,
                 CancelSignal, CancelTombstones, CancelStop
    <2> QED BY <1>1, <1>2, <2>1, <2>2, <2>3 DEF Findable, Routable
  <1>9. ASSUME SweepStep PROVE Findable'
    <2>1. /\ UNCHANGED <<informed, resultLoop, cancelLoop, ack, target>>
          /\ early' \subseteq early
      BY <1>9 DEF SweepStep, SweepRegistry, SweepEntomb, SweepEarly, SweepStop,
                  LeaveEarly
    <2> QED BY <1>1, <1>2, <2>1 DEF Findable, Routable
  <1>10. ASSUME TimeStep \/ DropEngine \/ UNCHANGED vars PROVE Findable'
    BY <1>3, <1>10 DEF TimeStep, CloseWindow, PassDeadline, DropEngine
  <1> QED BY <1>4, <1>5, <1>6, <1>7, <1>8, <1>9, <1>10 DEF Next

LEMMA FindableHolds == Spec => []Findable
  <1>1. Init => Findable
    BY DEF Init, Findable, Accepting, ResultIdle, CancelIdle, None
  <1>2. TypeInv /\ OwnPolls /\ Findable /\ [Next]_vars => Findable'
    BY FindableStep
  <1> QED BY TypeInvHolds, AnswersHold, <1>1, <1>2, PTL DEF Spec

(***************************************************************************)
(* accept registers the slot before it replies, so whatever the loops, the *)
(* sweeper and accept's error path do, a request sent after the reply is   *)
(* not told that its goal is unknown, and not parked as early, until the   *)
(* goal's window has closed.                                               *)
(***************************************************************************)
THEOREM InformedCorrect == Spec => []InformedRequestFindsGoal
  <1>1. Findable => InformedRequestFindsGoal
    BY DEF Findable, Gone, InformedRequestFindsGoal
  <1> QED BY FindableHolds, <1>1, PTL

(* The responder of a poll is taken exactly as long as it is in the result   *)
(* loop's hand, among the early ones, or with its goal, and it is nowhere    *)
(* else then.                                                                *)
WithGoal(p) == \E g \in Goals : p \in adopting[g] \cup waiters[g] \cup drain[g]

Placed ==
  /\ \A p \in Polls :
       /\ poll[p] = "taken" <=> p = resultLoop.poll \/ p \in early \/ WithGoal(p)
       /\ p = resultLoop.poll => p \notin early /\ ~WithGoal(p)
       /\ p \in early => ~WithGoal(p)
  /\ \A g \in Goals :
       /\ adopting[g] # {} => stage[g] = "adopting"
       /\ adopting[g] \cap waiters[g] = {}
       /\ adopting[g] \cap drain[g] = {}
       /\ waiters[g] \cap drain[g] = {}

(* A freed slot gives up the responders it holds, and the loop its own.      *)
LEMMA FreesPlaced ==
  ASSUME TypeInv, OwnPolls, Placed, NEW G \in SUBSET Goals, NEW Q \in SUBSET Polls,
         Frees(G, Q \cup Parked(G)), UNCHANGED <<early, adopting, drain>>,
         \A p \in Q : poll[p] = "queued" \/ p = resultLoop.poll,
         \A h \in Goals : adopting[h] # {} => stage'[h] = "adopting",
         \/ Q = {} /\ resultLoop'.poll = resultLoop.poll
         \/ /\ resultLoop'.poll = None
            /\ \A p \in Polls : p = resultLoop.poll => p \in Q
  PROVE  Placed'
  <1> USE EngineAssumption DEF None
  <1>0. /\ waiters \in [Goals -> SUBSET Polls] /\ drain \in [Goals -> SUBSET Polls]
        /\ adopting \in [Goals -> SUBSET Polls]
    BY DEF TypeInv, TypeOK, StoreTypes, SlotTypes
  <1>1. /\ \A h \in Goals : waiters'[h] = IF h \in G THEN {} ELSE waiters[h]
        /\ \A p \in Polls : poll'[p] = IF p \in Q \cup Parked(G) THEN "dropped"
                                                                ELSE poll[p]
    BY FreesEffect
  <1>2. \A p \in Polls, h, k \in Goals :
          /\ p \in adopting[h] \cup waiters[h] \cup drain[h]
          /\ p \in adopting[k] \cup waiters[k] \cup drain[k]
          => h = k
    BY DEF OwnPolls
  <1>3. ASSUME NEW p \in Polls PROVE WithGoal(p)' <=> WithGoal(p) /\ p \notin Parked(G)
    <2>1. ASSUME p \in Parked(G) PROVE WithGoal(p) /\ ~WithGoal(p)'
      <3>1. PICK h \in G : p \in waiters[h]
        BY <2>1 DEF Parked
      <3>2. p \notin adopting[h] \cup drain[h]
        BY <3>1 DEF Placed
      <3>3. WithGoal(p)
        BY <3>1 DEF WithGoal
      <3>4. ASSUME NEW k \in Goals, p \in adopting[k] \cup waiters'[k] \cup drain[k]
            PROVE  FALSE
        <4>1. p \in adopting[k] \cup waiters[k] \cup drain[k]
          BY <1>1, <3>4
        <4>2. k = h
          BY <1>2, <3>1, <4>1
        <4> QED BY <1>1, <3>1, <3>2, <3>4, <4>2
      <3> QED BY <3>3, <3>4 DEF WithGoal
    <2>2. ASSUME p \notin Parked(G) PROVE WithGoal(p)' <=> WithGoal(p)
      BY <1>1, <2>2 DEF WithGoal, Parked
    <2> QED BY <2>1, <2>2
  <1>4. ASSUME NEW p \in Polls
        PROVE  /\ poll'[p] = "taken" <=> p = resultLoop'.poll \/ p \in early' \/ WithGoal(p)'
               /\ p = resultLoop'.poll => p \notin early' /\ ~WithGoal(p)'
               /\ p \in early' => ~WithGoal(p)'
    <2>1. /\ poll[p] = "taken" <=> p = resultLoop.poll \/ p \in early \/ WithGoal(p)
          /\ p = resultLoop.poll => p \notin early /\ ~WithGoal(p)
          /\ p \in early => ~WithGoal(p)
      BY DEF Placed
    <2>2. p \in Parked(G) => WithGoal(p)
      BY DEF Parked, WithGoal
    <2>3. p # None
      OBVIOUS
    <2> QED BY <1>1, <1>3, <2>1, <2>2, <2>3
  <1>5. ASSUME NEW h \in Goals
        PROVE  /\ adopting'[h] # {} => stage'[h] = "adopting"
               /\ adopting'[h] \cap waiters'[h] = {}
               /\ adopting'[h] \cap drain'[h] = {}
               /\ waiters'[h] \cap drain'[h] = {}
    BY <1>1 DEF Placed
  <1> QED BY <1>4, <1>5 DEF Placed

LEMMA PlacedStep ==
  ASSUME TypeInv, Closing, OwnPolls, Placed, [Next]_vars PROVE Placed'
  <1> USE EngineAssumption
      DEF TypeInv, TypeOK, StoreTypes, SlotTypes, RequestTypes, None, vars,
          sharedVars, slotVars, workVars, clientVars, loopVars
  <1> USE DEF Placed, WithGoal
  <1>0. \A h, k \in Goals : \A x :
          /\ x \in adopting[h] \/ x \in waiters[h] \/ x \in drain[h]
          /\ x \in adopting[k] \/ x \in waiters[k] \/ x \in drain[k]
          => h = k
    <2>1. \A k \in Goals : \A x :
            x \in adopting[k] \/ x \in waiters[k] \/ x \in drain[k]
              => target[x] = k
      BY DEF OwnPolls
    <2> TAKE h, k \in Goals
    <2> TAKE x
    <2>2. HAVE /\ x \in adopting[h] \/ x \in waiters[h] \/ x \in drain[h]
               /\ x \in adopting[k] \/ x \in waiters[k] \/ x \in drain[k]
    <2>3. target[x] = h /\ target[x] = k
      BY <2>1, <2>2
    <2> QED BY <2>3
  <1>1. ASSUME UNCHANGED <<resultLoop, early, adopting, waiters, drain>>,
               \A p \in Polls : poll'[p] = "taken" <=> poll[p] = "taken",
               \A g \in Goals : stage[g] = "adopting" => stage'[g] = "adopting"
        PROVE  Placed'
    BY <1>1
  <1>2. ASSUME ClientStep PROVE Placed'
    BY <1>1, <1>2 DEF ClientStep, SendPoll, SendCancel
  <1>3. ASSUME NEW g \in Goals, UserStep(g) PROVE Placed'
    <2>1. CASE \/ RecvNextGoal(g) \/ Reject(g) \/ AcceptRegister(g)
               \/ DropContext(g)
               \/ \E o \in {"Completed", "Cancelled"} : Deliver(g, o)
      BY <1>1, <2>1 DEF RecvNextGoal, Reject, AcceptRegister, DropContext,
                        Deliver, At
    <2>2. CASE DropAccept(g)
      <3>1. /\ UNCHANGED <<resultLoop, early, waiters, drain>>
            /\ \A p \in Polls : poll'[p] = IF p \in adopting[g] THEN "dropped"
                                                                ELSE poll[p]
            /\ adopting' = [adopting EXCEPT ![g] = {}]
            /\ \A h \in Goals \ {g} : stage'[h] = stage[h]
        BY <2>2 DEF DropAccept, Drop, At
      <3>2. \A p \in adopting[g] : \A h \in Goals \ {g} :
              p \notin adopting[h] \cup waiters[h] \cup drain[h]
        BY <1>0
      <3> QED BY <3>1, <3>2
    <2>3. CASE DropDelivery(g)
      <3>1. /\ UNCHANGED <<resultLoop, early, waiters, adopting, stage>>
            /\ \A p \in Polls : poll'[p] = IF p \in drain[g] THEN "dropped"
                                                             ELSE poll[p]
            /\ drain' = [drain EXCEPT ![g] = {}]
        BY <2>3 DEF DropDelivery, Drop
      <3>2. \A p \in drain[g] : \A h \in Goals \ {g} :
              p \notin adopting[h] \cup waiters[h] \cup drain[h]
        BY <1>0
      <3> QED BY <3>1, <3>2
    <2> QED BY <1>3, <2>1, <2>2, <2>3 DEF UserStep
  <1>4. ASSUME NEW g \in Goals, GoalStep(g) PROVE Placed'
    <2>1. CASE AcceptAdopt(g)
      <3> DEFINE mine == {p \in early : target[p] = g}
      <3>1. /\ UNCHANGED <<resultLoop, waiters, drain, poll>>
            /\ early' = early \ mine
            /\ adopting[g] = {} /\ adopting' = [adopting EXCEPT ![g] = mine]
            /\ \A h \in Goals \ {g} : stage'[h] = stage[h]
            /\ mine # {} => stage'[g] = "adopting"
        <4>1. stage[g] = "registered" /\ UNCHANGED <<resultLoop, waiters, drain, poll>>
          BY <2>1 DEF AcceptAdopt, At
        <4>2. early' = early \ mine /\ adopting' = [adopting EXCEPT ![g] = mine]
          BY <2>1 DEF AcceptAdopt, LeaveEarly
        <4>3. stage' = [stage EXCEPT ![g] = IF mine = {} THEN "replying" ELSE "adopting"]
          BY <2>1 DEF AcceptAdopt, At
        <4> HIDE DEF mine
        <4>4. adopting[g] = {}
          BY <4>1
        <4>5. mine # {} => stage'[g] = "adopting"
          BY <4>3
        <4>6. \A h \in Goals \ {g} : stage'[h] = stage[h]
          BY <4>3
        <4> QED BY <4>1, <4>2, <4>4, <4>5, <4>6
      <3>2. mine \subseteq early
        OBVIOUS
      <3> HIDE DEF mine
      <3> QED BY <3>1, <3>2
    <2>2. CASE AcceptExtend(g)
      <3>1. /\ UNCHANGED <<resultLoop, early, drain, poll>>
            /\ waiters' = [waiters EXCEPT ![g] = waiters[g] \cup adopting[g]]
            /\ adopting' = [adopting EXCEPT ![g] = {}]
            /\ \A h \in Goals \ {g} : stage'[h] = stage[h]
        BY <2>2 DEF AcceptExtend, At
      <3>2. \A p \in Polls : WithGoal(p)' <=> WithGoal(p)
        BY <3>1
      <3>3. \A h \in Goals :
              /\ adopting'[h] # {} => stage'[h] = "adopting"
              /\ adopting'[h] \cap waiters'[h] = {}
              /\ adopting'[h] \cap drain'[h] = {}
              /\ waiters'[h] \cap drain'[h] = {}
        BY <3>1
      <3> QED BY <3>1, <3>2, <3>3
    <2>3. CASE \/ AcceptReply(g) \/ AcceptReplyFails(g) \/ Abandon(g)
               \/ PublishEnd(g)
      BY <1>1, <2>3 DEF AcceptReply, AcceptReplyFails, Abandon, PublishEnd, At
    <2>6. CASE AcceptUnregister(g)
      <3>1. PICK G \in SUBSET {g} : Frees(G, Parked(G))
        BY <2>6, UnregisterFrees
      <3>2. /\ UNCHANGED <<resultLoop, early, adopting, drain>>
            /\ stage' = [stage EXCEPT ![g] = "failed"] /\ stage[g] = "failing"
        BY <2>6 DEF AcceptUnregister, At
      <3>3. \A h \in Goals : adopting[h] # {} => stage'[h] = "adopting"
        BY <3>2
      <3>4. Frees(G, {} \cup Parked(G)) /\ G \in SUBSET Goals
        BY <3>1
      <3> HIDE DEF Placed
      <3> QED BY <3>2, <3>3, <3>4, FreesPlaced
    <2>4. CASE ReplaceState(g)
      <3>1. drain[g] = {}
        BY <2>4 DEF ReplaceState, Closing
      <3>2. adopting[g] = {}
        BY <2>4 DEF ReplaceState, Lifecycle
      <3> QED BY <2>4, <3>1, <3>2 DEF ReplaceState, TakeWaiters
    <2>5. ASSUME NEW p \in Polls, WakeWaiter(g, p) PROVE Placed'
      <3>1. /\ UNCHANGED <<resultLoop, early, waiters, adopting, stage>>
            /\ drain' = [drain EXCEPT ![g] = @ \ {p}]
            /\ poll' = [poll EXCEPT ![p] = outcome[g]]
            /\ p \in drain[g] /\ outcome[g] # "taken"
        BY <2>5 DEF WakeWaiter, Outcomes
      <3>2. \A h \in Goals \ {g} :
              p \notin adopting[h] \cup waiters[h] \cup drain[h]
        BY <1>0, <3>1
      <3> QED BY <3>1, <3>2
    <2> QED BY <1>4, <2>1, <2>2, <2>3, <2>4, <2>5, <2>6 DEF GoalStep
  <1>5. ASSUME ResultStep PROVE Placed'
    <2> USE DEF LoopTypes, ResultHolds
    <2>1. ASSUME NEW p \in Polls, ResultRecv(p) PROVE Placed'
      <3>1. /\ UNCHANGED <<early, adopting, waiters, drain, stage>>
            /\ poll[p] = "queued" /\ resultLoop.poll = None
            /\ \/ /\ poll' = [poll EXCEPT ![p] = "malformed"]
                  /\ UNCHANGED resultLoop
               \/ /\ poll' = [poll EXCEPT ![p] = "taken"]
                  /\ resultLoop'.poll = p
        BY <2>1 DEF ResultRecv
      <3>2. p \notin early /\ ~WithGoal(p)
        BY <3>1
      <3> QED BY <3>1, <3>2
    <2>2. CASE ResultLookup \/ ResultRecheck
      <3>1. /\ UNCHANGED <<early, adopting, waiters, drain, poll, stage>>
            /\ resultLoop'.poll = resultLoop.poll
        BY <2>2 DEF ResultLookup, ResultRecheck, ResultAt
      <3> QED BY <3>1
    <2>3. CASE ResultPark
      <3> DEFINE r == resultLoop.poll
      <3>1. r \in Polls /\ UNCHANGED <<adopting, waiters, drain, stage>>
        BY <2>3 DEF ResultPark
      <3>2. \/ resultLoop'.poll = r /\ UNCHANGED <<early, poll>>
            \/ /\ resultLoop'.poll = None /\ UNCHANGED early
               /\ poll' = [poll EXCEPT ![r] = "dropped"]
            \/ /\ resultLoop'.poll = None /\ UNCHANGED poll
               /\ early' = early \cup {r}
        BY <2>3 DEF ResultPark, ResultIdle
      <3>3. r \notin early /\ ~WithGoal(r) /\ poll[r] = "taken"
        BY <3>1
      <3>4. \A p \in Polls : WithGoal(p)' <=> WithGoal(p)
        BY <3>1
      <3> HIDE DEF r
      <3>5. r = resultLoop.poll
        BY DEF r
      <3>6. CASE resultLoop'.poll = r /\ UNCHANGED <<early, poll>>
        BY <3>1, <3>4, <3>5, <3>6
      <3>7. CASE /\ resultLoop'.poll = None /\ UNCHANGED early
                 /\ poll' = [poll EXCEPT ![r] = "dropped"]
        BY <3>1, <3>3, <3>4, <3>5, <3>7
      <3>8. CASE /\ resultLoop'.poll = None /\ UNCHANGED poll
                 /\ early' = early \cup {r}
        BY <3>1, <3>3, <3>4, <3>5, <3>8
      <3> QED BY <3>2, <3>6, <3>7, <3>8
    <2>4. CASE ActOnSlot
      <3> DEFINE r == resultLoop.poll
                 g == target[r]
      <3>1. /\ r \in Polls /\ g \in Goals
            /\ UNCHANGED <<early, adopting, drain, stage>>
        BY <2>4 DEF ActOnSlot
      <3>2. \/ resultLoop'.poll = r /\ UNCHANGED <<waiters, poll>>
            \/ /\ resultLoop'.poll = None
               /\ Frees({g}, {r} \cup Parked({g}))
            \/ /\ resultLoop'.poll = None /\ UNCHANGED poll
               /\ waiters' = [waiters EXCEPT ![g] = @ \cup {r}]
        <4> HIDE DEF TypeInv, Placed
        <4> QED BY <2>4, ActFrees DEF ResultIdle
      <3>3. r \notin early /\ ~WithGoal(r) /\ poll[r] = "taken"
        BY <3>1
      <3>4. r = resultLoop.poll
        OBVIOUS
      <3> HIDE DEF r, g
      <3>5. CASE resultLoop'.poll = r /\ UNCHANGED <<waiters, poll>>
        BY <3>1, <3>4, <3>5
      <3>7. CASE /\ resultLoop'.poll = None
                 /\ Frees({g}, {r} \cup Parked({g}))
        <4>1. \A h \in Goals : adopting[h] # {} => stage'[h] = "adopting"
          BY <3>1
        <4>2. /\ {g} \in SUBSET Goals /\ {r} \in SUBSET Polls
              /\ \A p \in {r} : poll[p] = "queued" \/ p = resultLoop.poll
              /\ \A p \in Polls : p = resultLoop.poll => p \in {r}
          BY <3>1, <3>4
        <4> HIDE DEF TypeInv, Placed
        <4> QED BY <3>1, <3>7, <4>1, <4>2, FreesPlaced
      <3>6. CASE /\ resultLoop'.poll = None /\ UNCHANGED poll
                 /\ waiters' = [waiters EXCEPT ![g] = @ \cup {r}]
        <4>1. \A p \in Polls : WithGoal(p)' <=> WithGoal(p) \/ p = r
          BY <3>1, <3>6
        <4>2. \A h \in Goals : /\ adopting'[h] \cap waiters'[h] = {}
                               /\ waiters'[h] \cap drain'[h] = {}
          BY <3>1, <3>3, <3>6
        <4> QED BY <3>1, <3>3, <3>4, <3>6, <4>1, <4>2
      <3> QED BY <3>2, <3>5, <3>6, <3>7
    <2>5. CASE ResultReply
      <3>1. /\ UNCHANGED <<early, adopting, waiters, drain, stage>>
            /\ resultLoop.poll \in Polls /\ resultLoop'.poll = None
            /\ poll' = [poll EXCEPT ![resultLoop.poll] = resultLoop.reply]
            /\ resultLoop.reply # "taken"
        BY <2>5 DEF ResultReply, ResultIdle, Outcomes
      <3> QED BY <3>1
    <2>6. CASE ResultStop
      <3>1. PICK G \in SUBSET Goals, Q \in SUBSET Polls :
              /\ \A p \in Q : poll[p] = "queued" \/ p = resultLoop.poll
              /\ \A p \in Polls : p = resultLoop.poll => p \in Q
              /\ Frees(G, Q \cup Parked(G))
        BY <2>6, StopFrees
      <3>2. /\ UNCHANGED <<early, adopting, drain, stage>>
            /\ resultLoop'.poll = None
        BY <2>6 DEF ResultStop, ResultIdle
      <3>3. \A h \in Goals : adopting[h] # {} => stage'[h] = "adopting"
        BY <3>2
      <3> HIDE DEF TypeInv, Placed
      <3> QED BY <3>1, <3>2, <3>3, FreesPlaced
    <2> QED BY <1>5, <2>1, <2>2, <2>3, <2>4, <2>5, <2>6 DEF ResultStep
  <1>6. ASSUME CancelStep PROVE Placed'
    BY <1>1, <1>6 DEF CancelStep, CancelRecv, CancelLookup, CancelSignal,
                      CancelTombstones, CancelReply, CancelStop
  <1>7. ASSUME SweepStep PROVE Placed'
    <2>1. CASE SweepEarly
      <3>1. /\ UNCHANGED <<resultLoop, adopting, waiters, drain, stage>>
            /\ overdue \subseteq early /\ early' = early \ overdue
            /\ \A p \in Polls : poll'[p] = IF p \in overdue THEN "dropped"
                                                            ELSE poll[p]
        BY <2>1 DEF SweepEarly, LeaveEarly, Drop
      <3> QED BY <3>1
    <2>2. CASE SweepRegistry \/ SweepStop \/ \E g \in Goals : SweepEntomb(g)
      BY <1>1, <2>2 DEF SweepRegistry, SweepStop, SweepEntomb
    <2> QED BY <1>7, <2>1, <2>2 DEF SweepStep
  <1>8. ASSUME TimeStep \/ DropEngine \/ UNCHANGED vars PROVE Placed'
    BY <1>1, <1>8 DEF TimeStep, CloseWindow, PassDeadline, DropEngine
  <1> QED BY <1>2, <1>3, <1>4, <1>5, <1>6, <1>7, <1>8 DEF Next

LEMMA PlacedHolds == Spec => []Placed
  <1>1. Init => Placed
    BY EngineAssumption DEF Init, Placed, WithGoal, ResultIdle, None
  <1>2. TypeInv /\ Closing /\ OwnPolls /\ Placed /\ [Next]_vars => Placed'
    BY PlacedStep
  <1> QED BY TypeInvHolds, ClosingHolds, AnswersHold, <1>1, <1>2, PTL DEF Spec

(***************************************************************************)
(* Whatever the interleaving of the loops, accept, the winning delivery    *)
(* and the futures the caller drops: a responder the engine has taken is   *)
(* in one place, and one it has answered or closed in none, so that no     *)
(* result request is answered twice and none is forgotten.                 *)
(***************************************************************************)
THEOREM ResponderCorrect == Spec => []ResponderInOnePlace
  <1>1. ASSUME TypeInv, OwnPolls, Placed, NEW p \in Polls
        PROVE  Cardinality(Places(p)) = IF poll[p] = "taken" THEN 1 ELSE 0
    <2> DEFINE g == target[p]
               hand == {<<"hand", x>> : x \in {resultLoop.poll} \cap {p}}
               parked == {<<"early", x>> : x \in early \cap {p}}
               adopted == {<<"adopting", h>> : h \in {k \in Goals : p \in adopting[k]}}
               waiting == {<<"waiting", h>> : h \in {k \in Goals : p \in waiters[k]}}
               draining == {<<"draining", h>> : h \in {k \in Goals : p \in drain[k]}}
    <2>1. Places(p) = hand \cup parked \cup adopted \cup waiting \cup draining
      BY DEF Places
    <2>2. \A h \in Goals : p \in adopting[h] \cup waiters[h] \cup drain[h] => h = g
      BY <1>1 DEF OwnPolls
    <2>3. hand = IF p = resultLoop.poll THEN {<<"hand", p>>} ELSE {}
      OBVIOUS
    <2>4. parked = IF p \in early THEN {<<"early", p>>} ELSE {}
      OBVIOUS
    <2>5. adopted = IF \E h \in Goals : p \in adopting[h] THEN {<<"adopting", g>>} ELSE {}
      BY <2>2
    <2>6. waiting = IF \E h \in Goals : p \in waiters[h] THEN {<<"waiting", g>>} ELSE {}
      BY <2>2
    <2>7. draining = IF \E h \in Goals : p \in drain[h] THEN {<<"draining", g>>} ELSE {}
      BY <2>2
    <2> HIDE DEF hand, parked, adopted, waiting, draining
    <2>8. CASE poll[p] = "taken"
      <3>1. \E x : Places(p) = {x}
        <4>1. CASE p = resultLoop.poll
          <5>1. parked = {} /\ adopted = {} /\ waiting = {} /\ draining = {}
            BY <1>1, <2>4, <2>5, <2>6, <2>7, <4>1 DEF Placed, WithGoal
          <5> QED BY <2>1, <2>3, <4>1, <5>1
        <4>2. CASE p \in early
          <5>1. hand = {} /\ adopted = {} /\ waiting = {} /\ draining = {}
            BY <1>1, <2>3, <2>5, <2>6, <2>7, <4>2 DEF Placed, WithGoal
          <5> QED BY <2>1, <2>4, <4>2, <5>1
        <4>3. CASE WithGoal(p)
          <5>1. hand = {} /\ parked = {}
            BY <1>1, <2>3, <2>4, <4>3 DEF Placed
          <5>2. g \in Goals /\ p \in adopting[g] \cup waiters[g] \cup drain[g]
            BY <2>2, <4>3 DEF WithGoal
          <5>3. CASE p \in adopting[g]
            <6>1. waiting = {} /\ draining = {}
              BY <1>1, <2>2, <2>6, <2>7, <5>2, <5>3 DEF Placed
            <6> QED BY <2>1, <2>5, <5>1, <5>2, <5>3, <6>1
          <5>4. CASE p \in waiters[g]
            <6>1. adopted = {} /\ draining = {}
              BY <1>1, <2>2, <2>5, <2>7, <5>2, <5>4 DEF Placed
            <6> QED BY <2>1, <2>6, <5>1, <5>2, <5>4, <6>1
          <5>5. CASE p \in drain[g]
            <6>1. adopted = {} /\ waiting = {}
              BY <1>1, <2>2, <2>5, <2>6, <5>2, <5>5 DEF Placed
            <6> QED BY <2>1, <2>7, <5>1, <5>2, <5>5, <6>1
          <5> QED BY <5>2, <5>3, <5>4, <5>5
        <4> QED BY <1>1, <2>8, <4>1, <4>2, <4>3 DEF Placed
      <3> QED BY <2>8, <3>1, FS_Singleton
    <2>9. CASE poll[p] # "taken"
      <3>1. Places(p) = {}
        BY <1>1, <2>1, <2>3, <2>4, <2>5, <2>6, <2>7, <2>9 DEF Placed, WithGoal
      <3> QED BY <2>9, <3>1, FS_EmptySet
    <2> QED BY <2>8, <2>9
  <1>2. TypeInv /\ OwnPolls /\ Placed => ResponderInOnePlace
    BY <1>1 DEF ResponderInOnePlace, OwnPolls
  <1> QED BY TypeInvHolds, AnswersHold, PlacedHolds, <1>2, PTL

(* What the cancel loop is about to say is true, and not said twice.         *)
Judged ==
  /\ cancelLoop.pc \notin {"recv", "stopped"} => ack[cancelLoop.cancel] = None
  /\ cancelLoop.pc = "signal" => slot[target[cancelLoop.cancel]] # None
  /\ cancelLoop.pc = "ack" =>
       /\ cancelLoop.reply = "Signalled" => slot[target[cancelLoop.cancel]] # None
       /\ cancelLoop.reply = "AlreadyTerminal" => terminal[target[cancelLoop.cancel]]

(***************************************************************************)
(* A slot once made stays made, and a goal once terminal keeps its outcome.*)
(***************************************************************************)
LEMMA SlotAdvances ==
  ASSUME TypeInv, [Next]_vars, NEW g \in Goals
  PROVE  /\ slot[g] # None => slot'[g] # None
         /\ terminal[g] => terminal'[g]
  <1> USE DEF TypeInv, TypeOK, SlotTypes, None, vars, sharedVars, slotVars,
              workVars, clientVars, loopVars
  <1> DEFINE Advances == /\ slot[g] # None => slot'[g] # None
                         /\ terminal[g] => terminal'[g]
  <1>1. ASSUME NEW h \in Goals, UserStep(h) PROVE Advances
    BY <1>1 DEF UserStep, RecvNextGoal, Reject, AcceptRegister, Deliver,
                SwapTerminal, DropContext, DropAccept, DropDelivery
  <1>2. ASSUME NEW h \in Goals, GoalStep(h) PROVE Advances
    BY <1>2 DEF GoalStep, AcceptAdopt, AcceptExtend, AcceptReply,
                AcceptReplyFails, AcceptUnregister, Abandon, SwapTerminal,
                ReplaceState, WakeWaiter, PublishEnd
  <1>3. ASSUME \/ ClientStep \/ ResultStep \/ CancelStep \/ SweepStep
               \/ TimeStep \/ DropEngine \/ UNCHANGED vars
        PROVE  UNCHANGED <<slot, terminal>>
    BY <1>3 DEF ClientStep, SendPoll, SendCancel, TimeStep, CloseWindow,
       PassDeadline, DropEngine, ResultStep, ResultRecv, ResultLookup,
       ResultRecheck, ResultPark, ActOnSlot, ResultReply, ResultStop,
       CancelStep, CancelRecv, CancelLookup, CancelSignal, CancelTombstones,
       CancelReply, CancelStop, SweepStep, SweepRegistry, SweepEntomb,
       SweepEarly, SweepStop
  <1> QED BY <1>1, <1>2, <1>3 DEF Next

LEMMA JudgedStep ==
  ASSUME TypeInv, Buried, Judged, [Next]_vars PROVE Judged'
  <1> USE EngineAssumption
      DEF TypeInv, TypeOK, StoreTypes, SlotTypes, RequestTypes, LoopTypes,
          Requests, None, vars, sharedVars, slotVars, workVars, clientVars,
          loopVars
  <1>1. ASSUME UNCHANGED <<cancelLoop, ack>>,
               \A c \in Cancels : target[c] \in Goals => target'[c] = target[c]
        PROVE  Judged'
    BY <1>1, SlotAdvances DEF Judged, CancelHolds
  <1>2. ASSUME ClientStep PROVE Judged'
    BY <1>1, <1>2 DEF ClientStep, SendPoll, SendCancel
  <1>3. ASSUME NEW g \in Goals, UserStep(g) PROVE Judged'
    BY <1>1, <1>3 DEF UserStep, RecvNextGoal, Reject, AcceptRegister, Deliver,
                      DropContext, DropAccept, DropDelivery
  <1>4. ASSUME NEW g \in Goals, GoalStep(g) PROVE Judged'
    BY <1>1, <1>4 DEF GoalStep, AcceptAdopt, AcceptExtend, AcceptReply,
                AcceptReplyFails, AcceptUnregister, Abandon, ReplaceState,
                WakeWaiter, PublishEnd
  <1>5. ASSUME CancelStep PROVE Judged'
    <2>1. ASSUME NEW c \in Cancels, CancelRecv(c) PROVE Judged'
      BY <2>1 DEF CancelRecv, Judged
    <2>2. CASE CancelLookup
      BY <2>2 DEF CancelLookup, Judged, CancelHolds, Lifecycle
    <2>3. CASE CancelSignal
      <3>1. /\ cancelLoop'.pc = "ack" /\ cancelLoop'.reply = "Signalled"
            /\ cancelLoop'.cancel = cancelLoop.cancel
            /\ UNCHANGED <<slot, target, ack>>
        BY <2>3 DEF CancelSignal
      <3> QED BY <2>3, <3>1 DEF CancelSignal, Judged
    <2>4. CASE CancelTombstones
      <3> DEFINE g == target[cancelLoop.cancel]
      <3>1. /\ cancelLoop'.pc = "ack" /\ cancelLoop'.cancel = cancelLoop.cancel
            /\ cancelLoop'.reply = IF Tombstoned(g) THEN "AlreadyTerminal"
                                                    ELSE "Unknown"
            /\ UNCHANGED <<slot, terminal, target, ack>>
        BY <2>4 DEF CancelTombstones
      <3>2. Tombstoned(g) => terminal[g]
        BY DEF Tombstoned, Buried, Lifecycle
      <3> QED BY <2>4, <3>1, <3>2 DEF CancelTombstones, Judged
    <2>5. CASE CancelReply \/ CancelStop
      <3>1. cancelLoop'.pc \in {"recv", "stopped"}
        BY <2>5 DEF CancelReply, CancelStop, CancelIdle
      <3> QED BY <3>1 DEF Judged
    <2> QED BY <1>5, <2>1, <2>2, <2>3, <2>4, <2>5 DEF CancelStep
  <1>6. ASSUME ResultStep \/ SweepStep \/ TimeStep \/ DropEngine \/ UNCHANGED vars
        PROVE  Judged'
    BY <1>1, <1>6 DEF TimeStep, CloseWindow, PassDeadline, DropEngine,
       ResultStep, ResultRecv, ResultLookup, ResultRecheck, ResultPark,
       ActOnSlot, ResultReply, ResultStop, SweepStep, SweepRegistry,
       SweepEntomb, SweepEarly, SweepStop
  <1> QED BY <1>2, <1>3, <1>4, <1>5, <1>6 DEF Next

LEMMA JudgedHolds == Spec => []Judged
  <1>1. Init => Judged
    BY DEF Init, Judged, CancelIdle
  <1>2. TypeInv /\ Buried /\ Judged /\ [Next]_vars => Judged'
    BY JudgedStep
  <1> QED BY TypeInvHolds, AnswersHold, <1>1, <1>2, PTL DEF Spec

(* The arms of ClientView exclude each other.                                *)
Seen(g) == IF terminal[g] THEN outcome[g]
           ELSE IF stage[g] = "failed" THEN "withdrawn"
           ELSE IF slot[g] = None THEN "unknown"
           ELSE "live"

ViewSeen == TypeInv => \A g \in Goals : ClientView(g) = Seen(g)

LEMMA ViewIsSeen == ViewSeen
  <1> SUFFICES ASSUME TypeInv, NEW g \in Goals
               PROVE  ClientView(g) = Seen(g)
    BY DEF ViewSeen
  <1> USE DEF TypeInv, TypeOK, StoreTypes, SlotTypes, Lifecycle, Unaccepted,
              Seen
  <1>1. CASE terminal[g]
    BY <1>1 DEF ClientView
  <1>2. CASE ~terminal[g] /\ stage[g] = "failed"
    BY <1>2 DEF ClientView
  <1>3. CASE ~terminal[g] /\ stage[g] # "failed"
    BY <1>3 DEF ClientView
  <1> QED BY <1>1, <1>2, <1>3

LEMMA ViewIsSeenNext == ViewSeen'
  BY ViewIsSeen, PTL

(* What the client sees of a goal is left alone by a step that changes       *)
(* neither the terminal flag, nor the outcome, nor accept's success.         *)
Unmoved(g) ==
  /\ terminal'[g] = terminal[g] /\ outcome'[g] = outcome[g]
  /\ stage'[g] = "failed" <=> stage[g] = "failed"
  /\ slot'[g] = None <=> slot[g] = None

LEMMA ViewMoves ==
  ASSUME TypeInv, TypeInv', NEW g \in Goals,
         \A h \in Goals \ {g} : Unmoved(h)
  PROVE  View[g] = Seen(g) /\ View' = [View EXCEPT ![g] = Seen(g)']
  <1>1. \A h \in Goals : ClientView(h) = Seen(h) /\ ClientView(h)' = Seen(h)'
    BY ViewIsSeen, ViewIsSeenNext DEF ViewSeen
  <1>2. \A h \in Goals \ {g} : Seen(h)' = Seen(h)
    BY DEF Seen, Unmoved
  <1> QED BY <1>1, <1>2 DEF View

LEMMA ViewKept ==
  ASSUME TypeInv, TypeInv', \A h \in Goals : Unmoved(h)
  PROVE  View' = View
  <1>1. \A h \in Goals : ClientView(h) = Seen(h) /\ ClientView(h)' = Seen(h)'
    BY ViewIsSeen, ViewIsSeenNext DEF ViewSeen
  <1>2. \A h \in Goals : Seen(h)' = Seen(h)
    BY DEF Seen, Unmoved
  <1> QED BY <1>1, <1>2 DEF View

(* What the polls were told, when some are answered or closed.               *)
LEMMA ToldKept ==
  ASSUME \A p \in Polls : \/ poll'[p] = poll[p]
                          \/ poll[p] \notin Consumed /\ poll'[p] \notin Consumed
  PROVE  Told' = Told
  BY DEF Told

LEMMA ToldOne ==
  ASSUME NEW p \in Polls, poll[p] \notin Consumed, poll'[p] \in Consumed,
         \A q \in Polls \ {p} : poll'[q] = poll[q]
  PROVE  Told[p] = None /\ Told' = [Told EXCEPT ![p] = poll'[p]]
  <1>1. Told[p] = None
    BY DEF Told
  <1>2. Told' = [q \in Polls |-> IF q = p THEN poll'[p] ELSE Told[q]]
    BY DEF Told
  <1>3. Told = [q \in Polls |-> Told[q]]
    BY DEF Told
  <1> QED BY <1>1, <1>2, <1>3

LEMMA ToldDropped ==
  ASSUME NEW S \in SUBSET Polls, \A p \in S : poll[p] \notin Consumed,
         poll' = Drop(S)
  PROVE  /\ \A p \in S : Told[p] = None
         /\ Told' = [p \in Polls |-> IF p \in S THEN "dropped" ELSE Told[p]]
  <1>1. "dropped" \in Consumed
    BY DEF Consumed
  <1>2. \A p \in S : Told[p] = None
    BY DEF Told
  <1>3. \A p \in Polls : poll'[p] = IF p \in S THEN "dropped" ELSE poll[p]
    BY DEF Drop
  <1> QED BY <1>1, <1>2, <1>3 DEF Told

LEMMA PromiseInit == Init => Promise!Init
  <1> SUFFICES ASSUME Init PROVE Promise!Init
    OBVIOUS
  <1>1. \A g \in Goals : ClientView(g) = "unknown"
    BY InitTypeInv, ViewIsSeen DEF ViewSeen, Seen, Init, None
  <1>2. View = [g \in Goals |-> "unknown"]
    BY <1>1 DEF View
  <1>3. Unserved = {}
    BY DEF Unserved, Init, None
  <1>4. Told = [p \in Polls |-> "none"]
    BY DEF Told, Init, None, Consumed, Answers, Outcomes
  <1> QED BY <1>2, <1>3, <1>4 DEF Promise!Init, Init, Requests, None

(***************************************************************************)
(* Every step of the engine is one step of ActionGoal or none: the swap of *)
(* the terminal flag finishes the goal, the passing of evict_at expires    *)
(* it, accept starts it and accept's error path withdraws it; a reply, a   *)
(* wake-up or a drop is the only answer its request gets.                  *)
(***************************************************************************)
LEMMA PromiseStep ==
  ASSUME TypeInv, TypeInv', OwnPolls, Buried, Answered, Placed, Judged,
         [Next]_vars
  PROVE  [Promise!Next]_(Promise!vars)
  <1> DEFINE Kept == [Promise!Next]_(Promise!vars)
  <1>1. ASSUME \A g \in Goals : Unmoved(g), UNCHANGED <<window, target, ack>>,
               \A p \in Polls : \/ poll'[p] = poll[p]
                                \/ poll[p] \notin Consumed /\ poll'[p] \notin Consumed
        PROVE  Kept
    <2>1. View' = View /\ Told' = Told /\ Unserved' = Unserved
      BY <1>1, ViewKept, ToldKept DEF Unserved
    <2> QED BY <1>1, <2>1 DEF Promise!vars
  <1>2. ASSUME NEW S \in SUBSET Polls, \A p \in S : poll[p] \notin Consumed,
               poll' = Drop(S), \A g \in Goals : Unmoved(g),
               UNCHANGED <<window, target, ack>>
        PROVE  Kept
    <2>1. View' = View /\ Unserved' = Unserved
      BY <1>2, ViewKept DEF Unserved
    <2>2. Promise!Close(S)
      BY <1>2, <2>1, ToldDropped DEF Promise!Close, Promise!Closed, None
    <2> QED BY <2>2 DEF Promise!Next
  <1>3. ASSUME NEW p \in Polls, poll[p] \notin Consumed,
               \A q \in Polls \ {p} : poll'[q] = poll[q],
               \/ target[p] = "malformed" /\ poll'[p] = "malformed"
               \/ target[p] \in Goals /\ Owed(p, poll'[p]) /\ poll'[p] \in Outcomes \cup {"Expired"},
               \A g \in Goals : Unmoved(g), UNCHANGED <<window, target, ack>>
        PROVE  Kept
    <2>1. View' = View /\ Unserved' = Unserved
      BY <1>3, ViewKept DEF Unserved
    <2>2. poll'[p] \in Consumed
      BY <1>3 DEF Consumed, Answers
    <2>3. Told[p] = None /\ Told' = [Told EXCEPT ![p] = poll'[p]]
      BY <1>3, <2>2, ToldOne
    <2>4. Promise!Answer(p)
      <3>1. CASE target[p] = "malformed" /\ poll'[p] = "malformed"
        BY <1>3, <2>1, <2>3, <3>1 DEF Promise!Answer, None
      <3>2. CASE target[p] \in Goals /\ poll'[p] \in Outcomes
        <4>1. View[target[p]] = poll'[p]
          <5>1. /\ slot[target[p]] = "terminal"
                /\ poll'[p] = outcome[target[p]]
            BY <1>3, <3>2, EngineAssumption DEF Owed
          <5>2. terminal[target[p]]
            BY <3>2, <5>1 DEF TypeInv, Lifecycle
          <5>3. ClientView(target[p]) = Seen(target[p])
            BY <3>2, ViewIsSeen DEF ViewSeen
          <5> QED BY <3>2, <5>1, <5>2, <5>3 DEF View, Seen
        <4> QED BY <1>3, <2>1, <2>3, <3>2, <4>1, EngineAssumption
                DEF Promise!Answer, Promise!Outcomes, Outcomes, None
      <3>3. CASE target[p] \in Goals /\ poll'[p] = "Expired"
        <4>1. target[p] \in Unserved
          BY <1>3, <3>3, EngineAssumption DEF Unserved, Owed
        <4> QED BY <1>3, <2>1, <2>3, <3>3, <4>1, EngineAssumption
                DEF Promise!Answer, None
      <3> QED BY <1>3, <3>1, <3>2, <3>3
    <2> QED BY <2>4 DEF Promise!Next
  <1> USE EngineAssumption
      DEF TypeOK, StoreTypes, SlotTypes, RequestTypes, Requests,
          None, vars, sharedVars, slotVars, workVars, clientVars, loopVars
  <1>0. TypeOK /\ Lifecycle /\ ResultHolds /\ CancelHolds /\ Asked
    BY DEF TypeInv
  <1>4. \A p \in Polls : poll[p] \in {"idle", "queued", "taken"} => poll[p] \notin Consumed
    BY DEF Consumed, Answers, Outcomes
  <1>5. ASSUME ClientStep PROVE Kept
    <2>1. ASSUME NEW p \in Polls, SendPoll(p) PROVE Kept
      <3>1. \A g \in Goals : Unmoved(g)
        BY <2>1 DEF SendPoll, Unmoved
      <3>2. \A q \in Polls : \/ poll'[q] = poll[q]
                             \/ poll[q] \notin Consumed /\ poll'[q] \notin Consumed
        BY <1>0, <2>1, <1>4 DEF SendPoll, Consumed, Answers, Outcomes
      <3>3. View' = View /\ Told' = Told /\ Unserved' = Unserved
        BY <2>1, <3>1, <3>2, ViewKept, ToldKept DEF Unserved, SendPoll
      <3>4. target[p] = None
        BY <1>0, <2>1 DEF SendPoll, Asked
      <3>5. Promise!Ask(p)
        BY <1>0, <2>1, <3>3, <3>4 DEF SendPoll, Promise!Ask
      <3> QED BY <3>5 DEF Promise!Next
    <2>2. ASSUME NEW c \in Cancels, SendCancel(c) PROVE Kept
      <3>1. \A g \in Goals : Unmoved(g)
        BY <2>2 DEF SendCancel, Unmoved
      <3>2. View' = View /\ Told' = Told /\ Unserved' = Unserved
        BY <2>2, <3>1, ViewKept, ToldKept DEF Unserved, SendCancel
      <3>3. Promise!Ask(c)
        BY <1>0, <2>2, <3>2 DEF SendCancel, Promise!Ask
      <3> QED BY <3>3 DEF Promise!Next
    <2> QED BY <1>5, <2>1, <2>2 DEF ClientStep
  <1>6. ASSUME NEW g \in Goals,
               \A h \in Goals \ {g} : Unmoved(h),
               UNCHANGED <<window, target, ack, poll>>,
               \/ Seen(g) = "unknown" /\ Seen(g)' = "live"
               \/ Seen(g) = "live" /\ Seen(g)' \in Outcomes
        PROVE  Kept
    <2>1. View[g] = Seen(g) /\ View' = [View EXCEPT ![g] = Seen(g)']
      BY <1>6, ViewMoves
    <2>2. Unserved' = Unserved /\ Told' = Told
      BY <1>6, ToldKept DEF Unserved
    <2>3. CASE Seen(g) = "unknown" /\ Seen(g)' = "live"
      <3>1. Promise!Start(g)
        BY <1>6, <2>1, <2>2, <2>3 DEF Promise!Start, Promise!Move
      <3> QED BY <3>1 DEF Promise!Next
    <2>5. CASE Seen(g) = "live" /\ Seen(g)' \in Outcomes
      <3>1. Promise!Finish(g)
        BY <1>6, <2>1, <2>2, <2>5
           DEF Promise!Finish, Promise!Move, Promise!Outcomes, Outcomes
      <3> QED BY <3>1 DEF Promise!Next
    <2> QED BY <1>6, <2>3, <2>5
  <1>7. ASSUME NEW g \in Goals, UserStep(g) PROVE Kept
    <2>1. CASE RecvNextGoal(g) \/ Reject(g) \/ DropContext(g)
      <3>1. \A h \in Goals : Unmoved(h)
        BY <1>0, <2>1 DEF RecvNextGoal, Reject, DropContext, At, Unmoved
      <3> QED BY <1>1, <2>1, <3>1 DEF RecvNextGoal, Reject, DropContext
    <2>2. CASE AcceptRegister(g)
      <3>1. \A h \in Goals \ {g} : Unmoved(h)
        BY <1>0, <2>2 DEF AcceptRegister, At, Unmoved
      <3>2. Seen(g) = "unknown" /\ Seen(g)' = "live"
        BY <1>0, <2>2 DEF AcceptRegister, At, Seen, Lifecycle, Unaccepted
      <3> QED BY <1>6, <2>2, <3>1, <3>2 DEF AcceptRegister
    <2>3. ASSUME NEW o \in {"Completed", "Cancelled"}, Deliver(g, o) PROVE Kept
      <3>1. \A h \in Goals \ {g} : Unmoved(h)
        BY <1>0, <2>3 DEF Deliver, SwapTerminal, Unmoved
      <3>2. Seen(g) = "live" /\ Seen(g)' \in Outcomes
        <4>1. ~terminal[g] /\ stage[g] = "running" /\ slot[g] # None
          BY <1>0, <2>3 DEF Deliver, SwapTerminal, Lifecycle, Unaccepted
        <4>2. terminal' = [terminal EXCEPT ![g] = TRUE] /\ terminal'[g]
          BY <1>0, <2>3 DEF Deliver, SwapTerminal
        <4>3. outcome' = [outcome EXCEPT ![g] = o] /\ outcome'[g] = o
          BY <1>0, <2>3 DEF Deliver, SwapTerminal
        <4> QED BY <4>1, <4>2, <4>3 DEF Seen, Outcomes
      <3> QED BY <1>6, <2>3, <3>1, <3>2 DEF Deliver
    <2>4. CASE DropAccept(g)
      <3>1. \A h \in Goals : Unmoved(h)
        BY <1>0, <2>4 DEF DropAccept, At, Unmoved
      <3>2. \A p \in adopting[g] : poll[p] = "taken"
        BY <1>0 DEF Placed, WithGoal
      <3>3. \A p \in adopting[g] : poll[p] \notin Consumed
        BY <1>0, <1>4, <3>2
      <3> QED BY <1>0, <1>2, <2>4, <3>1, <3>3 DEF DropAccept
    <2>5. CASE DropDelivery(g)
      <3>1. \A h \in Goals : Unmoved(h)
        BY <2>5 DEF DropDelivery, Unmoved
      <3>2. \A p \in drain[g] : poll[p] = "taken"
        BY <1>0 DEF Placed, WithGoal
      <3>3. \A p \in drain[g] : poll[p] \notin Consumed
        BY <1>0, <1>4, <3>2
      <3> QED BY <1>0, <1>2, <2>5, <3>1, <3>3 DEF DropDelivery
    <2> QED BY <1>7, <2>1, <2>2, <2>3, <2>4, <2>5 DEF UserStep
  <1>8. ASSUME NEW g \in Goals, GoalStep(g) PROVE Kept
    <2>1. CASE AcceptAdopt(g) \/ AcceptExtend(g) \/ AcceptReply(g) \/ AcceptReplyFails(g)
      <3>1. \A h \in Goals : Unmoved(h)
        BY <1>0, <2>1 DEF AcceptAdopt, AcceptExtend, AcceptReply,
                          AcceptReplyFails, At, Unmoved
      <3> QED BY <1>1, <2>1, <3>1 DEF AcceptAdopt, AcceptExtend, AcceptReply,
                          AcceptReplyFails
    <2>2. CASE AcceptUnregister(g)
      <3>1. \A h \in Goals \ {g} : Unmoved(h)
        BY <1>0, <2>2 DEF AcceptUnregister, At, Unmoved
      <3>2. Seen(g) = "live" /\ Seen(g)' = "withdrawn"
        BY <1>0, <2>2 DEF AcceptUnregister, At, Seen, Lifecycle, Unaccepted
      <3>3. View[g] = Seen(g) /\ View' = [View EXCEPT ![g] = "withdrawn"]
        BY <1>0, <3>1, <3>2, ViewMoves
      <3>4. PICK G \in SUBSET {g} : Frees(G, Parked(G))
        BY <2>2, UnregisterFrees
      <3>5. Parked(G) \in SUBSET {p \in Polls : target[p] = g}
        BY <3>4 DEF Parked, OwnPolls
      <3>6. \A p \in Parked(G) : poll[p] \notin Consumed
        <4>1. \A p \in Parked(G) : p \in Polls /\ WithGoal(p)
          BY <3>4 DEF Parked, WithGoal
        <4> QED BY <1>4, <4>1 DEF Placed
      <3>7. Promise!Closed(Parked(G))
        BY <3>4, <3>5, <3>6, ToldDropped DEF Frees, Promise!Closed, None
      <3>8. Unserved' = Unserved
        BY <2>2 DEF AcceptUnregister, Unserved, slotVars
      <3>9. Promise!Withdraw(g)
        BY <2>2, <3>2, <3>3, <3>5, <3>7, <3>8
           DEF AcceptUnregister, Promise!Withdraw, Promise!Move, clientVars
      <3> QED BY <3>9 DEF Promise!Next
    <2>3. CASE Abandon(g)
      <3>1. \A h \in Goals \ {g} : Unmoved(h)
        BY <1>0, <2>3 DEF Abandon, SwapTerminal, Unmoved
      <3>2. Seen(g) = "live" /\ Seen(g)' \in Outcomes
        BY <1>0, <2>3 DEF Abandon, SwapTerminal, Seen, Lifecycle, Unaccepted,
                          Outcomes
      <3> QED BY <1>6, <2>3, <3>1, <3>2 DEF Abandon
    <2>4. CASE ReplaceState(g)
      <3>1. \A h \in Goals : Unmoved(h)
        BY <1>0, <2>4 DEF ReplaceState, TakeWaiters, Unmoved, Lifecycle
      <3>2. View' = View /\ Told' = Told
        BY <2>4, <3>1, ViewKept, ToldKept DEF ReplaceState
      <3>3. Unserved' = Unserved
        BY <1>0, <2>4 DEF ReplaceState, Unserved, Lifecycle
      <3> QED BY <2>4, <3>2, <3>3 DEF ReplaceState, Promise!vars
    <2>5. ASSUME NEW p \in Polls, WakeWaiter(g, p) PROVE Kept
      <3>1. \A h \in Goals : Unmoved(h)
        BY <2>5 DEF WakeWaiter, Unmoved
      <3>2. poll[p] = "taken" /\ target[p] = g
        BY <1>0, <2>5 DEF WakeWaiter, Placed, WithGoal, OwnPolls
      <3>3. slot[g] = "terminal" /\ outcome[g] \in Outcomes
        BY <1>0, <2>5 DEF WakeWaiter, Lifecycle
      <3>4. /\ poll'[p] = outcome[g]
            /\ \A q \in Polls \ {p} : poll'[q] = poll[q]
        BY <1>0, <2>5 DEF WakeWaiter
      <3>5. Owed(p, poll'[p])
        BY <3>2, <3>3, <3>4 DEF Owed, Outcomes
      <3> QED BY <1>3, <1>4, <2>5, <3>1, <3>2, <3>3, <3>4, <3>5 DEF WakeWaiter
    <2>6. CASE PublishEnd(g)
      <3>1. \A h \in Goals : Unmoved(h)
        BY <2>6 DEF PublishEnd, Unmoved
      <3> QED BY <1>1, <2>6, <3>1 DEF PublishEnd
    <2> QED BY <1>8, <2>1, <2>2, <2>3, <2>4, <2>5, <2>6 DEF GoalStep
  <1>9. ASSUME ResultStep PROVE Kept
    <2> DEFINE r == resultLoop.poll
    <2>1. /\ \A h \in Goals : Unmoved(h)
          /\ UNCHANGED <<window, target, ack>>
      BY <1>9 DEF ResultStep, ResultRecv, ResultLookup, ResultRecheck,
                  ResultPark, ActOnSlot, ResultReply, ResultStop, Unmoved
    <2>2. r \in Polls => poll[r] \notin Consumed
      BY <1>0, <1>4 DEF Placed
    <2>3. ASSUME NEW p \in Polls, ResultRecv(p) PROVE Kept
      <3>1. poll[p] \notin Consumed
        BY <1>0, <1>4, <2>3 DEF ResultRecv
      <3>2. CASE target[p] = "malformed"
        <4>1. /\ poll'[p] = "malformed"
              /\ \A q \in Polls \ {p} : poll'[q] = poll[q]
          BY <1>0, <2>3, <3>2 DEF ResultRecv
        <4> QED BY <1>3, <2>1, <3>1, <3>2, <4>1
      <3>3. CASE target[p] # "malformed"
        <4>1. poll'[p] = "taken" /\ \A q \in Polls \ {p} : poll'[q] = poll[q]
          BY <1>0, <2>3, <3>3 DEF ResultRecv
        <4>2. poll'[p] \notin Consumed
          BY <4>1 DEF Consumed, Answers, Outcomes
        <4> QED BY <1>1, <2>1, <3>1, <4>1, <4>2
      <3> QED BY <3>2, <3>3
    <2>4. CASE ResultLookup \/ ResultRecheck
      <3>1. UNCHANGED poll
        BY <2>4 DEF ResultLookup, ResultRecheck
      <3> QED BY <1>1, <2>1, <3>1
    <2>8. \A G \in SUBSET Goals : \A p \in Parked(G) : poll[p] \notin Consumed
      <3>1. ASSUME NEW G \in SUBSET Goals, NEW p \in Parked(G)
            PROVE  poll[p] \notin Consumed
        <4>1. p \in Polls /\ WithGoal(p)
          BY DEF Parked, WithGoal
        <4> QED BY <1>4, <4>1 DEF Placed
      <3> QED BY <3>1
    <2>9. CASE ActOnSlot
      <3> DEFINE g == target[r]
      <3>1. /\ r \in Polls /\ g \in Goals
            /\ UNCHANGED poll \/ Frees({g}, {r} \cup Parked({g}))
        BY <2>9, ActFrees
      <3>2. CASE UNCHANGED poll
        BY <1>1, <2>1, <3>2
      <3>3. CASE Frees({g}, {r} \cup Parked({g}))
        <4> DEFINE S == {r} \cup Parked({g})
        <4>1. S \in SUBSET Polls
          BY <3>1 DEF Parked
        <4>2. \A p \in S : poll[p] \notin Consumed
          BY <2>2, <2>8, <3>1
        <4>3. poll' = Drop(S)
          BY <3>3 DEF Frees
        <4> HIDE DEF S
        <4> QED BY <1>2, <2>1, <4>1, <4>2, <4>3
      <3> QED BY <3>1, <3>2, <3>3
    <2>5. CASE ResultPark
      <3>1. r \in Polls
        BY <1>0, <2>5 DEF ResultPark, ResultHolds
      <3>2. CASE UNCHANGED poll
        BY <1>1, <2>1, <3>2
      <3>3. CASE poll' = [poll EXCEPT ![r] = "dropped"]
        <4>1. poll' = Drop({r})
          BY <1>0, <3>1, <3>3 DEF Drop
        <4> QED BY <1>2, <2>1, <2>2, <3>1, <4>1
      <3> QED BY <2>5, <3>2, <3>3 DEF ResultPark
    <2>6. CASE ResultReply
      <3>1. r \in Polls /\ target[r] \in Goals /\ resultLoop.reply # None
        BY <1>0, <2>6 DEF ResultReply, ResultHolds
      <3>2. Owed(r, resultLoop.reply)
        BY <2>6 DEF ResultReply, Answered
      <3>3. resultLoop.reply \in Outcomes \cup {"Expired"}
        BY <1>0, <3>1 DEF LoopTypes
      <3>4. /\ poll'[r] = resultLoop.reply
            /\ \A q \in Polls \ {r} : poll'[q] = poll[q]
        BY <1>0, <2>6, <3>1 DEF ResultReply
      <3> HIDE DEF r
      <3> QED BY <1>3, <2>1, <2>2, <3>1, <3>2, <3>3, <3>4
    <2>7. CASE ResultStop
      <3>1. PICK G \in SUBSET Goals, Q \in SUBSET Polls :
              /\ \A p \in Q : poll[p] = "queued" \/ p = resultLoop.poll
              /\ Frees(G, Q \cup Parked(G))
        BY <2>7, StopFrees
      <3> DEFINE S == Q \cup Parked(G)
      <3>2. \A p \in S : poll[p] \notin Consumed
        BY <1>4, <2>2, <2>8, <3>1
      <3>3. S \in SUBSET Polls /\ poll' = Drop(S)
        BY <3>1 DEF Frees, Parked
      <3> HIDE DEF S
      <3> QED BY <1>2, <2>1, <3>2, <3>3
    <2> QED BY <1>9, <2>3, <2>4, <2>5, <2>6, <2>7, <2>9 DEF ResultStep
  <1>10. ASSUME CancelStep PROVE Kept
    <2>1. /\ \A h \in Goals : Unmoved(h)
          /\ UNCHANGED <<window, target, poll>>
      BY <1>10 DEF CancelStep, CancelRecv, CancelLookup, CancelSignal,
                   CancelTombstones, CancelReply, CancelStop, Unmoved
    <2>2. View' = View /\ Told' = Told /\ Unserved' = Unserved
      BY <2>1, ViewKept, ToldKept DEF Unserved
    <2>3. CASE UNCHANGED ack
      BY <2>1, <2>2, <2>3 DEF Promise!vars
    <2>4. ASSUME NEW c \in Cancels, CancelRecv(c) PROVE Kept
      <3>1. CASE target[c] = "malformed"
        <4>1. Promise!Judge(c)
          BY <1>0, <2>1, <2>2, <2>4, <3>1 DEF CancelRecv, Promise!Judge
        <4> QED BY <4>1 DEF Promise!Next
      <3>2. CASE target[c] # "malformed"
        BY <2>3, <2>4, <3>2 DEF CancelRecv
      <3> QED BY <3>1, <3>2
    <2>5. CASE CancelReply
      <3> DEFINE c == cancelLoop.cancel
                 g == target[c]
      <3>1. /\ c \in Cancels /\ g \in Goals /\ ack[c] = None
            /\ ack' = [ack EXCEPT ![c] = cancelLoop.reply]
            /\ cancelLoop.reply \in CancelStates
        BY <1>0, <2>5 DEF CancelReply, CancelHolds, Judged, LoopTypes
      <3>2. View[g] = Seen(g)
        BY <3>1, ViewIsSeen DEF ViewSeen, View
      <3>3. cancelLoop.reply = "Signalled" => View[g] # "unknown"
        <4>1. terminal[g] => outcome[g] \in Outcomes
          BY <1>0, <3>1 DEF Lifecycle
        <4>2. cancelLoop.reply = "Signalled" => slot[g] # None
          BY <2>5 DEF CancelReply, Judged
        <4> HIDE DEF g
        <4> QED BY <3>2, <4>1, <4>2 DEF Seen, Outcomes
      <3>4. cancelLoop.reply = "AlreadyTerminal" => View[g] \in Outcomes
        BY <1>0, <2>5, <3>1, <3>2 DEF CancelReply, Judged, Seen, Lifecycle
      <3>5. Promise!Judge(c)
        <4> HIDE DEF c
        <4>1. g # "malformed" /\ g # None
          BY <3>1, EngineAssumption
        <4> HIDE DEF g
        <4>2. g = target[c]
          BY DEF g
        <4> QED BY <2>1, <2>2, <3>1, <3>3, <3>4, <4>1, <4>2
                DEF Promise!Judge, Promise!Outcomes, Outcomes, CancelStates
      <3> QED BY <3>1, <3>5 DEF Promise!Next
    <2> QED BY <1>10, <2>3, <2>4, <2>5 DEF CancelStep, CancelLookup,
               CancelSignal, CancelTombstones, CancelStop
  <1>11. ASSUME SweepStep PROVE Kept
    <2>1. /\ \A h \in Goals : Unmoved(h)
          /\ UNCHANGED <<window, target, ack>>
      BY <1>11 DEF SweepStep, SweepRegistry, SweepEntomb, SweepEarly,
                   SweepStop, Unmoved
    <2>2. CASE SweepEarly
      <3>1. \A p \in overdue : poll[p] \notin Consumed
        BY <1>0, <1>4 DEF Placed
      <3> QED BY <1>0, <1>2, <2>1, <2>2, <3>1 DEF SweepEarly
    <2>3. CASE SweepRegistry \/ SweepStop \/ \E g \in Goals : SweepEntomb(g)
      <3>1. UNCHANGED poll
        BY <2>3 DEF SweepRegistry, SweepStop, SweepEntomb
      <3> QED BY <1>1, <2>1, <3>1
    <2> QED BY <1>11, <2>2, <2>3 DEF SweepStep
  <1>12. ASSUME NEW g \in Goals, CloseWindow(g) PROVE Kept
    <2>1. \A h \in Goals : Unmoved(h)
      BY <1>12 DEF CloseWindow, Unmoved
    <2>2. View' = View /\ Told' = Told
      BY <1>12, <2>1, ViewKept, ToldKept DEF CloseWindow
    <2>3. g \notin Unserved /\ Unserved' = Unserved \cup {g}
      BY <1>0, <1>12 DEF CloseWindow, Unserved
    <2>4. View[g] \in Outcomes
      <3>1. terminal[g] /\ outcome[g] \in Outcomes
        BY <1>0, <1>12 DEF CloseWindow, Lifecycle
      <3> QED BY <3>1, ViewIsSeen DEF ViewSeen, View, Seen
    <2>5. Promise!Expire(g)
      BY <1>12, <2>2, <2>3, <2>4
         DEF CloseWindow, Promise!Expire, Promise!Outcomes, Outcomes
    <2> QED BY <2>5 DEF Promise!Next
  <1>13. ASSUME (\E p \in Polls : PassDeadline(p)) \/ DropEngine \/ UNCHANGED vars
         PROVE  Kept
    <2>1. \A h \in Goals : Unmoved(h)
      BY <1>13 DEF PassDeadline, DropEngine, Unmoved
    <2> QED BY <1>1, <1>13, <2>1 DEF PassDeadline, DropEngine
  <1> QED BY <1>5, <1>7, <1>8, <1>9, <1>10, <1>11, <1>12, <1>13
          DEF Next, TimeStep

(***************************************************************************)
(* The engine implements ActionGoal: a goal ends with one outcome, every   *)
(* result request about it is answered at most once, with that outcome, or *)
(* Expired once it is no longer retained, or is closed unanswered; and a   *)
(* cancel is told the truth.                                               *)
(***************************************************************************)
THEOREM EngineKeepsPromise == Spec => KeepsPromise
  <1>1. TypeInv /\ TypeInv' /\ OwnPolls /\ Buried /\ Answered /\ Placed
          /\ Judged /\ [Next]_vars => [Promise!Next]_(Promise!vars)
    BY PromiseStep
  <1> QED BY PromiseInit, TypeInvHolds, AnswersHold, PlacedHolds, JudgedHolds,
             <1>1, PTL DEF Spec, KeepsPromise, Promise!Spec
=============================================================================
