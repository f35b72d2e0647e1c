------------------------- MODULE ServiceCallProofs -------------------------
(***************************************************************************)
(* Proofs about service calls: ServiceCall, for every set of calls and     *)
(* producers, every queue capacity and every number of queries, and the    *)
(* calls through the mock adapter (MockCalls), for all callers and         *)
(* endpoints.                                                              *)
(***************************************************************************)
EXTENDS ServiceCall, MockCalls, SequenceTheorems, TLAPS

(***************************************************************************)
(* What an endpoint holds are requests addressed to it.                    *)
(***************************************************************************)
HeldHere ==
  \A p \in Producers : \A q \in HeldBy(p) : q.kind = "request" /\ q.to = p

(* A query is at most as old as the attempts of its call, was sent to a      *)
(* producer the call may address, and a probe is older than the request.     *)
Aged(q) ==
  /\ phase[q.call] # "idle" /\ q.to \in scope[q.call]
  /\ q.try <= attempt[q.call]
  /\ q.kind = "probe" /\ phase[q.call] = "request" /\ waiting[q.call] =>
       q.try < attempt[q.call]

QueriesAged == \A q \in Pending : Aged(q)

(* What a call knows rests on what an endpoint did.                          *)
Informed(c) ==
  /\ waiting[c] => phase[c] \in Active
  /\ phase[c] = "idle" => accepted[c] = <<>>
  /\ verdict[c] # None => phase[c] = "done"
  /\ phase[c] = "discover" => pin[c] = None
  /\ phase[c] = "request" => pin[c] \in scope[c]
  /\ replies[c] # <<>> => waiting[c]
  /\ acked[c] => accepted[c] # <<>>
  /\ phase[c] = "request" /\ replies[c] # <<>> => accepted[c] # <<>>
  /\ \A i \in DOMAIN replies[c] :
       /\ replies[c][i].from \in scope[c]
       /\ replies[c][i].kind = "ack" => accepted[c] # <<>>

(* How it returned does, too.                                                *)
ToldBy(c) == verdict[c] \in {"answered", "failed"} => accepted[c] # <<>>

CallsInformed == \A c \in Calls : Informed(c) /\ ToldBy(c)

ServedAccepted ==
  \A p \in Producers : \A q \in serving[p] : accepted[q.call] # <<>>

AnswerInv ==
  TypeOK /\ HeldHere /\ QueriesAged /\ CallsInformed /\ ServedAccepted

(***************************************************************************)
(* Without broken links a request is in one place until it is taken.       *)
(***************************************************************************)
Untaken(p) == stuck[p] \cup Queued(p)

PinnedOnce(q) ==
  q.kind = "request" =>
    /\ phase[q.call] \in {"request", "done"}
    /\ phase[q.call] = "request" => waiting[q.call]
    /\ q.to = pin[q.call] /\ q.try = attempt[q.call]

OnePlace ==
  /\ \A q \in net : q.kind = "request" =>
       /\ accepted[q.call] = <<>>
       /\ \A p \in Producers : \A r \in Untaken(p) : r.call # q.call
  /\ \A p \in Producers :
       /\ \A q \in Untaken(p) : accepted[q.call] = <<>>
       /\ \A q \in stuck[p], r \in Queued(p) : q.call # r.call
       /\ \A i, j \in DOMAIN inbox[p] :
            inbox[p][i].call = inbox[p][j].call => i = j

(* A call whose request was taken has the acknowledgement, or it is on its   *)
(* way, so the attempt is not repeated.                                      *)
Settled(c) ==
  /\ phase[c] \in {"idle", "discover", "reach"} => accepted[c] = <<>>
  /\ phase[c] = "request" /\ ~waiting[c] => accepted[c] = <<>>
  /\ phase[c] = "request" /\ accepted[c] # <<>> =>
       acked[c] \/ replies[c] # <<>>
  /\ accepted[c] = <<>> \/ (accepted[c] = <<pin[c]>> /\ pin[c] \in scope[c])

OnceInv ==
  /\ severed = {} /\ OnePlace
  /\ \A q \in Pending : PinnedOnce(q)
  /\ \A c \in Calls : Settled(c)

-----------------------------------------------------------------------------
(* Types                                                                     *)

LEMMA InitType == Init => TypeOK
  BY ServiceAssumption
  DEF Init, TypeOK, CallTypes, SideTypes, Active, None

LEMMA ReplyTyped ==
  ASSUME TypeOK, NEW q \in Queries,
         NEW kind \in {"ack", "response", "error"}, Reply(q, kind)
  PROVE  replies' \in [Calls -> Seq(Replies)]
  <1> DEFINE r == [from |-> q.to, kind |-> kind]
  <1>1. r \in Replies /\ q.call \in Calls
    BY DEF Queries, Replies
  <1>2. replies[q.call] \in Seq(Replies) /\ replies \in [Calls -> Seq(Replies)]
    BY <1>1 DEF TypeOK, CallTypes
  <1>3. Append(replies[q.call], r) \in Seq(Replies)
    BY <1>1, <1>2
  <1> QED BY <1>1, <1>2, <1>3 DEF Reply

LEMMA ReturnTyped ==
  ASSUME TypeOK, NEW c \in Calls, NEW v, Return(c, v),
         v \in {"answered", "failed", "unreachable", "timeout", "reachable",
                "absent", "dropped"},
         UNCHANGED <<sideVars, queryVars, accepted>>
  PROVE  TypeOK'
  <1>1. CallTypes'
    BY DEF TypeOK, CallTypes, Return
  <1>2. SideTypes'
    BY DEF TypeOK, SideTypes, sideVars, queryVars
  <1> QED BY <1>1, <1>2 DEF TypeOK

LEMMA BeginTyped ==
  ASSUME TypeOK, NEW c \in Calls, Begins(c) PROVE TypeOK'
  <1>1. PICK to \in Active, b \in BOOLEAN, s \in SUBSET Producers,
             t \in Producers \cup {None} : Begin(c, to, b, s, t)
    BY DEF Begins, PollPinned, PollScoped, IsReachable, Scopes, Active
  <1>2. CallTypes'
    BY <1>1 DEF TypeOK, CallTypes, Begin
  <1>3. SideTypes'
    BY <1>1 DEF TypeOK, SideTypes, Begin, sideVars, queryVars
  <1> QED BY <1>2, <1>3 DEF TypeOK

LEMMA IssueTyped ==
  ASSUME TypeOK, NEW c \in Calls, Issue(c) PROVE TypeOK'
  <1>1. attempt[c] + 1 \in 1..MaxAttempts
    BY ServiceAssumption DEF TypeOK, CallTypes, Issue, AttemptsLeft
  <1>2. CallTypes'
    BY <1>1 DEF TypeOK, CallTypes, Issue
  <1>3. Targets(c) \subseteq Producers
    BY DEF TypeOK, SideTypes, Targets
  <1>4. net' \subseteq Queries
    BY <1>1, <1>3 DEF TypeOK, SideTypes, Issue, Queries
  <1>5. SideTypes'
    BY <1>4 DEF TypeOK, SideTypes, Issue, sideVars
  <1> QED BY <1>2, <1>5 DEF TypeOK

LEMMA CallTyped ==
  ASSUME TypeOK, NEW c \in Calls, CallStep(c) PROVE TypeOK'
  <1>1. CASE GiveUp(c)
    BY <1>1, ReturnTyped DEF GiveUp, Returned
  <1>2. CASE Issue(c)
    BY <1>2, IssueTyped
  <1>3. ASSUME ReadAck(c), ~DeadlinePassed(c) PROVE TypeOK'
    <2>1. replies[c] \in Seq(Replies) /\ replies[c] # <<>>
      BY <1>3 DEF TypeOK, CallTypes, ReadAck
    <2>2. Tail(replies[c]) \in Seq(Replies)
      BY <2>1
    <2>3. CallTypes'
      BY <1>3, <2>2 DEF TypeOK, CallTypes, ReadAck
    <2>4. SideTypes'
      BY <1>3 DEF TypeOK, SideTypes, ReadAck, sideVars, queryVars
    <2> QED BY <2>3, <2>4 DEF TypeOK
  <1>4. ASSUME ReadAck(c), DeadlinePassed(c) PROVE TypeOK'
    BY <1>4, ReturnTyped DEF ReadAck, Returned
  <1>5. CASE ReadPin(c)
    <2>1. replies[c] \in Seq(Replies) /\ replies[c] # <<>>
      BY <1>5 DEF TypeOK, CallTypes, ReadPin
    <2> DEFINE reply == Head(replies[c])
    <2>a. reply \in Replies
      BY <2>1
    <2> HIDE DEF reply
    <2>b. reply.from \in Producers
      BY <2>a DEF Replies
    <2>2. Head(replies[c]).from \in Producers
      BY <2>b DEF reply
    <2>3. CallTypes'
      BY <1>5, <2>2 DEF TypeOK, CallTypes, ReadPin, Active
    <2>4. SideTypes'
      BY <1>5 DEF TypeOK, SideTypes, ReadPin, sideVars, queryVars
    <2> QED BY <2>3, <2>4 DEF TypeOK
  <1>6. CASE ReadAnswer(c)
    BY <1>6, ReturnTyped DEF ReadAnswer
  <1>7. ASSUME StreamEnds(c), Retries(c) PROVE TypeOK'
    <2>1. CallTypes'
      BY <1>7 DEF TypeOK, CallTypes, StreamEnds
    <2>2. SideTypes'
      BY <1>7 DEF TypeOK, SideTypes, StreamEnds, sideVars, queryVars
    <2> QED BY <2>1, <2>2 DEF TypeOK
  <1>8. ASSUME StreamEnds(c), ~Retries(c) PROVE TypeOK'
    BY <1>8, ReturnTyped DEF StreamEnds, Returned, NoReply
  <1>9. CASE Expire(c)
    BY <1>9, ReturnTyped DEF Expire, Returned, NoReply
  <1> QED BY <1>1, <1>2, <1>3, <1>4, <1>5, <1>6, <1>7, <1>8, <1>9 DEF CallStep

LEMMA DispatchTyped ==
  ASSUME TypeOK, NEW q \in net, Dispatch(q) PROVE TypeOK'
  <1>1. q \in Queries /\ q.to \in Producers /\ q.call \in Calls
    BY DEF TypeOK, SideTypes, Queries
  <1>2. CASE DispatchProbe(q)
    <2>1. replies' \in [Calls -> Seq(Replies)]
      BY <1>1, <1>2, ReplyTyped DEF DispatchProbe
    <2>2. CallTypes'
      BY <1>2, <2>1 DEF TypeOK, CallTypes, DispatchProbe, callVars
    <2>3. SideTypes'
      BY <1>2 DEF TypeOK, SideTypes, DispatchProbe, sideVars
    <2> QED BY <2>2, <2>3 DEF TypeOK
  <1>3. CASE DispatchRequest(q)
    <2>1. Append(inbox[q.to], q) \in Seq(Queries)
      BY <1>1 DEF TypeOK, SideTypes
    <2>2. CallTypes'
      BY <1>3 DEF TypeOK, CallTypes, DispatchRequest, callVars
    <2>3. inbox' \in [Producers -> Seq(Queries)]
      BY <1>1, <1>3, <2>1 DEF TypeOK, SideTypes, DispatchRequest
    <2>a. \/ stuck' = [stuck EXCEPT ![q.to] = {q}]
          \/ stuck' = stuck
      BY <1>3 DEF DispatchRequest
    <2>b. stuck \in [Producers -> SUBSET Queries] /\ {q} \in SUBSET Queries
      BY <1>1 DEF TypeOK, SideTypes
    <2>4. stuck' \in [Producers -> SUBSET Queries]
      BY <1>1, <2>a, <2>b
    <2>5. SideTypes'
      BY <1>3, <2>3, <2>4 DEF TypeOK, SideTypes, DispatchRequest, sideVars
    <2> QED BY <2>2, <2>5 DEF TypeOK
  <1>4. CASE LoseQuery(q)
    <2>1. CallTypes'
      BY <1>4 DEF TypeOK, CallTypes, LoseQuery, callVars
    <2>2. SideTypes'
      BY <1>4 DEF TypeOK, SideTypes, LoseQuery, sideVars
    <2> QED BY <2>1, <2>2 DEF TypeOK
  <1> QED BY <1>2, <1>3, <1>4 DEF Dispatch

LEMMA HeadTyped ==
  ASSUME TypeOK, NEW p \in Producers, inbox[p] # <<>>
  PROVE  /\ Head(inbox[p]) \in Queries
         /\ Tail(inbox[p]) \in Seq(Queries)
         /\ Head(inbox[p]).call \in Calls
  <1>1. inbox[p] \in Seq(Queries)
    BY DEF TypeOK, SideTypes
  <1> DEFINE q == Head(inbox[p])
  <1>2. q \in Queries /\ Tail(inbox[p]) \in Seq(Queries)
    BY <1>1
  <1> HIDE DEF q
  <1>3. q.call \in Calls
    BY <1>2 DEF Queries
  <1> QED BY <1>2, <1>3 DEF q

LEMMA EndpointTyped ==
  ASSUME TypeOK, NEW p \in Producers, Unblock(p) \/ UserStep(p) PROVE TypeOK'
  <1>1. CASE Unblock(p)
    <2>1. PICK q \in stuck[p] : inbox' = [inbox EXCEPT ![p] = Append(@, q)]
      BY <1>1 DEF Unblock
    <2>2. Append(inbox[p], q) \in Seq(Queries)
      BY DEF TypeOK, SideTypes
    <2>3. CallTypes'
      BY <1>1 DEF TypeOK, CallTypes, Unblock, callVars
    <2>4. SideTypes'
      BY <1>1, <2>1, <2>2 DEF TypeOK, SideTypes, Unblock, sideVars
    <2> QED BY <2>3, <2>4 DEF TypeOK
  <1>2. CASE TakeRequest(p)
    <2> DEFINE q == Head(inbox[p])
    <2>1. q \in Queries /\ Tail(inbox[p]) \in Seq(Queries) /\ q.call \in Calls
      BY <1>2, HeadTyped DEF TakeRequest, CanTake
    <2>2. Reply(q, "ack")
          /\ serving' = [serving EXCEPT ![p] = @ \cup {q}]
          /\ accepted' = [accepted EXCEPT ![q.call] = Append(@, p)]
      BY <1>2 DEF TakeRequest
    <2> HIDE DEF q
    <2>3. replies' \in [Calls -> Seq(Replies)]
      BY <2>1, <2>2, ReplyTyped
    <2>4. accepted[q.call] \in Seq(Producers)
      BY <2>1 DEF TypeOK, CallTypes
    <2>5. Append(accepted[q.call], p) \in Seq(Producers)
      BY <2>4
    <2>a. accepted' \in [Calls -> Seq(Producers)]
      BY <2>1, <2>2, <2>5 DEF TypeOK, CallTypes
    <2>6. CallTypes'
      BY <1>2, <2>3, <2>a DEF TypeOK, CallTypes, TakeRequest, callVars
    <2>7. SideTypes'
      BY <1>2, <2>1, <2>2 DEF TypeOK, SideTypes, TakeRequest, sideVars
    <2> QED BY <2>6, <2>7 DEF TypeOK
  <1>3. CASE RefuseRequest(p)
    <2>1. Tail(inbox[p]) \in Seq(Queries)
      BY <1>3, HeadTyped DEF RefuseRequest, CanTake
    <2>2. CallTypes'
      BY <1>3 DEF TypeOK, CallTypes, RefuseRequest, callVars
    <2>3. SideTypes'
      BY <1>3, <2>1 DEF TypeOK, SideTypes, RefuseRequest, sideVars
    <2> QED BY <2>2, <2>3 DEF TypeOK
  <1>4. ASSUME NEW q \in serving[p], FinishRequest(p, q) PROVE TypeOK'
    <2>1. q \in Queries
      BY DEF TypeOK, SideTypes
    <2>2. replies' \in [Calls -> Seq(Replies)]
      BY <1>4, <2>1, ReplyTyped DEF FinishRequest
    <2>3. CallTypes'
      BY <1>4, <2>2 DEF TypeOK, CallTypes, FinishRequest, callVars
    <2>4. SideTypes'
      BY <1>4 DEF TypeOK, SideTypes, FinishRequest, sideVars
    <2> QED BY <2>3, <2>4 DEF TypeOK
  <1>5. ASSUME NEW q \in serving[p], DropResponder(p, q) PROVE TypeOK'
    <2>1. CallTypes'
      BY <1>5 DEF TypeOK, CallTypes, DropResponder, callVars
    <2>2. SideTypes'
      BY <1>5 DEF TypeOK, SideTypes, DropResponder, sideVars
    <2> QED BY <2>1, <2>2 DEF TypeOK
  <1> QED BY <1>1, <1>2, <1>3, <1>4, <1>5 DEF UserStep

LEMMA WorldTyped ==
  ASSUME TypeOK, NEW p \in Producers, WorldStep(p) PROVE TypeOK'
  <1>1. CallTypes'
    BY DEF TypeOK, CallTypes, WorldStep, Listen, Learn, Forget, CloseEndpoint,
           Crash, BreakLink, callVars
  <1>2. CASE BreakLink(p)
    <2>1. HeldBy(p) \subseteq Queries
      BY DEF HeldBy, Queued, TypeOK, SideTypes
    <2> QED BY <1>1, <1>2, <2>1 DEF BreakLink, TypeOK, SideTypes
  <1>3. CASE Listen(p) \/ Learn(p) \/ Forget(p)
    BY <1>1, <1>3 DEF TypeOK, SideTypes, Listen, Learn, Forget, queryVars
  <1>4. CASE CloseEndpoint(p) \/ Crash(p)
    <2>1. <<>> \in Seq(Queries)
      OBVIOUS
    <2>2. inbox' \in [Producers -> Seq(Queries)]
      BY <1>4, <2>1 DEF TypeOK, SideTypes, CloseEndpoint, Crash
    <2>3. SideTypes'
      BY <1>4, <2>2 DEF TypeOK, SideTypes, CloseEndpoint, Crash
    <2> QED BY <1>1, <2>3 DEF TypeOK
  <1> QED BY <1>2, <1>3, <1>4 DEF WorldStep

LEMMA TypeStep == ASSUME TypeOK, [Next]_vars PROVE TypeOK'
  <1>1. ASSUME NEW c \in Calls, TimeStep(c) PROVE TypeOK'
    BY <1>1
    DEF TimeStep, PassBudget, PassDiscovery, TypeOK, CallTypes, SideTypes,
        sideVars, queryVars
  <1>2. ASSUME NEW c \in Calls, DropCall(c) PROVE TypeOK'
    BY <1>2, ReturnTyped DEF DropCall
  <1>3. CASE UNCHANGED vars
    BY <1>3
    DEF vars, TypeOK, CallTypes, SideTypes, callVars, sideVars, queryVars
  <1> QED
    BY <1>1, <1>2, <1>3, BeginTyped, CallTyped, DispatchTyped, EndpointTyped,
       WorldTyped
    DEF Next

(* Every variable keeps its type: no query outlives the bound on attempts,   *)
(* and an endpoint only queues, serves or is blocked on queries.             *)
THEOREM TypeCorrect == Spec => []TypeOK
  BY InitType, TypeStep, PTL DEF Spec

-----------------------------------------------------------------------------
(* What a call is told rests on what an endpoint did                         *)

LEMMA PendingTyped ==
  ASSUME TypeOK
  PROVE  \A q \in Pending : q \in Queries /\ q.call \in Calls /\ q.to \in Producers
  <1>1. \A p \in Producers : HeldBy(p) \subseteq Queries
    BY DEF TypeOK, SideTypes, HeldBy, Queued
  <1>2. Pending \subseteq Queries
    BY <1>1 DEF TypeOK, SideTypes, Pending
  <1> QED BY <1>2 DEF Queries

LEMMA QuietQueries ==
  ASSUME UNCHANGED queryVars
  PROVE  /\ Pending' = Pending
         /\ \A p : HeldBy(p)' = HeldBy(p) /\ Queued(p)' = Queued(p)
  BY DEF queryVars, Pending, HeldBy, Queued

LEMMA InitAnswer == Init => AnswerInv
  <1> SUFFICES ASSUME Init PROVE AnswerInv
    OBVIOUS
  <1>1. \A p \in Producers : HeldBy(p) = {}
    BY DEF Init, HeldBy, Queued
  <1>2. Pending = {}
    BY <1>1 DEF Init, Pending
  <1>3. CallsInformed
    BY DEF Init, CallsInformed, Informed, ToldBy, Active, None
  <1>4. ServedAccepted
    BY DEF Init, ServedAccepted
  <1> QED BY <1>1, <1>2, <1>3, <1>4, InitType
          DEF AnswerInv, HeldHere, QueriesAged

(* A step of one call leaves the other calls and the endpoints alone.        *)
LEMMA CallerAnswers ==
  ASSUME AnswerInv, TypeOK', NEW c \in Calls,
         \A d \in Calls \ {c} :
           /\ phase'[d] = phase[d] /\ scope'[d] = scope[d] /\ pin'[d] = pin[d]
           /\ attempt'[d] = attempt[d] /\ waiting'[d] = waiting[d]
           /\ acked'[d] = acked[d] /\ replies'[d] = replies[d]
           /\ verdict'[d] = verdict[d] /\ spent'[d] = spent[d],
         UNCHANGED <<inbox, stuck, serving, accepted>>,
         \A q \in Pending' : (q \in Pending /\ q.call # c) \/ Aged(q)',
         Informed(c)', ToldBy(c)'
  PROVE  AnswerInv'
  <1> USE DEF AnswerInv
  <1>1. HeldHere'
    BY DEF HeldHere, HeldBy, Queued
  <1>2. QueriesAged'
    BY PendingTyped DEF QueriesAged, Aged
  <1>3. CallsInformed'
    BY DEF CallsInformed, Informed, ToldBy
  <1>4. ServedAccepted'
    BY DEF ServedAccepted
  <1> QED BY <1>1, <1>2, <1>3, <1>4

LEMMA ReturnAnswers ==
  ASSUME AnswerInv, TypeOK', NEW c \in Calls, phase[c] \in Active,
         NEW v, Return(c, v),
         v \in {"answered", "failed", "timeout"} => accepted[c] # <<>>,
         UNCHANGED <<sideVars, queryVars, accepted>>
  PROVE  AnswerInv'
  <1> USE DEF AnswerInv
  <1>1. /\ phase' = [phase EXCEPT ![c] = "done"]
        /\ verdict' = [verdict EXCEPT ![c] = v]
        /\ waiting' = [waiting EXCEPT ![c] = FALSE]
        /\ acked' = [acked EXCEPT ![c] = FALSE]
        /\ replies' = [replies EXCEPT ![c] = <<>>]
        /\ UNCHANGED <<scope, spent, pin, attempt, accepted>>
        /\ UNCHANGED queryVars
    BY DEF Return
  <1>2. Informed(c)' /\ ToldBy(c)'
    BY <1>1 DEF Informed, ToldBy, TypeOK, CallTypes
  <1>3. \A q \in Pending' : (q \in Pending /\ q.call # c) \/ Aged(q)'
    BY <1>1, QuietQueries, PendingTyped
    DEF QueriesAged, Aged, TypeOK, CallTypes
  <1>4. \A d \in Calls \ {c} :
          /\ phase'[d] = phase[d] /\ scope'[d] = scope[d] /\ pin'[d] = pin[d]
          /\ attempt'[d] = attempt[d] /\ waiting'[d] = waiting[d]
          /\ acked'[d] = acked[d] /\ replies'[d] = replies[d]
          /\ verdict'[d] = verdict[d] /\ spent'[d] = spent[d]
    BY <1>1 DEF TypeOK, CallTypes
  <1> QED BY <1>1, <1>2, <1>3, <1>4, CallerAnswers DEF queryVars

LEMMA BeginAnswers ==
  ASSUME AnswerInv, TypeOK', NEW c \in Calls, Begins(c) PROVE AnswerInv'
  <1> USE DEF AnswerInv
  <1>1. PICK to \in Active, b \in BOOLEAN, s \in SUBSET Producers,
             t \in Producers \cup {None} :
               /\ Begin(c, to, b, s, t)
               /\ to = "request" => t \in s
               /\ to = "discover" => t = None
    BY DEF Begins, PollPinned, PollScoped, IsReachable, Scopes, Active
  <1>2. phase[c] = "idle" /\ accepted[c] = <<>> /\ replies[c] = <<>>
        /\ ~waiting[c] /\ ~acked[c] /\ verdict[c] = None
    BY <1>1 DEF Begin, CallsInformed, Informed, Active, TypeOK, CallTypes
  <1>3. Informed(c)' /\ ToldBy(c)'
    BY <1>1, <1>2 DEF Begin, Informed, ToldBy, TypeOK, CallTypes, None
  <1>4. \A q \in Pending' : q \in Pending /\ q.call # c
    BY <1>1, <1>2, QuietQueries DEF Begin, QueriesAged, Aged
  <1>5. \A d \in Calls \ {c} :
          /\ phase'[d] = phase[d] /\ scope'[d] = scope[d] /\ pin'[d] = pin[d]
          /\ attempt'[d] = attempt[d] /\ waiting'[d] = waiting[d]
          /\ acked'[d] = acked[d] /\ replies'[d] = replies[d]
          /\ verdict'[d] = verdict[d] /\ spent'[d] = spent[d]
    BY <1>1 DEF Begin, TypeOK, CallTypes
  <1> QED BY <1>1, <1>3, <1>4, <1>5, CallerAnswers DEF Begin, queryVars

LEMMA IssueAnswers ==
  ASSUME AnswerInv, TypeOK', NEW c \in Calls, Issue(c) PROVE AnswerInv'
  <1> USE DEF AnswerInv
  <1>1. phase[c] \in Active /\ ~waiting[c] /\ replies[c] = <<>>
    BY DEF Issue, CallsInformed, Informed
  <1>2. Informed(c)' /\ ToldBy(c)'
    BY <1>1 DEF Issue, CallsInformed, Informed, ToldBy, TypeOK, CallTypes
  <1>3. \A q \in Pending' : (q \in Pending /\ q.call # c) \/ Aged(q)'
    <2>1. SUFFICES ASSUME NEW q \in Pending', q \notin Pending \/ q.call = c
          PROVE Aged(q)'
      OBVIOUS
    <2>2. CASE q \in Pending
      BY <2>1, <2>2, PendingTyped
      DEF Issue, QueriesAged, Aged, Queries, TypeOK, CallTypes
    <2>3. CASE q \notin Pending
      <3>1. q \in net'
        BY <2>3 DEF Issue, Pending, HeldBy, Queued
      <3>2. PICK p \in Targets(c) :
              q = [call |-> c, try |-> attempt[c] + 1, to |-> p,
                   kind |-> IF phase[c] = "request" THEN "request" ELSE "probe"]
        BY <2>3, <3>1 DEF Issue, Pending
      <3>3. p \in scope[c]
        BY <1>1 DEF Targets, CallsInformed, Informed
      <3>4. attempt'[c] = attempt[c] + 1 /\ phase' = phase /\ scope' = scope
        BY DEF Issue, TypeOK, CallTypes
      <3> QED BY <1>1, <3>2, <3>3, <3>4 DEF Aged, Active, TypeOK, CallTypes
    <2> QED BY <2>2, <2>3
  <1>4. \A d \in Calls \ {c} :
          /\ phase'[d] = phase[d] /\ scope'[d] = scope[d] /\ pin'[d] = pin[d]
          /\ attempt'[d] = attempt[d] /\ waiting'[d] = waiting[d]
          /\ acked'[d] = acked[d] /\ replies'[d] = replies[d]
          /\ verdict'[d] = verdict[d] /\ spent'[d] = spent[d]
    BY DEF Issue, TypeOK, CallTypes
  <1> QED BY <1>2, <1>3, <1>4, CallerAnswers DEF Issue

LEMMA ReadAckAnswers ==
  ASSUME AnswerInv, TypeOK', NEW c \in Calls, ReadAck(c) PROVE AnswerInv'
  <1> USE DEF AnswerInv
  <1>1. replies[c] \in Seq(Replies) /\ replies[c] # <<>>
    BY DEF ReadAck, TypeOK, CallTypes
  <1>2. accepted[c] # <<>>
    BY <1>1 DEF ReadAck, CallsInformed, Informed
  <1>3. phase[c] \in Active
    BY DEF ReadAck, CallsInformed, Informed
  <1>4. CASE DeadlinePassed(c)
    BY <1>2, <1>3, <1>4, ReturnAnswers DEF ReadAck
  <1>5. CASE ~DeadlinePassed(c)
    <2>1. /\ acked' = [acked EXCEPT ![c] = TRUE]
          /\ replies' = [replies EXCEPT ![c] = Tail(replies[c])]
          /\ UNCHANGED <<phase, scope, bounded, capped, spent, pin, attempt,
                         waiting, verdict, accepted>>
          /\ UNCHANGED queryVars
      BY <1>5 DEF ReadAck
    <2>2. \A i \in DOMAIN Tail(replies[c]) :
            i + 1 \in DOMAIN replies[c] /\ Tail(replies[c])[i] = replies[c][i + 1]
      BY <1>1
    <2>3. replies'[c] = Tail(replies[c])
      BY <2>1 DEF TypeOK, CallTypes
    <2>4. \A i \in DOMAIN replies'[c] :
            replies'[c][i].from \in scope[c]
      BY <2>2, <2>3 DEF CallsInformed, Informed
    <2>5. Informed(c)' /\ ToldBy(c)'
      BY <1>2, <2>1, <2>3, <2>4
      DEF ReadAck, CallsInformed, Informed, ToldBy, TypeOK, CallTypes
    <2>6. \A q \in Pending' : Aged(q)'
      BY <2>1, QuietQueries DEF QueriesAged, Aged
    <2>7. \A d \in Calls \ {c} :
            acked'[d] = acked[d] /\ replies'[d] = replies[d]
      BY <2>1 DEF TypeOK, CallTypes
    <2> QED BY <2>1, <2>5, <2>6, <2>7, CallerAnswers DEF queryVars
  <1> QED BY <1>4, <1>5

LEMMA ReadPinAnswers ==
  ASSUME AnswerInv, TypeOK', NEW c \in Calls, ReadPin(c) PROVE AnswerInv'
  <1> USE DEF AnswerInv
  <1>1. replies[c] \in Seq(Replies) /\ replies[c] # <<>>
    BY DEF ReadPin, TypeOK, CallTypes
  <1>2. Head(replies[c]).from \in scope[c]
    BY <1>1 DEF CallsInformed, Informed
  <1>3. /\ pin'[c] = Head(replies[c]).from
        /\ phase'[c] = IF spent[c] THEN "done" ELSE "request"
        /\ verdict'[c] = IF spent[c] THEN "timeout" ELSE None
        /\ ~waiting'[c] /\ ~acked'[c] /\ replies'[c] = <<>>
        /\ UNCHANGED <<scope, spent, attempt, accepted>> /\ UNCHANGED queryVars
    BY DEF ReadPin, TypeOK, CallTypes
  <1>4. Informed(c)'
    BY <1>2, <1>3 DEF Informed, None
  <1>5. ToldBy(c)'
    BY <1>3 DEF ToldBy, None
  <1>6. \A q \in Pending' : (q \in Pending /\ q.call # c) \/ Aged(q)'
    BY <1>3, QuietQueries DEF QueriesAged, Aged
  <1>7. \A d \in Calls \ {c} :
          /\ phase'[d] = phase[d] /\ pin'[d] = pin[d] /\ verdict'[d] = verdict[d]
          /\ waiting'[d] = waiting[d] /\ acked'[d] = acked[d]
          /\ replies'[d] = replies[d]
    BY DEF ReadPin, TypeOK, CallTypes
  <1> QED BY <1>3, <1>4, <1>5, <1>6, <1>7, CallerAnswers DEF queryVars

LEMMA StreamEndsAnswers ==
  ASSUME AnswerInv, TypeOK', NEW c \in Calls, StreamEnds(c) PROVE AnswerInv'
  <1> USE DEF AnswerInv
  <1>1. phase[c] \in Active /\ (acked[c] => accepted[c] # <<>>)
    BY DEF StreamEnds, CallsInformed, Informed
  <1>2. CASE ~Retries(c)
    BY <1>1, <1>2, ReturnAnswers DEF StreamEnds, Returned, NoReply
  <1>3. CASE Retries(c)
    <2>1. /\ waiting' = [waiting EXCEPT ![c] = FALSE]
          /\ UNCHANGED <<phase, scope, bounded, capped, spent, pin, attempt,
                         acked, verdict, replies, accepted>>
          /\ UNCHANGED queryVars
      BY <1>3 DEF StreamEnds
    <2>2. Informed(c)' /\ ToldBy(c)'
      BY <2>1 DEF StreamEnds, CallsInformed, Informed, ToldBy, TypeOK, CallTypes
    <2>3. \A q \in Pending' : (q \in Pending /\ q.call # c) \/ Aged(q)'
      BY <2>1, QuietQueries DEF QueriesAged, Aged, TypeOK, CallTypes
    <2>4. \A d \in Calls \ {c} : waiting'[d] = waiting[d]
      BY <2>1 DEF TypeOK, CallTypes
    <2> QED BY <2>1, <2>2, <2>3, <2>4, CallerAnswers DEF queryVars
  <1> QED BY <1>2, <1>3

LEMMA CallAnswers ==
  ASSUME AnswerInv, TypeOK', NEW c \in Calls,
         CallStep(c) \/ TimeStep(c) \/ DropCall(c)
  PROVE  AnswerInv'
  <1> USE DEF AnswerInv
  <1>1. waiting[c] => /\ phase[c] \in Active
                      /\ acked[c] => accepted[c] # <<>>
    BY DEF CallsInformed, Informed
  <1>2. CASE GiveUp(c)
    BY <1>2, ReturnAnswers DEF GiveUp, Returned
  <1>3. CASE ReadAnswer(c)
    <2>1. replies[c] # <<>> /\ phase[c] \in Active
      BY <1>3 DEF ReadAnswer, Active
    <2>2. phase[c] = "request" => accepted[c] # <<>>
      BY <2>1 DEF CallsInformed, Informed
    <2> QED BY <1>3, <2>1, <2>2, ReturnAnswers DEF ReadAnswer
  <1>4. CASE Expire(c)
    BY <1>1, <1>4, ReturnAnswers DEF Expire, Returned, NoReply
  <1>5. CASE DropCall(c)
    BY <1>5, ReturnAnswers DEF DropCall
  <1>6. CASE TimeStep(c)
    <2>1. /\ UNCHANGED <<phase, scope, pin, attempt, waiting, acked, replies,
                         verdict, accepted>>
          /\ UNCHANGED queryVars
          /\ \A d \in Calls : spent[d] => spent'[d]
          /\ \A d \in Calls \ {c} : spent'[d] = spent[d]
      BY <1>6 DEF TimeStep, PassBudget, PassDiscovery, TypeOK, CallTypes
    <2>2. Informed(c)' /\ ToldBy(c)'
      BY <2>1 DEF CallsInformed, Informed, ToldBy
    <2>3. \A q \in Pending' : (q \in Pending /\ q.call # c) \/ Aged(q)'
      BY <2>1, QuietQueries DEF QueriesAged, Aged
    <2> QED BY <2>1, <2>2, <2>3, CallerAnswers DEF queryVars
  <1> QED
    BY <1>2, <1>3, <1>4, <1>5, <1>6, IssueAnswers, ReadAckAnswers,
       ReadPinAnswers, StreamEndsAnswers
    DEF CallStep

(* An endpoint's step leaves the calls alone, but for one reply to a query   *)
(* it held.                                                                  *)
LEMMA ReplyInforms ==
  ASSUME AnswerInv, UNCHANGED callVars, NEW q \in Pending,
         NEW kind \in {"ack", "response", "error"}, Reply(q, kind),
         \A c \in Calls : \/ accepted'[c] = accepted[c]
                          \/ phase[c] # "idle" /\ accepted'[c] # <<>>,
         kind = "ack" \/ q.kind = "request" => accepted'[q.call] # <<>>
  PROVE  CallsInformed'
  <1> USE DEF AnswerInv
  <1> DEFINE r == [from |-> q.to, kind |-> kind]
  <1>1. q \in Queries /\ q.call \in Calls /\ q.to \in scope[q.call] /\ Aged(q)
    BY PendingTyped DEF QueriesAged, Aged
  <1>2. /\ UNCHANGED <<phase, scope, pin, attempt, waiting, acked, verdict, spent>>
    BY DEF callVars
  <1> SUFFICES ASSUME NEW c \in Calls PROVE Informed(c)' /\ ToldBy(c)'
    BY DEF CallsInformed
  <1>3. Informed(c) /\ ToldBy(c)
    BY DEF CallsInformed
  <1>4. accepted[c] # <<>> => accepted'[c] # <<>>
    OBVIOUS
  <1>5. CASE Heard(q) /\ c = q.call
    <2>1. replies[c] \in Seq(Replies) /\ r \in Replies
      BY <1>1 DEF TypeOK, CallTypes, Queries, Replies
    <2>2. replies'[c] = Append(replies[c], r)
      BY <1>5, <2>1 DEF Reply, TypeOK, CallTypes
    <2>3. waiting[c] /\ q.try = attempt[c]
      BY <1>5 DEF Heard
    <2>4. phase[c] = "request" => q.kind = "request"
      BY <1>1, <1>5, <2>3 DEF Aged, Queries, TypeOK, CallTypes
    <2>5. \A i \in DOMAIN replies'[c] :
            \/ i \in DOMAIN replies[c] /\ replies'[c][i] = replies[c][i]
            \/ replies'[c][i] = r
      BY <2>1, <2>2
    <2>6. r.from \in scope[c] /\ (r.kind = "ack" => accepted'[c] # <<>>)
      BY <1>1, <1>5
    <2> HIDE DEF r
    <2> QED BY <1>2, <1>3, <1>4, <1>5, <2>3, <2>4, <2>5, <2>6
            DEF Informed, ToldBy
  <1>6. CASE ~(Heard(q) /\ c = q.call)
    <2>1. replies'[c] = replies[c]
      BY <1>1, <1>6 DEF Reply, TypeOK, CallTypes
    <2> QED BY <1>2, <1>3, <1>4, <2>1 DEF Informed, ToldBy
  <1> QED BY <1>5, <1>6

LEMMA EndpointAnswers ==
  ASSUME AnswerInv, TypeOK', UNCHANGED callVars, Pending' \subseteq Pending,
         HeldHere', ServedAccepted', CallsInformed'
  PROVE  AnswerInv'
  BY DEF AnswerInv, QueriesAged, Aged, callVars

LEMMA QuietInforms ==
  ASSUME AnswerInv, UNCHANGED <<callVars, replies, accepted>>
  PROVE  CallsInformed'
  BY DEF AnswerInv, CallsInformed, Informed, ToldBy, callVars

LEMMA AppendQueued ==
  ASSUME TypeOK, NEW p \in Producers, NEW q \in Queries,
         inbox'[p] = Append(inbox[p], q)
  PROVE  Queued(p)' = Queued(p) \cup {q}
  <1> DEFINE s == inbox[p]
             t == inbox'[p]
  <1>1. s \in Seq(Queries) /\ t = Append(s, q)
    BY DEF TypeOK, SideTypes
  <1> HIDE DEF s, t
  <1>2. \A i \in DOMAIN s : i \in DOMAIN t /\ t[i] = s[i]
    BY <1>1
  <1>3. \A i \in DOMAIN t : t[i] = q \/ (i \in DOMAIN s /\ t[i] = s[i])
    BY <1>1
  <1>4. Len(s) + 1 \in DOMAIN t /\ t[Len(s) + 1] = q
    BY <1>1
  <1>5. {t[i] : i \in DOMAIN t} = {s[i] : i \in DOMAIN s} \cup {q}
    BY <1>2, <1>3, <1>4
  <1> QED BY <1>5 DEF Queued, s, t

LEMMA TailQueued ==
  ASSUME TypeOK, NEW p \in Producers, inbox[p] # <<>>,
         inbox'[p] = Tail(inbox[p])
  PROVE  Queued(p)' \subseteq Queued(p)
  <1> DEFINE s == inbox[p]
             t == inbox'[p]
  <1>1. s \in Seq(Queries) /\ s # <<>> /\ t = Tail(s)
    BY DEF TypeOK, SideTypes
  <1> HIDE DEF s, t
  <1>2. \A i \in DOMAIN t : i + 1 \in DOMAIN s /\ t[i] = s[i + 1]
    BY <1>1
  <1>3. {t[i] : i \in DOMAIN t} \subseteq {s[i] : i \in DOMAIN s}
    BY <1>2
  <1> QED BY <1>3 DEF Queued, s, t

LEMMA HeadQueued ==
  ASSUME TypeOK, NEW p \in Producers, inbox[p] # <<>>
  PROVE  Head(inbox[p]) \in Queued(p)
  <1>1. inbox[p] \in Seq(Queries)
    BY DEF TypeOK, SideTypes
  <1>2. 1 \in DOMAIN inbox[p] /\ Head(inbox[p]) = inbox[p][1]
    BY <1>1
  <1> QED BY <1>2 DEF Queued

(* Where the queries of an endpoint are after each of its steps.             *)
LEMMA DispatchHolds ==
  ASSUME TypeOK, NEW q \in net, DispatchRequest(q)
  PROVE  /\ \A p \in Producers : HeldBy(p)' \subseteq
              HeldBy(p) \cup (IF p = q.to THEN {q} ELSE {})
         /\ Pending' \subseteq Pending
  <1>1. q \in Queries /\ q.to \in Producers
    BY DEF TypeOK, SideTypes, Queries
  <1>2. inbox[q.to] \in Seq(Queries)
    BY <1>1 DEF TypeOK, SideTypes
  <1>3. \A p \in Producers : HeldBy(p)' \subseteq
          HeldBy(p) \cup (IF p = q.to THEN {q} ELSE {})
    <2> TAKE p \in Producers
    <2>1. CASE p # q.to
      BY <2>1 DEF DispatchRequest, HeldBy, Queued, TypeOK, SideTypes
    <2>2. ASSUME p = q.to, Room(p) PROVE HeldBy(p)' \subseteq HeldBy(p) \cup {q}
      <3>1. inbox'[p] = Append(inbox[p], q)
        BY <2>2 DEF DispatchRequest, TypeOK, SideTypes
      <3>2. Queued(p)' = Queued(p) \cup {q}
        BY <1>1, <3>1, AppendQueued
      <3> QED BY <2>2, <3>2 DEF DispatchRequest, HeldBy
    <2>3. ASSUME p = q.to, ~Room(p) PROVE HeldBy(p)' \subseteq HeldBy(p) \cup {q}
      BY <2>3 DEF DispatchRequest, HeldBy, Queued, TypeOK, SideTypes
    <2> QED BY <2>1, <2>2, <2>3
  <1>4. net' \subseteq net
    BY DEF DispatchRequest
  <1> QED BY <1>3, <1>4 DEF Pending

LEMMA UnblockHolds ==
  ASSUME TypeOK, NEW p \in Producers, Unblock(p)
  PROVE  /\ \A r \in Producers : HeldBy(r)' \subseteq HeldBy(r)
         /\ Pending' \subseteq Pending
  <1>1. PICK q \in stuck[p] : inbox' = [inbox EXCEPT ![p] = Append(@, q)]
    BY DEF Unblock
  <1>2. q \in Queries /\ inbox[p] \in Seq(Queries)
    BY DEF TypeOK, SideTypes
  <1>3. Queued(p)' = Queued(p) \cup {q}
    <2>1. inbox'[p] = Append(inbox[p], q)
      BY <1>1 DEF TypeOK, SideTypes
    <2> QED BY <1>2, <2>1, AppendQueued
  <1>4. \A r \in Producers : HeldBy(r)' \subseteq HeldBy(r)
    BY <1>1, <1>3 DEF Unblock, HeldBy, Queued, TypeOK, SideTypes
  <1> QED BY <1>4 DEF Unblock, Pending

LEMMA TakeHolds ==
  ASSUME TypeOK, NEW p \in Producers, inbox[p] # <<>>,
         inbox' = [inbox EXCEPT ![p] = Tail(@)], UNCHANGED <<net, stuck>>,
         \/ serving' = serving
         \/ serving' = [serving EXCEPT ![p] = @ \cup {Head(inbox[p])}]
  PROVE  /\ \A r \in Producers : HeldBy(r)' \subseteq HeldBy(r)
         /\ Pending' \subseteq Pending
  <1>1. inbox'[p] = Tail(inbox[p])
    BY DEF TypeOK, SideTypes
  <1>2. Queued(p)' \subseteq Queued(p) /\ Head(inbox[p]) \in Queued(p)
    BY <1>1, TailQueued, HeadQueued
  <1>3. \A r \in Producers : HeldBy(r)' \subseteq HeldBy(r)
    BY <1>2 DEF HeldBy, Queued, TypeOK, SideTypes
  <1> QED BY <1>3 DEF Pending

LEMMA DispatchAnswers ==
  ASSUME AnswerInv, TypeOK', NEW q \in net, Dispatch(q) PROVE AnswerInv'
  <1> USE DEF AnswerInv
  <1>1. UNCHANGED <<callVars, accepted, serving>>
    BY DEF Dispatch, DispatchProbe, DispatchRequest, LoseQuery
  <1>2. ServedAccepted'
    BY <1>1 DEF ServedAccepted
  <1>3. CASE DispatchProbe(q)
    <2>1. HeldHere' /\ Pending' \subseteq Pending
      BY <1>3 DEF DispatchProbe, HeldHere, HeldBy, Queued, Pending
    <2>2. q \in Pending
      BY DEF Pending
    <2>3. CallsInformed'
      <3>1. Reply(q, "response") /\ accepted' = accepted /\ q.kind = "probe"
        BY <1>1, <1>3 DEF DispatchProbe
      <3> QED BY <1>1, <2>2, <3>1, ReplyInforms
    <2> QED BY <1>1, <1>2, <2>1, <2>3, EndpointAnswers
  <1>4. CASE DispatchRequest(q)
    <2>1. HeldHere'
      BY <1>4, DispatchHolds DEF HeldHere, DispatchRequest
    <2>2. CallsInformed'
      BY <1>1, <1>4, QuietInforms DEF DispatchRequest
    <2> QED BY <1>1, <1>2, <1>4, <2>1, <2>2, DispatchHolds, EndpointAnswers
  <1>5. CASE LoseQuery(q)
    <2>1. HeldHere' /\ Pending' \subseteq Pending
      BY <1>5 DEF LoseQuery, HeldHere, HeldBy, Queued, Pending
    <2>2. CallsInformed'
      BY <1>1, <1>5, QuietInforms DEF LoseQuery
    <2> QED BY <1>1, <1>2, <2>1, <2>2, EndpointAnswers
  <1> QED BY <1>3, <1>4, <1>5 DEF Dispatch

LEMMA TakeAnswers ==
  ASSUME AnswerInv, TypeOK', NEW p \in Producers, TakeRequest(p)
  PROVE  AnswerInv'
  <1> USE DEF AnswerInv
  <1> DEFINE q == Head(inbox[p])
  <1>1. /\ inbox[p] # <<>> /\ Reply(q, "ack")
        /\ serving' = [serving EXCEPT ![p] = @ \cup {q}]
        /\ accepted' = [accepted EXCEPT ![q.call] = Append(@, p)]
        /\ UNCHANGED callVars
    BY DEF TakeRequest, CanTake
  <1>2. /\ \A r \in Producers : HeldBy(r)' \subseteq HeldBy(r)
        /\ Pending' \subseteq Pending
    BY <1>1, TakeHolds DEF TakeRequest
  <1>3. q \in Pending /\ q.call \in Calls
    BY <1>1, HeadQueued, PendingTyped DEF Pending, HeldBy
  <1> HIDE DEF q
  <1>4. \A c \in Calls : c # q.call => accepted'[c] = accepted[c]
    BY <1>1, <1>3 DEF TypeOK, CallTypes
  <1>5. accepted'[q.call] # <<>>
    <2>1. accepted[q.call] \in Seq(Producers)
      BY <1>3 DEF TypeOK, CallTypes
    <2>2. accepted'[q.call] = Append(accepted[q.call], p)
      BY <1>1, <1>3 DEF TypeOK, CallTypes
    <2> QED BY <2>1, <2>2
  <1>6. phase[q.call] # "idle"
    BY <1>3 DEF QueriesAged, Aged
  <1>7. CallsInformed'
    BY <1>1, <1>3, <1>4, <1>5, <1>6, ReplyInforms
  <1>8. ServedAccepted'
    <2>1. \A r \in Producers : \A s \in serving[r] : s.call \in Calls
      BY DEF TypeOK, SideTypes, Queries
    <2> QED BY <1>1, <1>3, <1>4, <1>5, <2>1
            DEF ServedAccepted, TypeOK, SideTypes
  <1>9. HeldHere'
    BY <1>2 DEF HeldHere
  <1> QED BY <1>1, <1>2, <1>7, <1>8, <1>9, EndpointAnswers

LEMMA UserAnswers ==
  ASSUME AnswerInv, TypeOK', NEW p \in Producers, Unblock(p) \/ UserStep(p)
  PROVE  AnswerInv'
  <1> USE DEF AnswerInv
  <1>1. CASE Unblock(p)
    <2>1. HeldHere' /\ Pending' \subseteq Pending
      BY <1>1, UnblockHolds DEF HeldHere
    <2>2. ServedAccepted' /\ CallsInformed' /\ UNCHANGED callVars
      BY <1>1, QuietInforms DEF Unblock, ServedAccepted
    <2> QED BY <2>1, <2>2, EndpointAnswers
  <1>2. CASE RefuseRequest(p)
    <2>1. HeldHere' /\ Pending' \subseteq Pending
      BY <1>2, TakeHolds DEF HeldHere, RefuseRequest, CanTake
    <2>2. ServedAccepted' /\ CallsInformed' /\ UNCHANGED callVars
      BY <1>2, QuietInforms DEF RefuseRequest, ServedAccepted
    <2> QED BY <2>1, <2>2, EndpointAnswers
  <1>3. ASSUME NEW q \in serving[p],
               FinishRequest(p, q) \/ DropResponder(p, q)
        PROVE  AnswerInv'
    <2>1. /\ serving' = [serving EXCEPT ![p] = @ \ {q}]
          /\ UNCHANGED <<callVars, net, inbox, stuck, accepted>>
      BY <1>3 DEF FinishRequest, DropResponder
    <2>2. HeldHere' /\ Pending' \subseteq Pending
      BY <2>1 DEF HeldHere, HeldBy, Queued, Pending, TypeOK, SideTypes
    <2>3. ServedAccepted'
      BY <2>1 DEF ServedAccepted, TypeOK, SideTypes
    <2>4. CallsInformed'
      <3>1. CASE FinishRequest(p, q)
        <4>1. PICK kind \in {"response", "error"} : Reply(q, kind)
          BY <3>1 DEF FinishRequest
        <4>2. q \in Pending
          BY DEF Pending, HeldBy
        <4>3. accepted'[q.call] # <<>>
          BY <2>1 DEF ServedAccepted
        <4> QED BY <2>1, <4>1, <4>2, <4>3, ReplyInforms
      <3>2. CASE DropResponder(p, q)
        BY <3>2, QuietInforms DEF DropResponder
      <3> QED BY <1>3, <3>1, <3>2
    <2> QED BY <2>1, <2>2, <2>3, <2>4, EndpointAnswers
  <1> QED BY <1>1, <1>2, <1>3, TakeAnswers DEF UserStep

LEMMA WorldHolds ==
  ASSUME TypeOK, NEW p \in Producers, WorldStep(p)
  PROVE  /\ \A r \in Producers : HeldBy(r)' \subseteq HeldBy(r)
                              /\ serving'[r] \subseteq serving[r]
         /\ Pending' \subseteq Pending
         /\ UNCHANGED <<callVars, replies, accepted>>
  <1>1. UNCHANGED <<callVars, replies, accepted>> /\ net' \subseteq net
    BY DEF WorldStep, Listen, Learn, Forget, CloseEndpoint, Crash, BreakLink,
           queryVars
  <1>2. \A r \in Producers : /\ stuck'[r] \subseteq stuck[r]
                             /\ serving'[r] \subseteq serving[r]
                             /\ inbox'[r] = inbox[r] \/ inbox'[r] = <<>>
    BY DEF WorldStep, Listen, Learn, Forget, CloseEndpoint, Crash, BreakLink,
           queryVars, TypeOK, SideTypes
  <1>3. \A r \in Producers : HeldBy(r)' \subseteq HeldBy(r)
    BY <1>2 DEF HeldBy, Queued
  <1> QED BY <1>1, <1>2, <1>3 DEF Pending

LEMMA AnswerStep == ASSUME AnswerInv, [Next]_vars PROVE AnswerInv'
  <1>1. TypeOK'
    BY TypeStep DEF AnswerInv
  <1>2. ASSUME NEW p \in Producers, WorldStep(p) PROVE AnswerInv'
    <2>1. TypeOK /\ HeldHere /\ ServedAccepted
      BY DEF AnswerInv
    <2>2. HeldHere' /\ ServedAccepted'
      BY <1>2, <2>1, WorldHolds DEF HeldHere, ServedAccepted
    <2>3. CallsInformed'
      BY <1>2, <2>1, WorldHolds, QuietInforms
    <2> QED BY <1>1, <1>2, <2>1, <2>2, <2>3, WorldHolds, EndpointAnswers
  <1>3. CASE UNCHANGED vars
    <2>1. TypeOK /\ HeldHere /\ ServedAccepted
      BY DEF AnswerInv
    <2>2. UNCHANGED <<callVars, replies, accepted, serving>> /\ UNCHANGED queryVars
      BY <1>3 DEF vars, queryVars
    <2>3. HeldHere' /\ ServedAccepted' /\ Pending' \subseteq Pending
      BY <2>1, <2>2, QuietQueries DEF HeldHere, ServedAccepted
    <2> QED BY <1>1, <2>2, <2>3, QuietInforms, EndpointAnswers
  <1> QED
    BY <1>1, <1>2, <1>3, BeginAnswers, CallAnswers, DispatchAnswers, UserAnswers
    DEF Next

LEMMA AnswerInvHolds == Spec => []AnswerInv
  BY InitAnswer, AnswerStep, PTL DEF Spec

(* Whatever producers and links do, a call is answered or failed by a        *)
(* handler only after an endpoint took its request: the late answer of       *)
(* another producer to a discovery probe never passes for it.                *)
THEOREM AnswerCorrect == Spec => []AnswerIsMine
  <1>1. AnswerInv => AnswerIsMine
    BY DEF AnswerInv, CallsInformed, ToldBy, AnswerIsMine
  <1> QED BY <1>1, AnswerInvHolds, PTL

(* The steps at which a call times out, and what they rest on.               *)
LEMMA TimeoutStep ==
  ASSUME AnswerInv, TypeOK', [Next]_vars, NEW c \in Calls,
         verdict[c] = None, verdict'[c] = "timeout"
  PROVE  \/ accepted[c] # <<>>
         \/ pin[c] = None /\ pin'[c] # None /\ spent[c]
  <1>1. TypeOK /\ Informed(c)
    BY DEF AnswerInv, CallsInformed
  <1>2. CASE ReadPin(c)
    <2>1. pin[c] = None
      BY <1>1, <1>2 DEF ReadPin, Informed
    <2>2. spent[c] /\ pin'[c] = Head(replies[c]).from
      BY <1>1, <1>2 DEF ReadPin, None, TypeOK, CallTypes
    <2>3. Head(replies[c]) \in Replies
      BY <1>1, <1>2 DEF ReadPin, TypeOK, CallTypes
    <2>4. pin'[c] # None
      BY <2>2, <2>3, ServiceAssumption DEF Replies, None
    <2> QED BY <2>1, <2>2, <2>4
  <1>3. CASE ReadAck(c)
    <2>1. replies[c] # <<>> /\ replies[c][1].kind = "ack" /\ 1 \in DOMAIN replies[c]
      BY <1>1, <1>3 DEF ReadAck, TypeOK, CallTypes
    <2> QED BY <1>1, <2>1 DEF Informed
  <1>4. CASE StreamEnds(c) \/ Expire(c)
    <2>1. acked[c]
      BY <1>1, <1>4 DEF StreamEnds, Expire, Return, Returned, NoReply, None,
                        TypeOK, CallTypes
    <2> QED BY <1>1, <2>1 DEF Informed
  <1>5. ASSUME NEW d \in Calls,
               Begins(d) \/ CallStep(d) \/ TimeStep(d) \/ DropCall(d)
        PROVE  ReadPin(c) \/ ReadAck(c) \/ StreamEnds(c) \/ Expire(c)
    <2>1. verdict[c] # verdict'[c]
      BY DEF None
    <2>2. CASE d # c
      <3>1. \/ verdict' = verdict
            \/ \E v : verdict' = [verdict EXCEPT ![d] = v]
        <4>1. CASE Begins(d) \/ TimeStep(d) \/ Issue(d)
          BY <4>1 DEF Begins, PollPinned, PollScoped, IsReachable, Begin,
                      TimeStep, PassBudget, PassDiscovery, Issue
        <4>2. CASE DropCall(d) \/ GiveUp(d) \/ Expire(d) \/ ReadAnswer(d)
          BY <4>2 DEF DropCall, GiveUp, Expire, ReadAnswer, Return
        <4>3. CASE ReadAck(d) \/ StreamEnds(d)
          BY <4>3 DEF ReadAck, StreamEnds, Return
        <4>4. CASE ReadPin(d)
          BY <4>4 DEF ReadPin
        <4> QED BY <1>5, <4>1, <4>2, <4>3, <4>4 DEF CallStep
      <3> QED BY <1>1, <2>1, <2>2, <3>1 DEF TypeOK, CallTypes
    <2>3. CASE d = c
      BY <1>1, <1>5, <2>1, <2>3
      DEF Begins, PollPinned, PollScoped, IsReachable, Begin, CallStep, GiveUp,
          Issue, ReadAnswer, Return, Returned, TimeStep, PassBudget,
          PassDiscovery, DropCall, TypeOK, CallTypes
    <2> QED BY <2>2, <2>3
  <1>6. ASSUME NEW p \in Producers, WorldStep(p) PROVE FALSE
    BY <1>1, <1>6, WorldHolds DEF callVars, None
  <1>7. CASE (\E q \in net : Dispatch(q)) \/ UNCHANGED vars
             \/ (\E p \in Producers : Unblock(p) \/ UserStep(p))
    BY <1>7 DEF Dispatch, DispatchProbe, DispatchRequest, LoseQuery, Unblock,
                UserStep, TakeRequest, RefuseRequest, FinishRequest,
                DropResponder, callVars, vars, None
  <1> QED BY <1>2, <1>3, <1>4, <1>5, <1>6, <1>7 DEF Next

(* A poll times out only if an endpoint took its request, or if it was       *)
(* resolved too late to send one: a target nobody acknowledged is reported   *)
(* as unreachable, whatever endpoints, links and deadlines do.               *)
THEOREM TimeoutCorrect == Spec => TimeoutWasReached
  <1>1. ASSUME AnswerInv, AnswerInv', [Next]_vars
        PROVE  [\A c \in Calls :
                  verdict[c] = None /\ verdict'[c] = "timeout" =>
                    \/ accepted[c] # <<>>
                    \/ pin[c] = None /\ pin'[c] # None /\ spent[c]]_vars
    BY <1>1, TimeoutStep DEF AnswerInv
  <1> QED BY <1>1, AnswerInvHolds, PTL DEF Spec, TimeoutWasReached

-----------------------------------------------------------------------------
(* Without broken links a call is handled once                               *)

LEMMA InitOnce == Init => OnceInv
  <1> SUFFICES ASSUME Init PROVE OnceInv
    OBVIOUS
  <1>1. \A p \in Producers : HeldBy(p) = {} /\ Untaken(p) = {}
    BY DEF Init, HeldBy, Queued, Untaken
  <1>2. Pending = {}
    BY <1>1 DEF Init, Pending
  <1>3. \A c \in Calls : Settled(c)
    BY DEF Init, Settled
  <1>4. OnePlace
    BY <1>1 DEF Init, OnePlace
  <1> QED BY <1>2, <1>3, <1>4 DEF Init, OnceInv

(* A step of a call that sends nothing.                                      *)
LEMMA CallerOnce ==
  ASSUME AnswerInv, OnceInv, NEW c \in Calls,
         \A d \in Calls \ {c} :
           /\ phase'[d] = phase[d] /\ scope'[d] = scope[d] /\ pin'[d] = pin[d]
           /\ attempt'[d] = attempt[d] /\ waiting'[d] = waiting[d]
           /\ acked'[d] = acked[d] /\ replies'[d] = replies[d],
         UNCHANGED queryVars, UNCHANGED accepted,
         \A q \in Pending : q.call = c => PinnedOnce(q)',
         Settled(c)'
  PROVE  OnceInv'
  <1>1. \A q \in Pending' : PinnedOnce(q)'
    BY QuietQueries, PendingTyped DEF AnswerInv, OnceInv, PinnedOnce
  <1>2. \A d \in Calls : Settled(d)'
    BY DEF OnceInv, Settled
  <1>3. OnePlace'
    BY DEF OnceInv, OnePlace, queryVars, Untaken, Queued
  <1> QED BY <1>1, <1>2, <1>3 DEF OnceInv, queryVars

LEMMA ReturnOnce ==
  ASSUME AnswerInv, OnceInv, NEW c \in Calls, phase[c] \in Active,
         NEW v, Return(c, v), UNCHANGED <<sideVars, queryVars, accepted>>
  PROVE  OnceInv'
  <1>1. /\ phase' = [phase EXCEPT ![c] = "done"]
        /\ waiting' = [waiting EXCEPT ![c] = FALSE]
        /\ acked' = [acked EXCEPT ![c] = FALSE]
        /\ replies' = [replies EXCEPT ![c] = <<>>]
        /\ UNCHANGED <<scope, pin, attempt, accepted>>
        /\ UNCHANGED queryVars
    BY DEF Return
  <1>2. \A d \in Calls \ {c} :
          /\ phase'[d] = phase[d] /\ scope'[d] = scope[d] /\ pin'[d] = pin[d]
          /\ attempt'[d] = attempt[d] /\ waiting'[d] = waiting[d]
          /\ acked'[d] = acked[d] /\ replies'[d] = replies[d]
    BY <1>1 DEF AnswerInv, TypeOK, CallTypes
  <1>3. Settled(c)'
    BY <1>1 DEF OnceInv, Settled, AnswerInv, TypeOK, CallTypes
  <1>4. \A q \in Pending : q.call = c => PinnedOnce(q)'
    BY <1>1 DEF OnceInv, PinnedOnce, AnswerInv, TypeOK, CallTypes
  <1> QED BY <1>1, <1>2, <1>3, <1>4, CallerOnce

LEMMA BeginOnce ==
  ASSUME AnswerInv, OnceInv, NEW c \in Calls, Begins(c) PROVE OnceInv'
  <1>1. PICK to \in Active, b \in BOOLEAN, s \in SUBSET Producers,
             t \in Producers \cup {None} : Begin(c, to, b, s, t)
    BY DEF Begins, PollPinned, PollScoped, IsReachable, Scopes, Active
  <1>2. phase[c] = "idle" /\ accepted[c] = <<>>
    BY <1>1 DEF Begin, OnceInv, Settled
  <1>3. \A d \in Calls \ {c} :
          /\ phase'[d] = phase[d] /\ scope'[d] = scope[d] /\ pin'[d] = pin[d]
          /\ attempt'[d] = attempt[d] /\ waiting'[d] = waiting[d]
          /\ acked'[d] = acked[d] /\ replies'[d] = replies[d]
    BY <1>1 DEF Begin, AnswerInv, TypeOK, CallTypes
  <1>4. Settled(c)'
    BY <1>1, <1>2 DEF Begin, Settled
  <1>5. \A q \in Pending : q.call # c
    BY <1>2 DEF AnswerInv, QueriesAged, Aged
  <1> QED BY <1>1, <1>3, <1>4, <1>5, CallerOnce DEF Begin

LEMMA IssueOnce ==
  ASSUME AnswerInv, OnceInv, NEW c \in Calls, Issue(c) PROVE OnceInv'
  <1>1. /\ attempt' = [attempt EXCEPT ![c] = @ + 1]
        /\ waiting' = [waiting EXCEPT ![c] = TRUE]
        /\ UNCHANGED <<phase, scope, pin, acked, replies, severed, inbox, stuck,
                       serving, accepted>>
        /\ phase[c] \in Active /\ ~waiting[c]
    BY DEF Issue
  <1>2. \A q \in Pending : q.call = c => q.kind # "request"
    BY <1>1 DEF OnceInv, PinnedOnce, Active
  <1>3. \A q \in net' \ net :
          /\ q.call = c /\ q.try = attempt'[c]
          /\ q.kind = "request" => /\ phase[c] = "request" /\ q.to = pin[c]
                                   /\ accepted[c] = <<>>
    <2> TAKE q \in net' \ net
    <2>1. PICK p \in Targets(c) :
            q = [call |-> c, try |-> attempt[c] + 1, to |-> p,
                 kind |-> IF phase[c] = "request" THEN "request" ELSE "probe"]
      BY DEF Issue
    <2>2. attempt'[c] = attempt[c] + 1
      BY <1>1 DEF AnswerInv, TypeOK, CallTypes
    <2>3. phase[c] = "request" => p = pin[c] /\ accepted[c] = <<>>
      BY <1>1 DEF Targets, OnceInv, Settled
    <2> QED BY <2>1, <2>2, <2>3
  <1>4. \A p : Untaken(p)' = Untaken(p) /\ Queued(p)' = Queued(p)
             /\ HeldBy(p)' = HeldBy(p)
    BY <1>1 DEF Untaken, Queued, HeldBy
  <1>5. \A p \in Producers : \A r \in Untaken(p) :
          r \in Pending /\ r.kind = "request"
    BY DEF Untaken, HeldBy, Pending, AnswerInv, HeldHere
  <1>6. OnePlace'
    BY <1>1, <1>2, <1>3, <1>4, <1>5 DEF OnceInv, OnePlace
  <1>7. \A q \in Pending' : PinnedOnce(q)'
    <2> TAKE q \in Pending'
    <2>1. q \in Pending \/ q \in net' \ net
      BY <1>4 DEF Pending
    <2>2. CASE q \in net' \ net
      BY <1>1, <1>3, <2>2 DEF PinnedOnce, AnswerInv, TypeOK, CallTypes
    <2>3. CASE q \in Pending
      BY <1>1, <1>2, <2>3, PendingTyped
      DEF OnceInv, PinnedOnce, AnswerInv, TypeOK, CallTypes
    <2> QED BY <2>1, <2>2, <2>3
  <1>8. \A d \in Calls : Settled(d)'
    BY <1>1 DEF OnceInv, Settled, AnswerInv, TypeOK, CallTypes
  <1> QED BY <1>1, <1>6, <1>7, <1>8 DEF OnceInv

LEMMA StreamEndsOnce ==
  ASSUME AnswerInv, OnceInv, NEW c \in Calls, StreamEnds(c) PROVE OnceInv'
  <1>1. CASE ~Retries(c)
    BY <1>1, ReturnOnce
    DEF StreamEnds, AnswerInv, CallsInformed, Informed
  <1>2. CASE Retries(c)
    <2>1. /\ waiting' = [waiting EXCEPT ![c] = FALSE]
          /\ UNCHANGED <<phase, scope, bounded, capped, spent, pin, attempt,
                         acked, verdict, replies, accepted>>
          /\ UNCHANGED queryVars
          /\ ~acked[c] /\ replies[c] = <<>> /\ Open(c) = {}
      BY <1>2 DEF StreamEnds, Retries
    <2>2. \A d \in Calls \ {c} : waiting'[d] = waiting[d]
      BY <2>1 DEF AnswerInv, TypeOK, CallTypes
    <2>3. Settled(c)'
      BY <2>1 DEF OnceInv, Settled
    <2>4. \A q \in Pending : q.call = c => q.kind # "request"
      BY <2>1 DEF OnceInv, PinnedOnce, Open
    <2>5. \A q \in Pending : q.call = c => PinnedOnce(q)'
      BY <2>4 DEF PinnedOnce
    <2> QED BY <2>1, <2>2, <2>3, <2>5, CallerOnce
  <1> QED BY <1>1, <1>2

LEMMA CallOnce ==
  ASSUME AnswerInv, OnceInv, NEW c \in Calls,
         CallStep(c) \/ TimeStep(c) \/ DropCall(c)
  PROVE  OnceInv'
  <1>1. waiting[c] => phase[c] \in Active
    BY DEF AnswerInv, CallsInformed, Informed
  <1>2. CASE GiveUp(c)
    BY <1>2, ReturnOnce DEF GiveUp
  <1>3. CASE ReadAck(c)
    <2>1. CASE DeadlinePassed(c)
      BY <1>1, <1>3, <2>1, ReturnOnce DEF ReadAck
    <2>2. CASE ~DeadlinePassed(c)
      <3>1. /\ acked' = [acked EXCEPT ![c] = TRUE]
            /\ replies' = [replies EXCEPT ![c] = Tail(replies[c])]
            /\ UNCHANGED <<phase, scope, pin, attempt, waiting, accepted>>
            /\ UNCHANGED queryVars
        BY <1>3, <2>2 DEF ReadAck
      <3>2. \A d \in Calls \ {c} :
              acked'[d] = acked[d] /\ replies'[d] = replies[d]
        BY <3>1 DEF AnswerInv, TypeOK, CallTypes
      <3>3. Settled(c)'
        BY <3>1 DEF OnceInv, Settled, AnswerInv, TypeOK, CallTypes
      <3>4. \A q \in Pending : PinnedOnce(q)'
        BY <3>1 DEF OnceInv, PinnedOnce
      <3> QED BY <3>1, <3>2, <3>3, <3>4, CallerOnce
    <2> QED BY <2>1, <2>2
  <1>4. CASE ReadPin(c)
    <2>1. /\ phase[c] = "discover"
          /\ UNCHANGED <<scope, attempt, accepted>> /\ UNCHANGED queryVars
      BY <1>4 DEF ReadPin
    <2>2. accepted[c] = <<>> /\ \A q \in Pending : q.call = c => q.kind # "request"
      BY <2>1 DEF OnceInv, Settled, PinnedOnce
    <2>3. Settled(c)' /\ \A q \in Pending : q.call = c => PinnedOnce(q)'
      BY <2>1, <2>2 DEF Settled, PinnedOnce
    <2>4. \A d \in Calls \ {c} :
            /\ phase'[d] = phase[d] /\ pin'[d] = pin[d]
            /\ waiting'[d] = waiting[d] /\ acked'[d] = acked[d]
            /\ replies'[d] = replies[d]
      BY <1>4 DEF ReadPin, AnswerInv, TypeOK, CallTypes
    <2> QED BY <2>1, <2>3, <2>4, CallerOnce
  <1>5. CASE ReadAnswer(c)
    BY <1>1, <1>5, ReturnOnce DEF ReadAnswer
  <1>6. CASE Expire(c)
    BY <1>1, <1>6, ReturnOnce DEF Expire
  <1>7. CASE DropCall(c)
    BY <1>7, ReturnOnce DEF DropCall
  <1>8. CASE TimeStep(c)
    <2>1. /\ UNCHANGED <<phase, scope, pin, attempt, waiting, acked, replies,
                         accepted>>
          /\ UNCHANGED queryVars
      BY <1>8 DEF TimeStep, PassBudget, PassDiscovery
    <2>2. Settled(c)' /\ \A q \in Pending : PinnedOnce(q)'
      BY <2>1 DEF OnceInv, Settled, PinnedOnce
    <2> QED BY <2>1, <2>2, CallerOnce
  <1> QED
    BY <1>2, <1>3, <1>4, <1>5, <1>6, <1>7, <1>8, IssueOnce, StreamEndsOnce
    DEF CallStep

(* A call has at most one request that is not answered yet.                  *)
LEMMA OneRequest ==
  ASSUME AnswerInv, OnceInv, NEW q \in Pending, NEW r \in Pending,
         q.kind = "request", r.kind = "request", q.call = r.call
  PROVE  q = r
  <1>1. q \in Queries /\ r \in Queries
    BY PendingTyped DEF AnswerInv
  <1>2. q.to = r.to /\ q.try = r.try
    BY DEF OnceInv, PinnedOnce
  <1>3. /\ q = [call |-> q.call, try |-> q.try, to |-> q.to, kind |-> q.kind]
        /\ r = [call |-> r.call, try |-> r.try, to |-> r.to, kind |-> r.kind]
    BY <1>1 DEF Queries
  <1> QED BY <1>2, <1>3

LEMMA ReplyKeeps ==
  ASSUME TypeOK, NEW q \in Queries,
         NEW kind \in {"ack", "response", "error"}, Reply(q, kind)
  PROVE  /\ \A c \in Calls : replies[c] # <<>> => replies'[c] # <<>>
         /\ Heard(q) => replies'[q.call] # <<>>
  <1> DEFINE r == [from |-> q.to, kind |-> kind]
  <1>1. r \in Replies /\ q.call \in Calls
    BY DEF Queries, Replies
  <1>2. replies[q.call] \in Seq(Replies) /\ replies \in [Calls -> Seq(Replies)]
    BY <1>1 DEF TypeOK, CallTypes
  <1> HIDE DEF r
  <1>3. Append(replies[q.call], r) # <<>>
    BY <1>1, <1>2
  <1> QED BY <1>1, <1>2, <1>3 DEF Reply, r

LEMMA EndpointOnce ==
  ASSUME AnswerInv, OnceInv, UNCHANGED <<callVars, accepted>>,
         severed' = {}, Pending' \subseteq Pending, OnePlace',
         \A c \in Calls : replies[c] # <<>> => replies'[c] # <<>>
  PROVE  OnceInv'
  <1>1. \A q \in Pending' : PinnedOnce(q)'
    BY DEF OnceInv, PinnedOnce, callVars
  <1>2. \A c \in Calls : Settled(c)'
    BY DEF OnceInv, Settled, callVars
  <1> QED BY <1>1, <1>2 DEF OnceInv

LEMMA DispatchOnce ==
  ASSUME AnswerInv, OnceInv, NEW q \in net, Dispatch(q) PROVE OnceInv'
  <1>1. TypeOK /\ q \in Queries /\ q.to \in Producers /\ q \in Pending
    BY PendingTyped DEF AnswerInv, Pending
  <1>2. UNCHANGED <<callVars, accepted>> /\ severed' = {}
    BY DEF Dispatch, DispatchProbe, DispatchRequest, LoseQuery, OnceInv
  <1>3. CASE DispatchProbe(q) \/ LoseQuery(q)
    <2>1. net' \subseteq net /\ UNCHANGED <<inbox, stuck, serving>>
      BY <1>3 DEF DispatchProbe, LoseQuery
    <2>2. OnePlace'
      BY <1>2, <2>1 DEF OnceInv, OnePlace, Untaken, Queued
    <2>3. Pending' \subseteq Pending
      BY <2>1 DEF Pending, HeldBy, Queued
    <2>4. \A c \in Calls : replies[c] # <<>> => replies'[c] # <<>>
      BY <1>1, <1>3, ReplyKeeps DEF DispatchProbe, LoseQuery
    <2> QED BY <1>2, <2>2, <2>3, <2>4, EndpointOnce
  <1>4. CASE DispatchRequest(q)
    <2>1. /\ q.kind = "request" /\ net' = net \ {q} /\ stuck[q.to] = {}
          /\ UNCHANGED <<replies, accepted>>
      BY <1>4 DEF DispatchRequest, Dispatchable
    <2>2. \A r \in net' : r.kind = "request" => r.call # q.call
      BY <1>1, <2>1, OneRequest DEF Pending
    <2>3. \A p \in Producers : \A r \in Untaken(p) : r.call # q.call
      BY <2>1 DEF OnceInv, OnePlace
    <2>4. accepted[q.call] = <<>>
      BY <2>1 DEF OnceInv, OnePlace
    <2>5. CASE Room(q.to)
      <3>1. inbox' = [inbox EXCEPT ![q.to] = Append(@, q)] /\ stuck' = stuck
        BY <1>4, <2>5 DEF DispatchRequest
      <3>2. inbox'[q.to] = Append(inbox[q.to], q)
        BY <1>1, <3>1 DEF TypeOK, SideTypes
      <3>3. Queued(q.to)' = Queued(q.to) \cup {q}
        BY <1>1, <3>2, AppendQueued
      <3>4. \A p \in Producers \ {q.to} :
              inbox'[p] = inbox[p] /\ Queued(p)' = Queued(p)
        BY <3>1 DEF TypeOK, SideTypes, Queued
      <3>5. \A i, j \in DOMAIN inbox'[q.to] :
              inbox'[q.to][i].call = inbox'[q.to][j].call => i = j
        <4>1. \A i \in DOMAIN inbox[q.to] : inbox[q.to][i].call # q.call
          BY <1>1, <2>3 DEF Untaken, Queued
        <4>2. inbox[q.to] \in Seq(Queries)
          BY <1>1 DEF TypeOK, SideTypes
        <4>3. \A i \in DOMAIN inbox'[q.to] :
                \/ i \in DOMAIN inbox[q.to] /\ inbox'[q.to][i] = inbox[q.to][i]
                \/ i = Len(inbox[q.to]) + 1 /\ inbox'[q.to][i] = q
          BY <1>1, <3>2, <4>2
        <4> QED BY <1>1, <4>1, <4>3 DEF OnceInv, OnePlace
      <3>6. OnePlace'
        BY <1>1, <2>1, <2>2, <2>3, <2>4, <3>1, <3>3, <3>4, <3>5
        DEF OnceInv, OnePlace, Untaken
      <3> QED BY <1>1, <1>2, <1>4, <2>1, <3>6, DispatchHolds, EndpointOnce
    <2>6. CASE ~Room(q.to)
      <3>1. stuck' = [stuck EXCEPT ![q.to] = {q}] /\ inbox' = inbox
        BY <1>4, <2>6 DEF DispatchRequest
      <3>2. stuck'[q.to] = {q} /\ \A p \in Producers \ {q.to} : stuck'[p] = stuck[p]
        BY <1>1, <3>1 DEF TypeOK, SideTypes
      <3>3. \A p \in Producers : Queued(p)' = Queued(p)
        BY <3>1 DEF Queued
      <3>4. OnePlace'
        BY <1>1, <2>1, <2>2, <2>3, <2>4, <3>1, <3>2, <3>3
        DEF OnceInv, OnePlace, Untaken
      <3> QED BY <1>1, <1>2, <1>4, <2>1, <3>4, DispatchHolds, EndpointOnce
    <2> QED BY <2>5, <2>6
  <1> QED BY <1>3, <1>4 DEF Dispatch

LEMMA UnblockOnce ==
  ASSUME AnswerInv, OnceInv, NEW p \in Producers, Unblock(p) PROVE OnceInv'
  <1>1. TypeOK
    BY DEF AnswerInv
  <1>2. PICK q \in stuck[p] : inbox' = [inbox EXCEPT ![p] = Append(@, q)]
    BY DEF Unblock
  <1>3. q \in Queries /\ inbox[p] \in Seq(Queries)
    BY <1>1 DEF TypeOK, SideTypes
  <1>4. /\ stuck' = [stuck EXCEPT ![p] = {}] /\ severed' = {}
        /\ UNCHANGED <<callVars, replies, net, accepted>>
    BY DEF Unblock, OnceInv
  <1>5. inbox'[p] = Append(inbox[p], q)
    BY <1>1, <1>2 DEF TypeOK, SideTypes
  <1>6. Queued(p)' = Queued(p) \cup {q}
    BY <1>1, <1>3, <1>5, AppendQueued
  <1>7. \A r \in Producers \ {p} :
          inbox'[r] = inbox[r] /\ Queued(r)' = Queued(r) /\ stuck'[r] = stuck[r]
    BY <1>1, <1>2, <1>4 DEF TypeOK, SideTypes, Queued
  <1>8. stuck'[p] = {} /\ \A r \in Producers : Untaken(r)' \subseteq Untaken(r)
    BY <1>1, <1>4, <1>6, <1>7 DEF Untaken, TypeOK, SideTypes
  <1>9. \A i, j \in DOMAIN inbox'[p] :
          inbox'[p][i].call = inbox'[p][j].call => i = j
    <2>1. \A i \in DOMAIN inbox[p] : inbox[p][i].call # q.call
      BY DEF OnceInv, OnePlace, Queued
    <2>2. \A i \in DOMAIN inbox'[p] :
            \/ i \in DOMAIN inbox[p] /\ inbox'[p][i] = inbox[p][i]
            \/ i = Len(inbox[p]) + 1 /\ inbox'[p][i] = q
      BY <1>3, <1>5
    <2> QED BY <2>1, <2>2 DEF OnceInv, OnePlace
  <1>10. OnePlace'
    BY <1>4, <1>6, <1>7, <1>8, <1>9 DEF OnceInv, OnePlace
  <1> QED BY <1>1, <1>4, <1>10, UnblockHolds, EndpointOnce

LEMMA TailDistinct ==
  ASSUME AnswerInv, OnceInv, NEW p \in Producers, inbox[p] # <<>>,
         inbox' = [inbox EXCEPT ![p] = Tail(@)]
  PROVE  /\ \A r \in Producers : Queued(r)' \subseteq Queued(r)
         /\ \A r \in Producers : \A i, j \in DOMAIN inbox'[r] :
              inbox'[r][i].call = inbox'[r][j].call => i = j
         /\ \A q \in Queued(p)' : q.call # Head(inbox[p]).call
  <1>1. TypeOK
    BY DEF AnswerInv
  <1>2. inbox'[p] = Tail(inbox[p]) /\ inbox[p] \in Seq(Queries)
        /\ \A r \in Producers \ {p} : inbox'[r] = inbox[r]
    BY <1>1 DEF TypeOK, SideTypes
  <1>3. \A i \in DOMAIN inbox'[p] :
          i \in Nat /\ i + 1 # 1 /\ i + 1 \in DOMAIN inbox[p]
          /\ inbox'[p][i] = inbox[p][i + 1]
    <2> DEFINE s == inbox[p]
    <2>1. s \in Seq(Queries) /\ s # <<>>
      BY <1>2
    <2> HIDE DEF s
    <2>2. \A i \in DOMAIN Tail(s) : i \in Nat /\ i + 1 # 1 /\ i + 1 \in DOMAIN s
                                  /\ Tail(s)[i] = s[i + 1]
      BY <2>1
    <2>3. inbox'[p] = Tail(s)
      BY <1>2 DEF s
    <2> QED BY <2>2, <2>3 DEF s
  <1>4. 1 \in DOMAIN inbox[p] /\ Head(inbox[p]) = inbox[p][1]
    BY <1>2
  <1>5. \A i, j \in DOMAIN inbox[p] :
          inbox[p][i].call = inbox[p][j].call => i = j
    BY DEF OnceInv, OnePlace
  <1>6. \A i, j \in DOMAIN inbox'[p] :
          inbox'[p][i].call = inbox'[p][j].call => i = j
    <2> TAKE i, j \in DOMAIN inbox'[p]
    <2>1. inbox'[p][i].call = inbox'[p][j].call => i + 1 = j + 1
      BY <1>3, <1>5
    <2> QED BY <1>3, <2>1
  <1>7. \A i \in DOMAIN inbox'[p] : inbox'[p][i].call # Head(inbox[p]).call
    BY <1>3, <1>4, <1>5
  <1>8. \A r \in Producers : Queued(r)' \subseteq Queued(r)
    BY <1>1, <1>2, TailQueued DEF Queued
  <1>9. \A r \in Producers \ {p} : \A i, j \in DOMAIN inbox'[r] :
          inbox'[r][i].call = inbox'[r][j].call => i = j
    BY <1>2 DEF OnceInv, OnePlace
  <1> QED BY <1>6, <1>7, <1>8, <1>9 DEF Queued

LEMMA TakeOnce ==
  ASSUME AnswerInv, OnceInv, NEW p \in Producers, TakeRequest(p)
  PROVE  OnceInv'
  <1> DEFINE q == Head(inbox[p])
  <1>1. /\ inbox[p] # <<>> /\ Reply(q, "ack") /\ severed' = {}
        /\ inbox' = [inbox EXCEPT ![p] = Tail(@)]
        /\ serving' = [serving EXCEPT ![p] = @ \cup {q}]
        /\ accepted' = [accepted EXCEPT ![q.call] = Append(@, p)]
        /\ UNCHANGED <<callVars, net, stuck>>
    BY DEF TakeRequest, CanTake, OnceInv
  <1>2. TypeOK
    BY DEF AnswerInv
  <1>3. q \in Queued(p) /\ q \in Pending /\ q \in Queries /\ q.call \in Calls
    BY <1>1, <1>2, HeadQueued, PendingTyped DEF Pending, HeldBy
  <1>4. /\ \A r \in Producers : Queued(r)' \subseteq Queued(r)
        /\ \A r \in Producers : \A i, j \in DOMAIN inbox'[r] :
             inbox'[r][i].call = inbox'[r][j].call => i = j
        /\ \A r \in Queued(p)' : r.call # q.call
    BY <1>1, TailDistinct
  <1>5. Pending' \subseteq Pending
    BY <1>1, <1>2, TakeHolds
  <1> HIDE DEF q
  <1>6. q.kind = "request" /\ q.to = p
    BY <1>3 DEF AnswerInv, HeldHere, HeldBy
  <1>7. /\ accepted[q.call] = <<>> /\ pin[q.call] = p
        /\ phase[q.call] \in {"request", "done"}
        /\ phase[q.call] = "request" => waiting[q.call]
        /\ q.try = attempt[q.call] /\ p \in scope[q.call]
    BY <1>3, <1>6
    DEF OnceInv, OnePlace, Untaken, PinnedOnce, AnswerInv, QueriesAged, Aged
  <1>8. accepted'[q.call] = <<p>>
        /\ \A c \in Calls : c # q.call => accepted'[c] = accepted[c]
    <2>1. Append(accepted[q.call], p) = <<p>>
      BY <1>7
    <2> QED BY <1>1, <1>2, <1>3, <2>1 DEF TypeOK, CallTypes
  <1>9. /\ \A c \in Calls : replies[c] # <<>> => replies'[c] # <<>>
        /\ phase[q.call] = "request" => replies'[q.call] # <<>>
    <2>1. phase[q.call] = "request" => Heard(q)
      BY <1>7 DEF Heard, OnceInv
    <2> QED BY <1>1, <1>2, <1>3, <2>1, ReplyKeeps
  <1>10. \A c \in Calls : Settled(c)'
    <2> TAKE c \in Calls
    <2>0. Settled(c)
      BY DEF OnceInv
    <2>1. CASE c = q.call
      BY <1>1, <1>7, <1>8, <1>9, <2>1 DEF Settled, callVars
    <2>2. CASE c # q.call
      BY <1>1, <1>8, <1>9, <2>0, <2>2 DEF Settled, callVars
    <2> QED BY <2>1, <2>2
  <1>11. \A r \in Pending' : PinnedOnce(r)'
    BY <1>1, <1>5 DEF OnceInv, PinnedOnce, callVars
  <1>12. OnePlace'
    <2>1. \A r \in net' : r.kind = "request" => r.call # q.call /\ r.call \in Calls
      BY <1>1, <1>2, <1>3, PendingTyped DEF OnceInv, OnePlace, Untaken, Pending
    <2>2. \A s \in Producers : Untaken(s)' \subseteq Untaken(s)
      BY <1>1, <1>4 DEF Untaken
    <2>3. \A s \in Producers : \A r \in Untaken(s)' :
            r.call # q.call /\ r.call \in Calls
      <3> TAKE s \in Producers
      <3> TAKE r \in Untaken(s)'
      <3>1. r \in Untaken(s) /\ r \in Pending /\ r.call \in Calls
        BY <1>2, <2>2, PendingTyped DEF Untaken, Pending, HeldBy
      <3>2. r.kind = "request" /\ r.to = s
        BY <3>1 DEF Untaken, AnswerInv, HeldHere, HeldBy
      <3>3. CASE s = p
        BY <1>1, <1>3, <1>4, <3>1, <3>3 DEF Untaken, OnceInv, OnePlace
      <3>4. CASE s # p
        BY <1>3, <1>6, <3>1, <3>2, <3>4, OneRequest
      <3> QED BY <3>1, <3>3, <3>4
    <2> QED BY <1>1, <1>4, <1>8, <2>1, <2>2, <2>3 DEF OnceInv, OnePlace
  <1> QED BY <1>1, <1>10, <1>11, <1>12 DEF OnceInv

LEMMA UserOnce ==
  ASSUME AnswerInv, OnceInv, NEW p \in Producers, UserStep(p) PROVE OnceInv'
  <1>1. TypeOK
    BY DEF AnswerInv
  <1>2. CASE RefuseRequest(p)
    <2>1. /\ inbox[p] # <<>> /\ inbox' = [inbox EXCEPT ![p] = Tail(@)]
          /\ UNCHANGED <<callVars, replies, net, stuck, serving, accepted>>
          /\ severed' = {}
      BY <1>2 DEF RefuseRequest, CanTake, OnceInv
    <2>2. /\ \A r \in Producers : Queued(r)' \subseteq Queued(r)
          /\ \A r \in Producers : \A i, j \in DOMAIN inbox'[r] :
               inbox'[r][i].call = inbox'[r][j].call => i = j
      BY <2>1, TailDistinct
    <2>3. OnePlace'
      BY <2>1, <2>2 DEF OnceInv, OnePlace, Untaken
    <2> QED BY <1>1, <2>1, <2>3, TakeHolds, EndpointOnce
  <1>3. ASSUME NEW q \in serving[p],
               FinishRequest(p, q) \/ DropResponder(p, q)
        PROVE  OnceInv'
    <2>1. /\ serving' = [serving EXCEPT ![p] = @ \ {q}]
          /\ UNCHANGED <<callVars, net, inbox, stuck, accepted>>
          /\ severed' = {}
      BY <1>3 DEF FinishRequest, DropResponder, OnceInv
    <2>2. OnePlace'
      BY <2>1 DEF OnceInv, OnePlace, Untaken, Queued
    <2>3. Pending' \subseteq Pending
      BY <1>1, <2>1 DEF HeldBy, Queued, Pending, TypeOK, SideTypes
    <2>4. \A c \in Calls : replies[c] # <<>> => replies'[c] # <<>>
      <3>1. q \in Queries
        BY <1>1 DEF TypeOK, SideTypes
      <3> QED BY <1>1, <1>3, <3>1, ReplyKeeps DEF FinishRequest, DropResponder
    <2> QED BY <2>1, <2>2, <2>3, <2>4, EndpointOnce
  <1> QED BY <1>2, <1>3, TakeOnce DEF UserStep

LEMMA WorldOnce ==
  ASSUME ~LinksBreak, AnswerInv, OnceInv, NEW p \in Producers, WorldStep(p)
  PROVE  OnceInv'
  <1>1. TypeOK
    BY DEF AnswerInv
  <1>2. /\ UNCHANGED <<callVars, replies, net, accepted>> /\ severed' = {}
        /\ \A r \in Producers : /\ stuck'[r] \subseteq stuck[r]
                                /\ inbox'[r] = inbox[r] \/ inbox'[r] = <<>>
    BY <1>1
    DEF WorldStep, Listen, Learn, Forget, CloseEndpoint, Crash, BreakLink,
        queryVars, TypeOK, SideTypes, OnceInv
  <1>3. \A r \in Producers : Queued(r)' \subseteq Queued(r)
    BY <1>2 DEF Queued
  <1>4. OnePlace'
    BY <1>2, <1>3 DEF OnceInv, OnePlace, Untaken
  <1> QED BY <1>1, <1>2, <1>4, WorldHolds, EndpointOnce

LEMMA OnceStep ==
  ASSUME ~LinksBreak, AnswerInv, OnceInv, [Next]_vars PROVE OnceInv'
  <1>1. CASE UNCHANGED vars
    <2>1. UNCHANGED <<callVars, replies, accepted>> /\ UNCHANGED queryVars
      BY <1>1 DEF vars
    <2>2. OnePlace' /\ severed' = {} /\ Pending' \subseteq Pending
      BY <2>1, QuietQueries DEF OnceInv, OnePlace, Untaken, Queued, queryVars
    <2> QED BY <2>1, <2>2, EndpointOnce
  <1> QED
    BY <1>1, BeginOnce, CallOnce, DispatchOnce, UnblockOnce, UserOnce, WorldOnce
    DEF Next

(* As long as no link to a live producer breaks, a call is handled at most   *)
(* once, by the producer it was resolved to: discovery, retries, refused     *)
(* acknowledgements and crashes never lead to a second handler.              *)
THEOREM HandledOnceCorrect == ~LinksBreak => (Spec => []HandledOnce)
  <1> SUFFICES ASSUME ~LinksBreak PROVE Spec => []HandledOnce
    OBVIOUS
  <1>1. AnswerInv /\ OnceInv /\ [Next]_vars => OnceInv'
    BY OnceStep
  <1>2. OnceInv => HandledOnce
    BY DEF OnceInv, Settled, HandledOnce
  <1> QED BY <1>1, <1>2, InitOnce, AnswerInvHolds, PTL DEF Spec

(* As long as no link breaks, an attempt is only repeated when no producer   *)
(* has taken the request or can still take it.                               *)
THEOREM RetryCorrect == ~LinksBreak => (Spec => []RetriedIfUnreached)
  <1> SUFFICES ASSUME ~LinksBreak PROVE Spec => []RetriedIfUnreached
    OBVIOUS
  <1>1. AnswerInv /\ OnceInv /\ [Next]_vars => OnceInv'
    BY OnceStep
  <1>2. AnswerInv /\ OnceInv => RetriedIfUnreached
    BY PendingTyped
    DEF AnswerInv, OnceInv, Settled, PinnedOnce, RetriedIfUnreached, Queries
  <1> QED BY <1>1, <1>2, InitOnce, AnswerInvHolds, PTL DEF Spec

-----------------------------------------------------------------------------
(* Calls through the mock adapter (MockCalls)                                *)

Entries == [from : MockEndpoints, kind : {"ack", "response", "error"}]
CallStates == {"sending", "reading", "answered", "closed", "late"}
MockQueries ==
  [state : CallStates, kind : {"request", "probe"}, link : {"*", "arm"},
   left : SUBSET MockEndpoints, read : Nat]

MockCallTypes ==
  /\ query \in [MockCallers -> {Unasked} \cup MockQueries]
  /\ stream \in [MockCallers -> Seq(Entries)]
  /\ queries \in [MockEndpoints -> Seq(MockCallers)]
  /\ requests \in [MockEndpoints -> Seq(MockCallers)]
  /\ answering \in [MockEndpoints -> SUBSET MockCallers]
  /\ ran \in [MockCallers -> SUBSET MockEndpoints]

InChannel(c, channel) == \E k \in DOMAIN channel : channel[k] = c
EachOnce(channel) == \A k, l \in DOMAIN channel : channel[k] = channel[l] => k = l

Asked(c) == query[c] # Unasked
Owed(e, c) == Asked(c) /\ e \in query[c].left
ForHandler(c) == Asked(c) /\ query[c].kind = "request" /\ Claimed(c)
ForProbe(c) == Asked(c) /\ query[c].kind = "probe"

(* A call is at most once at an endpoint: still to be sent, in one of the    *)
(* channels, with a handler, or over; and what the caller heard says which.  *)
OncePerEndpoint(e, c) ==
  /\ Owed(e, c) =>
       ~InChannel(c, queries[e]) /\ ~InChannel(c, requests[e]) /\ e \notin ran[c] /\ From(e, c) = {}
  /\ InChannel(c, queries[e]) =>
       Asked(c) /\ ~InChannel(c, requests[e]) /\ e \notin ran[c] /\ From(e, c) = {}
  /\ InChannel(c, requests[e]) => ForHandler(c) /\ e \notin ran[c] /\ From(e, c) = {}
  /\ c \in answering[e] => e \in ran[c] /\ \E i \in From(e, c) : From(e, c) = {i}
  /\ e \in ran[c] =>
       /\ ForHandler(c)
       /\ \E i, j \in From(e, c) :
            i <= j /\ From(e, c) = {i, j} /\ stream[c][i].kind = "ack"
  /\ e \notin ran[c] =>
       \A i, j \in From(e, c) : i = j /\ stream[c][i].kind = "response" /\ ForProbe(c)

(* How far the caller is.                                                    *)
CallerSays(c) ==
  /\ Asked(c) /\ query[c].left # {} => query[c].state = "sending"
  /\ Asked(c) => query[c].read <= Len(stream[c])
  /\ Asked(c) => \A i \in DOMAIN stream[c] : i <= query[c].read => stream[c][i].kind = "ack"
  /\ Asked(c) /\ query[c].state = "closed" =>
       /\ \A e \in MockEndpoints :
            ~InChannel(c, queries[e]) /\ ~InChannel(c, requests[e]) /\ c \notin answering[e]
       /\ \A i \in DOMAIN stream[c] : stream[c][i].kind = "ack"

Channels == \A e \in MockEndpoints : EachOnce(queries[e]) /\ EachOnce(requests[e])
Endpoints == \A e \in MockEndpoints, c \in MockCallers : OncePerEndpoint(e, c)
CallerViews == \A c \in MockCallers : CallerSays(c)

MockCallsInv == MockCallTypes /\ Channels /\ Endpoints /\ CallerViews

LEMMA UnaskedIsIdle ==
  ASSUME MockCallTypes, NEW c \in MockCallers
  PROVE  /\ Asked(c) => query[c] \in MockQueries
         /\ Asked(c) <=> query[c].state # "idle"
         /\ Unasked \notin MockQueries
  <1>1. \A q \in MockQueries : q.state # "idle"
    BY DEF MockQueries, CallStates
  <1>2. Unasked.state = "idle"
    BY DEF Unasked
  <1> QED BY <1>1, <1>2 DEF MockCallTypes, Asked

LEMMA Appended ==
  ASSUME NEW S, NEW s \in Seq(S), NEW x \in S
  PROVE  /\ Append(s, x) \in Seq(S) /\ Len(s) \in Nat
         /\ DOMAIN s = 1..Len(s) /\ DOMAIN Append(s, x) = 1..Len(s) + 1
         /\ \A i \in DOMAIN s : Append(s, x)[i] = s[i]
         /\ Append(s, x)[Len(s) + 1] = x
         /\ \A c : InChannel(c, Append(s, x)) <=> InChannel(c, s) \/ c = x
         /\ EachOnce(s) /\ ~InChannel(x, s) => EachOnce(Append(s, x))
  <1>1. /\ Append(s, x) \in Seq(S) /\ Len(s) \in Nat
        /\ DOMAIN s = 1..Len(s) /\ DOMAIN Append(s, x) = 1..Len(s) + 1
        /\ \A i \in DOMAIN s : Append(s, x)[i] = s[i]
        /\ Append(s, x)[Len(s) + 1] = x
    OBVIOUS
  <1> DEFINE t == Append(s, x)
  <1> HIDE DEF t
  <1>2. /\ DOMAIN s = 1..Len(s) /\ DOMAIN t = 1..Len(s) + 1 /\ Len(s) \in Nat
        /\ \A i \in DOMAIN s : t[i] = s[i]
        /\ t[Len(s) + 1] = x
    BY <1>1 DEF t
  <1>3. \A c : InChannel(c, t) <=> InChannel(c, s) \/ c = x
    BY <1>2 DEF InChannel
  <1>4. EachOnce(s) /\ ~InChannel(x, s) => EachOnce(t)
    BY <1>2 DEF InChannel, EachOnce
  <1> QED BY <1>1, <1>3, <1>4 DEF t

LEMMA Tailed ==
  ASSUME NEW S, NEW s \in Seq(S), s # <<>>
  PROVE  /\ Tail(s) \in Seq(S) /\ Head(s) \in S /\ InChannel(Head(s), s)
         /\ \A c : InChannel(c, Tail(s)) => InChannel(c, s)
         /\ EachOnce(s) => EachOnce(Tail(s)) /\ ~InChannel(Head(s), Tail(s))
  <1> DEFINE t == Tail(s)
  <1>1. /\ t \in Seq(S) /\ Head(s) = s[1] /\ Head(s) \in S /\ Len(s) \in Nat /\ Len(s) >= 1
        /\ DOMAIN s = 1..Len(s) /\ DOMAIN t = 1..Len(s) - 1
        /\ \A i \in 1..Len(s) - 1 : t[i] = s[i + 1]
    OBVIOUS
  <1> HIDE DEF t
  <1>2. \A i \in DOMAIN t : i + 1 \in DOMAIN s /\ t[i] = s[i + 1] /\ i + 1 # 1
    BY <1>1
  <1>3. \A c : InChannel(c, t) => InChannel(c, s)
    BY <1>2 DEF InChannel
  <1>4. 1 \in DOMAIN s /\ InChannel(Head(s), s)
    BY <1>1 DEF InChannel
  <1>5. EachOnce(s) => EachOnce(t) /\ ~InChannel(Head(s), t)
    BY <1>1, <1>2, <1>4 DEF InChannel, EachOnce
  <1> QED BY <1>1, <1>3, <1>4, <1>5 DEF t

(* A caller reads what an endpoint responds, if it still reads.              *)
LEMMA HearsResponse ==
  ASSUME MockCallTypes, NEW e \in MockEndpoints, NEW c \in MockCallers,
         NEW kind \in {"ack", "response", "error"}, stream' = Responded(e, c, kind)
  PROVE  /\ stream' \in [MockCallers -> Seq(Entries)]
         /\ \A d \in MockCallers : d # c => stream'[d] = stream[d]
         /\ ~Reads(c) => stream' = stream
         /\ Reads(c) =>
              \E n \in Nat :
                /\ n \notin DOMAIN stream[c] /\ DOMAIN stream'[c] = DOMAIN stream[c] \cup {n}
                /\ \A i \in DOMAIN stream[c] : i < n /\ stream'[c][i] = stream[c][i]
                /\ stream'[c][n].from = e /\ stream'[c][n].kind = kind
                /\ n > Len(stream[c]) /\ Len(stream'[c]) = n
  <1>1. stream \in [MockCallers -> Seq(Entries)] /\ stream[c] \in Seq(Entries)
    BY DEF MockCallTypes
  <1> DEFINE x == [from |-> e, kind |-> kind]
  <1>2. x \in Entries /\ x.from = e /\ x.kind = kind
    BY DEF Entries
  <1> HIDE DEF x
  <1>3. CASE ~Reads(c)
    BY <1>1, <1>3 DEF Responded
  <1>4. CASE Reads(c)
    <2>1. stream' = [stream EXCEPT ![c] = Append(stream[c], x)]
      BY <1>4 DEF Responded, x
    <2>2. stream'[c] = Append(stream[c], x)
      BY <1>1, <2>1
    <2>3. /\ Append(stream[c], x) \in Seq(Entries) /\ Len(stream[c]) \in Nat
          /\ DOMAIN stream[c] = 1..Len(stream[c])
          /\ DOMAIN Append(stream[c], x) = 1..Len(stream[c]) + 1
          /\ \A i \in DOMAIN stream[c] : Append(stream[c], x)[i] = stream[c][i]
          /\ Append(stream[c], x)[Len(stream[c]) + 1] = x
      BY <1>1, <1>2, Appended
    <2>4. PICK n \in Nat : n = Len(stream[c]) + 1
      BY <2>3
    <2>5. /\ n \notin DOMAIN stream[c] /\ DOMAIN stream'[c] = DOMAIN stream[c] \cup {n}
          /\ n > Len(stream[c]) /\ Len(stream'[c]) = n
          /\ \A i \in DOMAIN stream[c] : i < n
      BY <2>2, <2>3, <2>4
    <2>6. /\ \A i \in DOMAIN stream[c] : stream'[c][i] = stream[c][i]
          /\ stream'[c][n] = x
      BY <2>2, <2>3, <2>4
    <2>7. stream' \in [MockCallers -> Seq(Entries)] /\ \A d \in MockCallers : d # c => stream'[d] = stream[d]
      BY <1>1, <2>1, <2>3
    <2> QED BY <1>2, <1>4, <2>5, <2>6, <2>7
  <1> QED BY <1>3, <1>4

LEMMA EndpointStays ==
  ASSUME NEW e \in MockEndpoints, NEW c \in MockCallers, OncePerEndpoint(e, c),
         InChannel(c, queries'[e]) => InChannel(c, queries[e]),
         InChannel(c, requests'[e]) => InChannel(c, requests[e]),
         c \in answering'[e] => c \in answering[e],
         e \in ran'[c] <=> e \in ran[c],
         From(e, c)' = From(e, c),
         \A i \in From(e, c) : stream'[c][i] = stream[c][i],
         Owed(e, c)' => Owed(e, c),
         Asked(c) => Asked(c)' /\ query'[c].kind = query[c].kind /\ query'[c].link = query[c].link
  PROVE  OncePerEndpoint(e, c)'
  <1>1. (ForHandler(c) => ForHandler(c)') /\ (ForProbe(c) => ForProbe(c)')
    BY DEF ForHandler, ForProbe, Claimed
  <1>2. e \in ran[c] =>
          \E i, j \in From(e, c) :
            i <= j /\ From(e, c) = {i, j} /\ stream'[c][i].kind = "ack"
    BY DEF OncePerEndpoint
  <1>3. e \notin ran[c] =>
          \A i, j \in From(e, c) : i = j /\ stream'[c][i].kind = "response" /\ ForProbe(c)
    BY DEF OncePerEndpoint
  <1> QED BY <1>1, <1>2, <1>3 DEF OncePerEndpoint

LEMMA CallerStays ==
  ASSUME MockCallTypes, MockCallTypes', NEW c \in MockCallers, CallerSays(c),
         query'[c] = query[c],
         \/ stream'[c] = stream[c]
         \/ Reads(c) /\ \E n \in Nat :
              /\ n \notin DOMAIN stream[c] /\ DOMAIN stream'[c] = DOMAIN stream[c] \cup {n}
              /\ \A i \in DOMAIN stream[c] : stream'[c][i] = stream[c][i]
              /\ n > Len(stream[c]) /\ Len(stream'[c]) = n,
         \A e \in MockEndpoints :
           /\ InChannel(c, queries'[e]) => InChannel(c, queries[e])
           /\ InChannel(c, requests'[e]) =>
                InChannel(c, requests[e]) \/ InChannel(c, queries[e])
           /\ c \in answering'[e] => c \in answering[e] \/ InChannel(c, requests[e])
  PROVE  CallerSays(c)'
  <1>1. Asked(c)' <=> Asked(c)
    BY DEF Asked
  <1>2. Asked(c) => query[c].read \in Nat /\ stream[c] \in Seq(Entries) /\ Len(stream[c]) \in Nat
    BY UnaskedIsIdle DEF MockQueries, MockCallTypes
  <1>3. CASE stream'[c] = stream[c]
    BY <1>1, <1>3 DEF CallerSays
  <1>4. CASE stream'[c] # stream[c]
    <2>1. PICK n \in Nat :
              /\ n \notin DOMAIN stream[c] /\ DOMAIN stream'[c] = DOMAIN stream[c] \cup {n}
              /\ \A i \in DOMAIN stream[c] : stream'[c][i] = stream[c][i]
              /\ n > Len(stream[c]) /\ Len(stream'[c]) = n
      BY <1>4
    <2>2. Reads(c) /\ query[c].state # "closed"
      BY <1>4 DEF Reads
    <2>3. Asked(c) => query[c].read < n /\ query[c].read <= Len(stream'[c])
      BY <1>2, <2>1 DEF CallerSays
    <2>4. Asked(c) => \A i \in DOMAIN stream'[c] : i <= query[c].read => stream'[c][i].kind = "ack"
      BY <1>2, <2>1, <2>3 DEF CallerSays
    <2> QED BY <1>1, <2>2, <2>3, <2>4 DEF CallerSays
  <1> QED BY <1>3, <1>4

LEMMA CallServiceStep ==
  ASSUME MockCallsInv, NEW c \in MockCallers, NEW k \in {"request", "probe"}, NEW l \in {"*", "arm"},
         NEW m \in SUBSET MockEndpoints, CallService(c, k, l, m)
  PROVE  MockCallsInv'
  <1>0. MockCallTypes /\ Channels /\ Endpoints /\ CallerViews
    BY DEF MockCallsInv
  <1> DEFINE new == [state |-> IF m = {} THEN "reading" ELSE "sending", kind |-> k,
                     link |-> l, left |-> m, read |-> 0]
  <1>1. /\ query' = [query EXCEPT ![c] = new] /\ ~Asked(c)
        /\ UNCHANGED <<stream, endpoint, queries, requests, answering, ran>>
    BY DEF CallService, Asked
  <1>2. /\ new \in MockQueries /\ new.left = m /\ new.read = 0 /\ new.state # "closed"
        /\ (m # {} => new.state = "sending")
    BY DEF MockQueries, CallStates
  <1> HIDE DEF new
  <1>3. /\ query' \in [MockCallers -> {Unasked} \cup MockQueries] /\ query'[c] = new
        /\ \A d \in MockCallers : d # c => query'[d] = query[d]
    BY <1>0, <1>1, <1>2 DEF MockCallTypes
  <1>4. MockCallTypes'
    BY <1>0, <1>1, <1>3 DEF MockCallTypes
  <1>5. Channels'
    BY <1>0, <1>1 DEF Channels
  <1>6. Endpoints'
    <2> SUFFICES ASSUME NEW e \in MockEndpoints, NEW d \in MockCallers PROVE OncePerEndpoint(e, d)'
      BY DEF Endpoints
    <2>1. OncePerEndpoint(e, d) /\ From(e, d)' = From(e, d)
      BY <1>0, <1>1 DEF Endpoints, From
    <2>2. CASE d # c
      BY <1>1, <1>3, <2>1, <2>2, EndpointStays DEF Owed, Asked
    <2>3. CASE d = c
      <3>1. ~ForHandler(c) /\ ~ForProbe(c) /\ ~Owed(e, c)
        BY <1>1 DEF ForHandler, ForProbe, Owed
      <3>2. /\ ~InChannel(c, queries[e]) /\ ~InChannel(c, requests[e]) /\ c \notin answering[e]
            /\ e \notin ran[c] /\ From(e, c) = {}
        BY <1>1, <2>1, <2>3, <3>1 DEF OncePerEndpoint
      <3> QED BY <1>1, <2>1, <2>3, <3>2 DEF OncePerEndpoint
    <2> QED BY <2>2, <2>3
  <1>7. CallerViews'
    <2> SUFFICES ASSUME NEW d \in MockCallers PROVE CallerSays(d)'
      BY DEF CallerViews
    <2>1. CASE d # c
      BY <1>0, <1>1, <1>3, <1>4, <2>1, CallerStays DEF CallerViews
    <2>2. CASE d = c
      <3>1. stream[c] \in Seq(Entries)
        BY <1>0 DEF MockCallTypes
      <3>2. Len(stream[c]) >= 0 /\ \A i \in DOMAIN stream[c] : ~(i <= 0)
        BY <3>1
      <3> QED BY <1>1, <1>2, <1>3, <2>2, <3>2 DEF CallerSays
    <2> QED BY <2>1, <2>2
  <1> QED BY <1>4, <1>5, <1>6, <1>7 DEF MockCallsInv

LEMMA SendQueryStep ==
  ASSUME MockCallsInv, NEW c \in MockCallers, NEW e \in MockEndpoints, SendQuery(c, e)
  PROVE  MockCallsInv'
  <1>0. MockCallTypes /\ Channels /\ Endpoints /\ CallerViews
    BY DEF MockCallsInv
  <1>1. /\ query[c].state = "sending" /\ e \in query[c].left
        /\ queries' = queries \/ queries' = [queries EXCEPT ![e] = Append(queries[e], c)]
        /\ UNCHANGED <<stream, requests, answering, ran>>
    BY DEF SendQuery
  <1>2. Asked(c) /\ query[c] \in MockQueries /\ Owed(e, c)
    BY <1>0, <1>1, UnaskedIsIdle DEF Owed
  <1>3. PICK new \in MockQueries :
          /\ query' = [query EXCEPT ![c] = new] /\ new.left = query[c].left \ {e}
          /\ new.kind = query[c].kind /\ new.link = query[c].link /\ new.read = query[c].read
          /\ new.state # "closed" /\ (new.left # {} => new.state = "sending")
    <2>1. CASE query[c].left = {e}
      <3> DEFINE new == [query[c] EXCEPT !.state = "reading", !.left = {}]
      <3>1. /\ new \in MockQueries /\ new.left = {} /\ new.state = "reading"
            /\ new.kind = query[c].kind /\ new.link = query[c].link /\ new.read = query[c].read
        BY <1>2 DEF MockQueries, CallStates
      <3>2. query' = [query EXCEPT ![c] = new]
        BY <2>1 DEF SendQuery
      <3> HIDE DEF new
      <3> QED BY <2>1, <3>1, <3>2
    <2>2. CASE query[c].left # {e}
      <3> DEFINE new == [query[c] EXCEPT !.left = query[c].left \ {e}]
      <3>1. /\ new \in MockQueries /\ new.left = query[c].left \ {e} /\ new.state = "sending"
            /\ new.kind = query[c].kind /\ new.link = query[c].link /\ new.read = query[c].read
        BY <1>1, <1>2 DEF MockQueries, CallStates
      <3>2. query' = [query EXCEPT ![c] = new]
        BY <2>2 DEF SendQuery
      <3> HIDE DEF new
      <3> QED BY <3>1, <3>2
    <2> QED BY <2>1, <2>2
  <1>4. /\ query' \in [MockCallers -> {Unasked} \cup MockQueries] /\ query'[c] = new
        /\ \A d \in MockCallers : d # c => query'[d] = query[d]
    BY <1>0, <1>3 DEF MockCallTypes
  <1>5. OncePerEndpoint(e, c)
    BY <1>0 DEF Endpoints
  <1>6. /\ queries' \in [MockEndpoints -> Seq(MockCallers)]
        /\ \A f \in MockEndpoints : f # e => queries'[f] = queries[f]
        /\ \A d : InChannel(d, queries'[e]) => InChannel(d, queries[e]) \/ d = c
        /\ EachOnce(queries'[e])
    <2>1. queries \in [MockEndpoints -> Seq(MockCallers)] /\ queries[e] \in Seq(MockCallers)
      BY <1>0 DEF MockCallTypes
    <2>2. EachOnce(queries[e]) /\ ~InChannel(c, queries[e])
      BY <1>0, <1>2, <1>5 DEF Channels, OncePerEndpoint
    <2>3. CASE queries' = queries
      BY <2>1, <2>2, <2>3
    <2>4. CASE queries' = [queries EXCEPT ![e] = Append(queries[e], c)]
      <3>1. queries'[e] = Append(queries[e], c)
        BY <2>1, <2>4
      <3>2. /\ Append(queries[e], c) \in Seq(MockCallers)
            /\ \A d : InChannel(d, Append(queries[e], c)) <=> InChannel(d, queries[e]) \/ d = c
            /\ EachOnce(Append(queries[e], c))
        BY <2>1, <2>2, Appended
      <3> QED BY <2>1, <2>4, <3>1, <3>2
    <2> QED BY <1>1, <2>3, <2>4
  <1>7. MockCallTypes'
    BY <1>0, <1>1, <1>4, <1>6 DEF MockCallTypes
  <1>8. Channels'
    BY <1>0, <1>1, <1>6 DEF Channels
  <1>9. Asked(c)' /\ (ForHandler(c)' <=> ForHandler(c)) /\ (ForProbe(c)' <=> ForProbe(c))
    <2>1. Asked(c)'
      BY <1>0, <1>3, <1>4, UnaskedIsIdle DEF Asked
    <2> QED BY <1>2, <1>3, <1>4, <2>1 DEF ForHandler, ForProbe, Claimed
  <1>10. Endpoints'
    <2> SUFFICES ASSUME NEW f \in MockEndpoints, NEW d \in MockCallers PROVE OncePerEndpoint(f, d)'
      BY DEF Endpoints
    <2>1. OncePerEndpoint(f, d) /\ From(f, d)' = From(f, d)
      BY <1>0, <1>1 DEF Endpoints, From
    <2>2. CASE d # c \/ f # e
      <3>1. InChannel(d, queries'[f]) => InChannel(d, queries[f])
        BY <1>6, <2>2
      <3>2. Owed(f, d)' => Owed(f, d)
        BY <1>2, <1>3, <1>4 DEF Owed, Asked
      <3>3. Asked(d) => Asked(d)' /\ query'[d].kind = query[d].kind /\ query'[d].link = query[d].link
        BY <1>3, <1>4, <1>9 DEF Asked
      <3> QED BY <1>1, <2>1, <3>1, <3>2, <3>3, EndpointStays
    <2>3. CASE d = c /\ f = e
      <3>1. ~Owed(e, c)'
        BY <1>3, <1>4 DEF Owed
      <3>2. ~InChannel(c, requests[e]) /\ e \notin ran[c] /\ From(e, c) = {} /\ c \notin answering[e]
        BY <1>2, <1>5 DEF OncePerEndpoint
      <3> QED BY <1>1, <1>9, <2>1, <2>3, <3>1, <3>2 DEF OncePerEndpoint
    <2> QED BY <2>2, <2>3
  <1>11. CallerViews'
    <2> SUFFICES ASSUME NEW d \in MockCallers PROVE CallerSays(d)'
      BY DEF CallerViews
    <2>1. CASE d # c
      <3>1. \A f \in MockEndpoints : InChannel(d, queries'[f]) => InChannel(d, queries[f])
        BY <1>6, <2>1
      <3> QED BY <1>0, <1>1, <1>4, <1>7, <2>1, <3>1, CallerStays DEF CallerViews
    <2>2. CASE d = c
      BY <1>0, <1>1, <1>2, <1>3, <1>4, <2>2 DEF CallerSays, CallerViews
    <2> QED BY <2>1, <2>2
  <1> QED BY <1>7, <1>8, <1>10, <1>11 DEF MockCallsInv

(* A caller that reads on, or is done.                                       *)
LEMMA ReadsOn ==
  ASSUME MockCallsInv, NEW c \in MockCallers, ReadReply(c) \/ StreamCloses(c) \/ TimesOut(c)
  PROVE  MockCallsInv'
  <1>0. MockCallTypes /\ Channels /\ Endpoints /\ CallerViews
    BY DEF MockCallsInv
  <1>1. query[c].state = "reading" /\ UNCHANGED <<stream, queries, requests, answering, ran>>
    BY DEF ReadReply, StreamCloses, TimesOut
  <1>2. Asked(c) /\ query[c] \in MockQueries /\ CallerSays(c) /\ query[c].left = {}
    BY <1>0, <1>1, UnaskedIsIdle DEF CallerViews, CallerSays
  <1>3. PICK new \in MockQueries :
          /\ query' = [query EXCEPT ![c] = new] /\ new.left = {}
          /\ new.kind = query[c].kind /\ new.link = query[c].link
          /\ \/ new.read = query[c].read
             \/ /\ new.read = query[c].read + 1 /\ new.read <= Len(stream[c])
                /\ stream[c][new.read].kind = "ack"
          /\ new.state = "closed" =>
               query[c].read = Len(stream[c]) /\ ~TokensLeft(c)
    <2>1. ASSUME NEW how \in CallStates, Finishes(c, how),
                 how = "closed" => query[c].read = Len(stream[c]) /\ ~TokensLeft(c)
          PROVE  \E new \in MockQueries :
                   /\ query' = [query EXCEPT ![c] = new] /\ new.left = {}
                   /\ new.kind = query[c].kind /\ new.link = query[c].link
                   /\ new.read = query[c].read
                   /\ new.state = "closed" =>
                        query[c].read = Len(stream[c]) /\ ~TokensLeft(c)
      <3> DEFINE new == [query[c] EXCEPT !.state = how]
      <3>1. /\ new \in MockQueries /\ new.left = {} /\ new.state = how
            /\ new.kind = query[c].kind /\ new.link = query[c].link /\ new.read = query[c].read
        BY <1>2 DEF MockQueries
      <3>2. query' = [query EXCEPT ![c] = new]
        BY <2>1 DEF Finishes
      <3> HIDE DEF new
      <3> QED BY <2>1, <3>1, <3>2
    <2>2. CASE TimesOut(c)
      <3>1. Finishes(c, "late") /\ "late" \in CallStates
        BY <2>2 DEF TimesOut, CallStates
      <3> QED BY <2>1, <3>1
    <2>3. CASE StreamCloses(c)
      <3>1. Finishes(c, "closed") /\ "closed" \in CallStates
        BY <2>3 DEF StreamCloses, CallStates
      <3>2. query[c].read = Len(stream[c]) /\ ~TokensLeft(c)
        BY <2>3 DEF StreamCloses
      <3> QED BY <2>1, <3>1, <3>2
    <2>4. CASE ReadReply(c) /\ stream[c][query[c].read + 1].kind # "ack"
      <3>1. Finishes(c, "answered") /\ "answered" \in CallStates
        BY <2>4 DEF ReadReply, CallStates
      <3> QED BY <2>1, <3>1
    <2>5. CASE ReadReply(c) /\ stream[c][query[c].read + 1].kind = "ack"
      <3> DEFINE new == [query[c] EXCEPT !.read = query[c].read + 1]
      <3>1. /\ new \in MockQueries /\ new.left = {} /\ new.state = "reading"
            /\ new.kind = query[c].kind /\ new.link = query[c].link /\ new.read = query[c].read + 1
        BY <1>1, <1>2 DEF MockQueries
      <3>2. query' = [query EXCEPT ![c] = new] /\ query[c].read < Len(stream[c])
        BY <2>5 DEF ReadReply
      <3>3. query[c].read + 1 <= Len(stream[c])
        <4>1. query[c].read \in Nat /\ Len(stream[c]) \in Nat
          BY <1>0, <1>2 DEF MockCallTypes, MockQueries
        <4> QED BY <3>2, <4>1
      <3> HIDE DEF new
      <3> QED BY <2>5, <3>1, <3>2, <3>3
    <2> QED BY <2>2, <2>3, <2>4, <2>5
  <1>4. /\ query' \in [MockCallers -> {Unasked} \cup MockQueries] /\ query'[c] = new
        /\ \A d \in MockCallers : d # c => query'[d] = query[d]
    BY <1>0, <1>3 DEF MockCallTypes
  <1>5. MockCallTypes'
    BY <1>0, <1>1, <1>4 DEF MockCallTypes
  <1>6. Channels'
    BY <1>0, <1>1 DEF Channels
  <1>7. Asked(c)'
    BY <1>0, <1>3, <1>4, UnaskedIsIdle DEF Asked
  <1>8. Endpoints'
    <2> SUFFICES ASSUME NEW f \in MockEndpoints, NEW d \in MockCallers PROVE OncePerEndpoint(f, d)'
      BY DEF Endpoints
    <2>1. OncePerEndpoint(f, d) /\ From(f, d)' = From(f, d)
      BY <1>0, <1>1 DEF Endpoints, From
    <2>2. Owed(f, d)' => Owed(f, d)
      BY <1>3, <1>4 DEF Owed, Asked
    <2>3. Asked(d) => Asked(d)' /\ query'[d].kind = query[d].kind /\ query'[d].link = query[d].link
      BY <1>3, <1>4, <1>7 DEF Asked
    <2> QED BY <1>1, <2>1, <2>2, <2>3, EndpointStays
  <1>9. CallerViews'
    <2> SUFFICES ASSUME NEW d \in MockCallers PROVE CallerSays(d)'
      BY DEF CallerViews
    <2>1. CASE d # c
      BY <1>0, <1>1, <1>4, <1>5, <2>1, CallerStays DEF CallerViews
    <2>2. CASE d = c
      <3>1. /\ stream[c] \in Seq(Entries) /\ Len(stream[c]) \in Nat /\ DOMAIN stream[c] = 1..Len(stream[c])
            /\ query[c].read \in Nat
        BY <1>0, <1>2 DEF MockCallTypes, MockQueries
      <3>2. new.read <= Len(stream[c])
        BY <1>2, <1>3 DEF CallerSays
      <3>3. \A i \in DOMAIN stream[c] : i <= new.read => stream[c][i].kind = "ack"
        BY <1>2, <1>3, <3>1 DEF CallerSays
      <3>4. ASSUME new.state = "closed"
            PROVE  /\ \A e \in MockEndpoints :
                        ~InChannel(c, queries[e]) /\ ~InChannel(c, requests[e]) /\ c \notin answering[e]
                   /\ \A i \in DOMAIN stream[c] : stream[c][i].kind = "ack"
        <4>1. query[c].read = Len(stream[c]) /\ ~TokensLeft(c)
          BY <1>3, <3>4
        <4>2. \A e \in MockEndpoints : c \notin Range(queries[e]) \cup Range(requests[e]) \cup answering[e]
          BY <4>1 DEF TokensLeft
        <4>3. \A i \in DOMAIN stream[c] : stream[c][i].kind = "ack"
          BY <1>2, <3>1, <4>1 DEF CallerSays
        <4> QED BY <4>2, <4>3 DEF Range, InChannel
      <3> QED BY <1>1, <1>3, <1>4, <2>2, <3>2, <3>3, <3>4 DEF CallerSays
    <2> QED BY <2>1, <2>2
  <1> QED BY <1>5, <1>6, <1>8, <1>9 DEF MockCallsInv

LEMMA EndpointGoes ==
  ASSUME MockCallsInv, NEW e \in MockEndpoints, ListenService(e) \/ DropQueryable(e)
  PROVE  MockCallsInv'
  <1>0. MockCallTypes /\ Channels /\ Endpoints /\ CallerViews
    BY DEF MockCallsInv
  <1>1. /\ UNCHANGED <<query, stream, answering, ran>>
        /\ queries' = queries \/ queries' = [queries EXCEPT ![e] = <<>>]
        /\ requests' = requests \/ requests' = [requests EXCEPT ![e] = <<>>]
    BY DEF ListenService, DropQueryable
  <1>2. /\ queries' \in [MockEndpoints -> Seq(MockCallers)]
        /\ requests' \in [MockEndpoints -> Seq(MockCallers)]
        /\ \A f \in MockEndpoints : /\ queries'[f] \in {queries[f], <<>>}
                                    /\ requests'[f] \in {requests[f], <<>>}
    <2>1. /\ queries \in [MockEndpoints -> Seq(MockCallers)]
          /\ requests \in [MockEndpoints -> Seq(MockCallers)]
          /\ <<>> \in Seq(MockCallers)
      BY <1>0 DEF MockCallTypes
    <2>2. /\ queries' \in [MockEndpoints -> Seq(MockCallers)]
          /\ \A f \in MockEndpoints : queries'[f] \in {queries[f], <<>>}
      BY <1>1, <2>1
    <2>3. /\ requests' \in [MockEndpoints -> Seq(MockCallers)]
          /\ \A f \in MockEndpoints : requests'[f] \in {requests[f], <<>>}
      BY <1>1, <2>1
    <2> QED BY <2>2, <2>3
  <1>3. (\A d : ~InChannel(d, <<>>)) /\ EachOnce(<<>>)
    BY DEF InChannel, EachOnce
  <1>4. \A f \in MockEndpoints, d \in MockCallers :
          /\ InChannel(d, queries'[f]) => InChannel(d, queries[f])
          /\ InChannel(d, requests'[f]) => InChannel(d, requests[f])
    BY <1>2, <1>3
  <1>5. MockCallTypes'
    BY <1>0, <1>1, <1>2 DEF MockCallTypes
  <1>6. Channels'
    BY <1>0, <1>2, <1>3 DEF Channels
  <1>7. Endpoints'
    <2> SUFFICES ASSUME NEW f \in MockEndpoints, NEW d \in MockCallers PROVE OncePerEndpoint(f, d)'
      BY DEF Endpoints
    <2>1. OncePerEndpoint(f, d) /\ From(f, d)' = From(f, d)
      BY <1>0, <1>1 DEF Endpoints, From
    <2>2. Owed(f, d)' => Owed(f, d)
      BY <1>1 DEF Owed, Asked
    <2>3. Asked(d) => Asked(d)' /\ query'[d].kind = query[d].kind /\ query'[d].link = query[d].link
      BY <1>1 DEF Asked
    <2> QED BY <1>1, <1>4, <2>1, <2>2, <2>3, EndpointStays
  <1>8. CallerViews'
    BY <1>0, <1>1, <1>4, <1>5, CallerStays DEF CallerViews
  <1> QED BY <1>5, <1>6, <1>7, <1>8 DEF MockCallsInv

(* What one endpoint does to the call of one caller.                         *)
LEMMA AtOneEndpoint ==
  ASSUME MockCallsInv, MockCallTypes', Channels',
         NEW e \in MockEndpoints, NEW c \in MockCallers, NEW kind \in {"ack", "response", "error"},
         stream' = stream \/ stream' = Responded(e, c, kind), query' = query,
         \A f \in MockEndpoints, d \in MockCallers :
           /\ InChannel(d, queries'[f]) => InChannel(d, queries[f])
           /\ InChannel(d, requests'[f]) =>
                InChannel(d, requests[f]) \/ (f = e /\ d = c /\ InChannel(d, queries[f]))
           /\ d \in answering'[f] =>
                d \in answering[f] \/ (f = e /\ d = c /\ InChannel(d, requests[f]))
           /\ f # e \/ d # c => (f \in ran'[d] <=> f \in ran[d]),
         OncePerEndpoint(e, c)'
  PROVE  MockCallsInv'
  <1>0. MockCallTypes /\ Channels /\ Endpoints /\ CallerViews
    BY DEF MockCallsInv
  <1>1. /\ \A d \in MockCallers : d # c => stream'[d] = stream[d]
        /\ \/ stream'[c] = stream[c]
           \/ Reads(c) /\ \E n \in Nat :
                /\ n \notin DOMAIN stream[c] /\ DOMAIN stream'[c] = DOMAIN stream[c] \cup {n}
                /\ \A i \in DOMAIN stream[c] : stream'[c][i] = stream[c][i]
                /\ stream'[c][n].from = e
                /\ n > Len(stream[c]) /\ Len(stream'[c]) = n
    BY <1>0, HearsResponse
  <1>2. Endpoints'
    <2> SUFFICES ASSUME NEW f \in MockEndpoints, NEW d \in MockCallers, f # e \/ d # c
                 PROVE  OncePerEndpoint(f, d)'
      BY DEF Endpoints
    <2>1. OncePerEndpoint(f, d)
      BY <1>0 DEF Endpoints
    <2>2. From(f, d)' = From(f, d) /\ \A i \in From(f, d) : stream'[d][i] = stream[d][i]
      BY <1>1 DEF From
    <2>3. (Owed(f, d)' => Owed(f, d)) /\ (Asked(d) => Asked(d)')
      BY DEF Owed, Asked
    <2> QED BY <2>1, <2>2, <2>3, EndpointStays
  <1>3. CallerViews'
    <2> SUFFICES ASSUME NEW d \in MockCallers PROVE CallerSays(d)'
      BY DEF CallerViews
    <2>1. \/ stream'[d] = stream[d]
          \/ Reads(d) /\ \E n \in Nat :
                /\ n \notin DOMAIN stream[d] /\ DOMAIN stream'[d] = DOMAIN stream[d] \cup {n}
                /\ \A i \in DOMAIN stream[d] : stream'[d][i] = stream[d][i]
                /\ n > Len(stream[d]) /\ Len(stream'[d]) = n
      BY <1>1
    <2> QED BY <1>0, <2>1, CallerStays DEF CallerViews
  <1> QED BY <1>2, <1>3 DEF MockCallsInv

LEMMA ForwardQueryStep ==
  ASSUME MockCallsInv, NEW e \in MockEndpoints, ForwardQuery(e) PROVE MockCallsInv'
  <1>0. MockCallTypes /\ Channels /\ Endpoints /\ CallerViews
    BY DEF MockCallsInv
  <1>1. /\ queries[e] # <<>> /\ queries' = [queries EXCEPT ![e] = Tail(queries[e])]
        /\ UNCHANGED <<query, answering, ran>>
        /\ queries \in [MockEndpoints -> Seq(MockCallers)] /\ queries[e] \in Seq(MockCallers)
        /\ requests \in [MockEndpoints -> Seq(MockCallers)] /\ requests[e] \in Seq(MockCallers)
    BY <1>0 DEF ForwardQuery, MockCallTypes
  <1>t. /\ Tail(queries[e]) \in Seq(MockCallers) /\ Head(queries[e]) \in MockCallers
        /\ InChannel(Head(queries[e]), queries[e])
        /\ \A d : InChannel(d, Tail(queries[e])) => InChannel(d, queries[e])
        /\ EachOnce(queries[e]) =>
             EachOnce(Tail(queries[e])) /\ ~InChannel(Head(queries[e]), Tail(queries[e]))
    BY <1>1, Tailed
  <1>2. PICK c \in MockCallers : c = Head(queries[e])
    BY <1>t
  <1>3. /\ queries' \in [MockEndpoints -> Seq(MockCallers)]
        /\ \A f \in MockEndpoints : f # e => queries'[f] = queries[f]
        /\ \A d : InChannel(d, queries'[e]) => InChannel(d, queries[e])
        /\ ~InChannel(c, queries'[e]) /\ InChannel(c, queries[e])
        /\ \A f \in MockEndpoints : EachOnce(queries'[f])
    BY <1>0, <1>1, <1>t, <1>2 DEF Channels
  <1>4. /\ Asked(c) /\ ~InChannel(c, requests[e]) /\ e \notin ran[c] /\ From(e, c) = {}
        /\ ~Owed(e, c) /\ c \notin answering[e]
    BY <1>0, <1>3 DEF Endpoints, OncePerEndpoint
  <1>5. (Asked(c)' <=> Asked(c)) /\ (Owed(e, c)' <=> Owed(e, c)) /\ query[c] \in MockQueries
          /\ (ForHandler(c)' <=> ForHandler(c)) /\ (ForProbe(c)' <=> ForProbe(c))
    BY <1>0, <1>1, <1>4, UnaskedIsIdle DEF Asked, Owed, ForHandler, ForProbe, Claimed
  <1>6. CASE ~Claimed(c)
    <2>1. UNCHANGED <<stream, requests>>
      BY <1>2, <1>6 DEF ForwardQuery
    <2>2. MockCallTypes' /\ Channels'
      BY <1>0, <1>1, <1>3, <2>1 DEF MockCallTypes, Channels
    <2>3. From(e, c)' = {}
      BY <1>4, <2>1 DEF From
    <2>4. OncePerEndpoint(e, c)'
      BY <1>1, <1>3, <1>4, <1>5, <2>1, <2>3 DEF OncePerEndpoint
    <2> QED BY <1>1, <1>3, <2>1, <2>2, <2>4, AtOneEndpoint
  <1>7. CASE Claimed(c) /\ AnsweredAside(c)
    <2>1. stream' = Responded(e, c, "response") /\ requests' = requests
      BY <1>2, <1>7 DEF ForwardQuery
    <2>2. MockCallTypes' /\ Channels'
      BY <1>0, <1>1, <1>3, <2>1, HearsResponse DEF MockCallTypes, Channels
    <2>3. \A i, j \in From(e, c)' : i = j /\ stream'[c][i].kind = "response"
      BY <1>0, <1>4, <2>1, HearsResponse DEF From
    <2>4. ForProbe(c)
      BY <1>4, <1>7 DEF ForProbe, AnsweredAside
    <2>5. OncePerEndpoint(e, c)'
      BY <1>1, <1>3, <1>4, <1>5, <2>1, <2>3, <2>4 DEF OncePerEndpoint
    <2> QED BY <1>1, <1>3, <2>1, <2>2, <2>5, AtOneEndpoint
  <1>8. CASE Claimed(c) /\ ~AnsweredAside(c)
    <2>1. requests' = [requests EXCEPT ![e] = Append(requests[e], c)] /\ stream' = stream
      BY <1>2, <1>8 DEF ForwardQuery
    <2>2. /\ Append(requests[e], c) \in Seq(MockCallers)
          /\ \A d : InChannel(d, Append(requests[e], c)) <=> InChannel(d, requests[e]) \/ d = c
          /\ EachOnce(requests[e]) /\ ~InChannel(c, requests[e]) => EachOnce(Append(requests[e], c))
      BY <1>1, Appended
    <2>3. /\ requests' \in [MockEndpoints -> Seq(MockCallers)]
          /\ \A f \in MockEndpoints : f # e => requests'[f] = requests[f]
          /\ \A d : InChannel(d, requests'[e]) => InChannel(d, requests[e]) \/ d = c
          /\ EachOnce(requests'[e])
      BY <1>0, <1>1, <1>4, <2>1, <2>2 DEF Channels
    <2>4. MockCallTypes' /\ Channels'
      BY <1>0, <1>1, <1>3, <2>1, <2>3 DEF MockCallTypes, Channels
    <2>5. ForHandler(c)
      BY <1>4, <1>5, <1>8 DEF ForHandler, AnsweredAside, MockQueries
    <2>6. From(e, c)' = {}
      BY <1>4, <2>1 DEF From
    <2>7. OncePerEndpoint(e, c)'
      BY <1>1, <1>3, <1>4, <1>5, <2>5, <2>6 DEF OncePerEndpoint
    <2>8. \A f \in MockEndpoints, d \in MockCallers :
           /\ InChannel(d, queries'[f]) => InChannel(d, queries[f])
           /\ InChannel(d, requests'[f]) =>
                InChannel(d, requests[f]) \/ (f = e /\ d = c /\ InChannel(d, queries[f]))
      BY <1>3, <2>3
    <2> QED BY <1>1, <2>1, <2>4, <2>7, <2>8, AtOneEndpoint
  <1> QED BY <1>6, <1>7, <1>8

LEMMA RecvNextRequestStep ==
  ASSUME MockCallsInv, NEW e \in MockEndpoints, RecvNextRequest(e) PROVE MockCallsInv'
  <1>0. MockCallTypes /\ Channels /\ Endpoints /\ CallerViews
    BY DEF MockCallsInv
  <1>1. /\ requests[e] # <<>> /\ requests' = [requests EXCEPT ![e] = Tail(requests[e])]
        /\ UNCHANGED <<query, queries>>
        /\ requests \in [MockEndpoints -> Seq(MockCallers)] /\ requests[e] \in Seq(MockCallers)
    BY <1>0 DEF RecvNextRequest, MockCallTypes
  <1>t. /\ Tail(requests[e]) \in Seq(MockCallers) /\ Head(requests[e]) \in MockCallers
        /\ InChannel(Head(requests[e]), requests[e])
        /\ \A d : InChannel(d, Tail(requests[e])) => InChannel(d, requests[e])
        /\ EachOnce(requests[e]) =>
             EachOnce(Tail(requests[e])) /\ ~InChannel(Head(requests[e]), Tail(requests[e]))
    BY <1>1, Tailed
  <1>2. PICK c \in MockCallers : c = Head(requests[e])
    BY <1>t
  <1>3. /\ requests' \in [MockEndpoints -> Seq(MockCallers)]
        /\ \A f \in MockEndpoints : f # e => requests'[f] = requests[f]
        /\ \A d : InChannel(d, requests'[e]) => InChannel(d, requests[e])
        /\ ~InChannel(c, requests'[e]) /\ InChannel(c, requests[e])
        /\ \A f \in MockEndpoints : EachOnce(requests'[f])
    BY <1>0, <1>1, <1>t, <1>2 DEF Channels
  <1>4. /\ ForHandler(c) /\ e \notin ran[c] /\ From(e, c) = {} /\ ~InChannel(c, queries[e])
        /\ ~Owed(e, c) /\ c \notin answering[e]
    BY <1>0, <1>3 DEF Endpoints, OncePerEndpoint
  <1>5. (Owed(e, c)' <=> Owed(e, c)) /\ (ForHandler(c)' <=> ForHandler(c))
    BY <1>1 DEF Asked, Owed, ForHandler, Claimed
  <1>6. stream' = Responded(e, c, "ack")
    BY <1>2 DEF RecvNextRequest
  <1>7. CASE Reads(c)
    <2>1. /\ answering' = [answering EXCEPT ![e] = answering[e] \cup {c}]
          /\ ran' = [ran EXCEPT ![c] = ran[c] \cup {e}]
      BY <1>2, <1>7 DEF RecvNextRequest, Acknowledged
    <2>2. /\ answering' \in [MockEndpoints -> SUBSET MockCallers]
          /\ ran' \in [MockCallers -> SUBSET MockEndpoints]
          /\ e \in ran'[c] /\ answering'[e] = answering[e] \cup {c}
          /\ \A f \in MockEndpoints : f # e => answering'[f] = answering[f]
          /\ \A d \in MockCallers : d # c => ran'[d] = ran[d]
          /\ \A f \in MockEndpoints : f # e => (f \in ran'[c] <=> f \in ran[c])
      BY <1>0, <2>1 DEF MockCallTypes
    <2>3. MockCallTypes' /\ Channels'
      BY <1>0, <1>1, <1>3, <1>6, <2>2, HearsResponse DEF MockCallTypes, Channels
    <2>4. PICK n \in Nat : From(e, c)' = {n} /\ stream'[c][n].kind = "ack"
      BY <1>0, <1>4, <1>6, <1>7, HearsResponse DEF From
    <2>5. OncePerEndpoint(e, c)'
      BY <1>1, <1>3, <1>4, <1>5, <2>2, <2>4 DEF OncePerEndpoint
    <2>6. \A f \in MockEndpoints, d \in MockCallers :
           /\ InChannel(d, queries'[f]) => InChannel(d, queries[f])
           /\ InChannel(d, requests'[f]) =>
                InChannel(d, requests[f]) \/ (f = e /\ d = c /\ InChannel(d, queries[f]))
           /\ d \in answering'[f] =>
                d \in answering[f] \/ (f = e /\ d = c /\ InChannel(d, requests[f]))
           /\ f # e \/ d # c => (f \in ran'[d] <=> f \in ran[d])
      BY <1>1, <1>3, <2>2
    <2> QED BY <1>1, <1>6, <2>3, <2>5, <2>6, AtOneEndpoint
  <1>8. CASE ~Reads(c)
    <2>1. UNCHANGED <<stream, answering, ran>>
      BY <1>0, <1>2, <1>6, <1>8, HearsResponse DEF RecvNextRequest, Acknowledged
    <2>2. MockCallTypes' /\ Channels'
      BY <1>0, <1>1, <1>3, <2>1 DEF MockCallTypes, Channels
    <2>3. From(e, c)' = {}
      BY <1>4, <2>1 DEF From
    <2>4. OncePerEndpoint(e, c)'
      BY <1>1, <1>3, <1>4, <1>5, <2>1, <2>3 DEF OncePerEndpoint
    <2>5. \A f \in MockEndpoints, d \in MockCallers :
            InChannel(d, requests'[f]) => InChannel(d, requests[f])
      BY <1>3
    <2> QED BY <1>1, <2>1, <2>2, <2>4, <2>5, AtOneEndpoint
  <1> QED BY <1>7, <1>8

LEMMA DeliverOutcomeStep ==
  ASSUME MockCallsInv, NEW e \in MockEndpoints, NEW c \in MockCallers,
         NEW kind \in {"response", "error", "dropped"}, DeliverOutcome(e, c, kind)
  PROVE  MockCallsInv'
  <1>0. MockCallTypes /\ Channels /\ Endpoints /\ CallerViews
    BY DEF MockCallsInv
  <1>1. /\ c \in answering[e] /\ answering' = [answering EXCEPT ![e] = answering[e] \ {c}]
        /\ stream' = IF kind = "dropped" THEN stream ELSE Responded(e, c, kind)
        /\ UNCHANGED <<query, queries, requests, ran>>
    BY DEF DeliverOutcome
  <1>2. /\ answering' \in [MockEndpoints -> SUBSET MockCallers] /\ c \notin answering'[e]
        /\ \A f \in MockEndpoints : answering'[f] \subseteq answering[f]
    BY <1>0, <1>1 DEF MockCallTypes
  <1>3. OncePerEndpoint(e, c) /\ e \in ran[c]
    BY <1>0, <1>1 DEF Endpoints, OncePerEndpoint
  <1>4. PICK i \in From(e, c) : From(e, c) = {i} /\ stream[c][i].kind = "ack"
    BY <1>1, <1>3 DEF OncePerEndpoint
  <1>5. (Owed(e, c)' <=> Owed(e, c)) /\ (ForHandler(c)' <=> ForHandler(c))
    BY <1>1 DEF Asked, Owed, ForHandler, Claimed
  <1>i. i \in Nat /\ i \in DOMAIN stream[c]
    <2>1. stream[c] \in Seq(Entries)
      BY <1>0 DEF MockCallTypes
    <2> QED BY <1>4, <2>1 DEF From
  <1>6. CASE stream' = stream
    <2>1. MockCallTypes' /\ Channels'
      BY <1>0, <1>1, <1>2, <1>6 DEF MockCallTypes, Channels
    <2>2. From(e, c)' = {i} /\ stream'[c][i].kind = "ack"
      BY <1>4, <1>6 DEF From
    <2>3. OncePerEndpoint(e, c)'
      BY <1>1, <1>2, <1>3, <1>5, <1>i, <2>2 DEF OncePerEndpoint
    <2> QED BY <1>1, <1>2, <1>6, <2>1, <2>3, AtOneEndpoint
  <1>7. CASE stream' # stream
    <2>1. stream' = Responded(e, c, kind) /\ kind \in {"ack", "response", "error"}
      BY <1>1, <1>7
    <2>2. PICK n \in Nat :
                /\ n \notin DOMAIN stream[c] /\ DOMAIN stream'[c] = DOMAIN stream[c] \cup {n}
                /\ \A k \in DOMAIN stream[c] : k < n /\ stream'[c][k] = stream[c][k]
                /\ stream'[c][n].from = e
      BY <1>0, <1>7, <2>1, HearsResponse
    <2>3. MockCallTypes' /\ Channels'
      BY <1>0, <1>1, <1>2, <2>1, HearsResponse DEF MockCallTypes, Channels
    <2>4. From(e, c)' = {i, n} /\ stream'[c][i].kind = "ack" /\ i <= n
      BY <1>4, <1>i, <2>2 DEF From
    <2>5. OncePerEndpoint(e, c)'
      BY <1>1, <1>2, <1>3, <1>5, <2>4 DEF OncePerEndpoint
    <2> QED BY <1>1, <1>2, <2>1, <2>3, <2>5, AtOneEndpoint
  <1> QED BY <1>6, <1>7

(* The mock adapter keeps the protocol that calls rely on over zenoh, for    *)
(* all callers and endpoints: an endpoint that ran its handler acknowledged  *)
(* first and answered at most once, probes and foreign queries reach no      *)
(* handler, and a stream that closes unanswered is never answered            *)
(* (handle_mock_queryable, recv_next_request, ResponseToken).                *)
THEOREM MockCallsCorrect == MockCallsSpec => []MockKeepsProtocol
  <1>1. MockCallsInit => MockCallsInv
    <2> SUFFICES ASSUME MockCallsInit PROVE MockCallsInv
      OBVIOUS
    <2>1. /\ query = [c \in MockCallers |-> Unasked]
          /\ stream = [c \in MockCallers |-> <<>>] /\ ran = [c \in MockCallers |-> {}]
          /\ queries = [e \in MockEndpoints |-> <<>>]
          /\ requests = [e \in MockEndpoints |-> <<>>]
          /\ answering = [e \in MockEndpoints |-> {}]
      BY DEF MockCallsInit
    <2>2. MockCallTypes
      BY <2>1 DEF MockCallTypes
    <2>3. (\A d : ~InChannel(d, <<>>)) /\ EachOnce(<<>>)
      BY DEF InChannel, EachOnce
    <2>4. Channels
      BY <2>1, <2>3 DEF Channels
    <2>5. \A c \in MockCallers : ~Asked(c)
      BY <2>1 DEF Asked
    <2>6. \A e \in MockEndpoints, c \in MockCallers : From(e, c) = {}
      BY <2>1 DEF From
    <2>7. Endpoints
      BY <2>1, <2>3, <2>5, <2>6 DEF Endpoints, OncePerEndpoint, Owed
    <2>8. CallerViews
      BY <2>5 DEF CallerViews, CallerSays
    <2> QED BY <2>2, <2>4, <2>7, <2>8 DEF MockCallsInv
  <1>2. MockCallsInv /\ [MockCallsNext]_mockCallVars => MockCallsInv'
    <2> SUFFICES ASSUME MockCallsInv, [MockCallsNext]_mockCallVars PROVE MockCallsInv'
      OBVIOUS
    <2>1. CASE UNCHANGED mockCallVars
      <3>1. UNCHANGED <<query, stream, queries, requests, answering, ran>>
        BY <2>1 DEF mockCallVars
      <3>2. MockCallTypes' /\ Channels'
        BY <3>1 DEF MockCallsInv, MockCallTypes, Channels
      <3>3. Endpoints'
        <4> SUFFICES ASSUME NEW e \in MockEndpoints, NEW c \in MockCallers
                     PROVE  OncePerEndpoint(e, c)'
          BY DEF Endpoints
        <4>1. OncePerEndpoint(e, c) /\ From(e, c)' = From(e, c)
          BY <3>1 DEF MockCallsInv, Endpoints, From
        <4>2. (Owed(e, c)' => Owed(e, c)) /\ (Asked(c) => Asked(c)')
          BY <3>1 DEF Owed, Asked
        <4> QED BY <3>1, <4>1, <4>2, EndpointStays
      <3>4. CallerViews'
        BY <3>1 DEF MockCallsInv, CallerViews, CallerSays, Asked
      <3> QED BY <3>2, <3>3, <3>4 DEF MockCallsInv
    <2>2. ASSUME NEW c \in MockCallers, CallerStep(c) PROVE MockCallsInv'
      BY <2>2, CallServiceStep, SendQueryStep, ReadsOn DEF CallerStep
    <2>3. ASSUME NEW e \in MockEndpoints, EndpointStep(e) PROVE MockCallsInv'
      BY <2>3, EndpointGoes, ForwardQueryStep, RecvNextRequestStep, DeliverOutcomeStep
         DEF EndpointStep
    <2> QED BY <2>1, <2>2, <2>3 DEF MockCallsNext
  <1>3. MockCallsInv => MockKeepsProtocol
    <2> SUFFICES ASSUME MockCallsInv, NEW c \in MockCallers, Asked(c)
                 PROVE  /\ \A e \in MockEndpoints :
                             /\ e \in ran[c] => \E i, j \in From(e, c) :
                                  i <= j /\ From(e, c) = {i, j} /\ stream[c][i].kind = "ack"
                             /\ e \notin ran[c] => \A i, j \in From(e, c) :
                                  i = j /\ stream[c][i].kind = "response" /\ query[c].kind = "probe"
                        /\ ran[c] # {} => query[c].kind = "request" /\ query[c].link \in {"*", "_"}
                        /\ query[c].state = "closed" =>
                             /\ \A e \in MockEndpoints : c \notin answering[e]
                             /\ \A i \in DOMAIN stream[c] : stream[c][i].kind = "ack"
                             /\ stream[c] = <<>> => ran[c] = {}
      BY DEF MockKeepsProtocol, Asked
    <2>0. MockCallTypes /\ Endpoints /\ CallerViews /\ ran[c] \subseteq MockEndpoints
      BY DEF MockCallsInv, MockCallTypes
    <2>1. \A e \in MockEndpoints : OncePerEndpoint(e, c)
      BY <2>0 DEF Endpoints
    <2>2. \A e \in MockEndpoints :
             /\ e \in ran[c] => \E i, j \in From(e, c) :
                  i <= j /\ From(e, c) = {i, j} /\ stream[c][i].kind = "ack"
             /\ e \notin ran[c] => \A i, j \in From(e, c) :
                  i = j /\ stream[c][i].kind = "response" /\ query[c].kind = "probe"
      BY <2>1 DEF OncePerEndpoint, ForProbe
    <2>3. ran[c] # {} => ForHandler(c)
      BY <2>0, <2>1 DEF OncePerEndpoint
    <2>4. stream[c] = <<>> => ran[c] = {}
      <3>1. stream[c] = <<>> => \A e \in MockEndpoints : From(e, c) = {}
        BY DEF From
      <3> QED BY <2>0, <2>2, <3>1
    <2>5. query[c].state = "closed" =>
             /\ \A e \in MockEndpoints : c \notin answering[e]
             /\ \A i \in DOMAIN stream[c] : stream[c][i].kind = "ack"
      BY <2>0 DEF CallerViews, CallerSays
    <2> QED BY <2>2, <2>3, <2>4, <2>5 DEF ForHandler, Claimed
  <1> QED BY <1>1, <1>2, <1>3, PTL DEF MockCallsSpec

=============================================================================
