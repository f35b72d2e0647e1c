---------------------------- MODULE ServiceCall ----------------------------
(***************************************************************************)
(* Service calls of peppylib: ServiceMessenger::poll and is_reachable      *)
(* (peppylib-rs/src/messaging/services.rs), the attempts and deadlines of  *)
(* MessengerHandle::poll_service (messaging.rs), discovery by probe        *)
(* (discovery.rs), the endpoint that acknowledges and answers requests,    *)
(* and the query dispatch of the transport adapters with its bounded       *)
(* queue (peppy-messaging-interface/src/adapters).                         *)
(*                                                                         *)
(* The transport itself (zenoh) is external and modelled from its use: a   *)
(* query goes to the producers the session knows; its reply stream ends    *)
(* when every producer has dropped its half of the query, or died, or the  *)
(* link to it broke.  Time is abstract: PassBudget and PassDiscovery are   *)
(* the passing of a deadline.  Payloads are left out; a reply is who sent  *)
(* it and its kind.                                                        *)
(*                                                                         *)
(* An operator introduced by "Slip" is a wrong version of the one after    *)
(* it; nothing uses it but the runs that show which property would notice. *)
(***************************************************************************)
EXTENDS Naturals, Sequences, FiniteSets

CONSTANTS
  Calls,        \* calls of poll or is_reachable
  Producers,    \* service endpoints a selector may match, one boot each
  QueueCap,     \* capacity of an endpoint's request queue (buffer_sizes)
  MaxAttempts,  \* bound of the model on the queries one call issues
  LinksBreak,   \* may the link to a live producer be lost for a while?
  Spawns        \* does the endpoint's user handle requests concurrently?

ASSUME ServiceAssumption ==
  /\ QueueCap \in Nat \ {0}
  /\ MaxAttempts \in Nat \ {0}
  /\ LinksBreak \in BOOLEAN
  /\ Spawns \in BOOLEAN
  /\ "none" \notin Producers

VARIABLES
  phase,     \* what each call is doing
  scope,     \* the producers its ServiceTarget matches
  bounded,   \* has it a response_timeout?
  capped,    \* DISCOVERY_TIMEOUT has passed
  spent,     \* its response_timeout (or PROBE_TIMEOUT) has passed
  pin,       \* the producer it addresses, once resolved
  attempt,   \* queries issued so far
  waiting,   \* is it reading the replies of the last one?
  acked,     \* received_ack
  replies,   \* ReplyStream of the last query
  verdict,   \* how the call returned
  status,    \* of each producer's endpoint
  known,     \* producers the callers' session has learned of
  net,       \* queries on their way
  severed,   \* queries whose link broke: nobody hears their replies
  inbox,     \* ServiceQueryable.rx of each endpoint
  stuck,     \* the request, if any, whose dispatch callback is blocked on a
             \* full inbox
  serving,   \* acknowledged requests, until their responder is consumed
  accepted   \* producers that acknowledged each call (history)

callVars  == <<phase, scope, bounded, capped, spent, pin, attempt, waiting,
               acked, verdict>>
sideVars  == <<status, known>>
queryVars == <<net, severed, inbox, stuck, serving>>
vars == <<callVars, replies, sideVars, queryVars, accepted>>

None == "none"

Active == {"discover", "request", "reach"}

Queries == [call : Calls, try : 1..MaxAttempts, to : Producers,
            kind : {"probe", "request"}]

Replies == [from : Producers, kind : {"ack", "response", "error"}]

Queued(p) == {inbox[p][i] : i \in DOMAIN inbox[p]}

(* The copies of queries a producer's side still holds.                      *)
HeldBy(p) == stuck[p] \cup Queued(p) \cup serving[p]

Pending == net \cup UNION {HeldBy(p) : p \in Producers}

(* Slip: only the copies on their way count.                                 *)
OpenOnNet(c) == {q \in net \ severed : q.call = c /\ q.try = attempt[c]}

(* The copies that keep the reply stream of the call's last query open.      *)
Open(c) == {q \in Pending \ severed : q.call = c /\ q.try = attempt[c]}

(* Slip: replies to an earlier query of the call are taken as well.          *)
HeardAnyTry(q) == waiting[q.call] /\ q \notin severed

(* Somebody reads the stream a reply to q would go to.                       *)
Heard(q) == /\ waiting[q.call] /\ q.try = attempt[q.call]
            /\ q \notin severed

Reply(q, kind) ==
  replies' = IF Heard(q)
             THEN [replies EXCEPT ![q.call] =
                     Append(@, [from |-> q.to, kind |-> kind])]
             ELSE replies

-----------------------------------------------------------------------------
(* The caller: poll, is_reachable, poll_service                              *)

Begin(c, to, b, producers, target) ==
  /\ phase[c] = "idle"
  /\ phase' = [phase EXCEPT ![c] = to]
  /\ bounded' = [bounded EXCEPT ![c] = b]
  /\ scope' = [scope EXCEPT ![c] = producers]
  /\ pin' = [pin EXCEPT ![c] = target]
  /\ UNCHANGED <<capped, spent, attempt, waiting, acked, verdict, replies,
                 sideVars, queryVars, accepted>>

Scopes == (SUBSET Producers) \ {{}}

(* poll with ServiceTarget::Producer: no discovery.                          *)
PollPinned(c) ==
  \E p \in Producers, b \in BOOLEAN : Begin(c, "request", b, {p}, p)

(* poll with ServiceTarget::Any or CoreNode: discover, then pin.             *)
PollScoped(c) ==
  \E s \in Scopes, b \in BOOLEAN : Begin(c, "discover", b, s, None)

(* is_reachable: one probe, bounded by PROBE_TIMEOUT.                        *)
IsReachable(c) == \E s \in Scopes : Begin(c, "reach", TRUE, s, None)

(* Slip: only a discovery has a deadline.                                    *)
DeadlineOfDiscovery(c) == phase[c] = "discover" /\ (spent[c] \/ capped[c])

(* The deadline of the poll_service call the call is in.  A discovery is     *)
(* bounded even if the call is not.                                          *)
DeadlinePassed(c) == spent[c] \/ (phase[c] = "discover" /\ capped[c])

HasDeadline(c) == bounded[c] \/ phase[c] = "discover"

(* How poll_service's error is returned: probe_reachable maps it to a        *)
(* boolean.                                                                  *)
Returned(c, error) ==
  IF phase[c] # "reach" THEN error
  ELSE IF error = "timeout" THEN "reachable" ELSE "absent"

Return(c, v) ==
  /\ phase' = [phase EXCEPT ![c] = "done"]
  /\ verdict' = [verdict EXCEPT ![c] = v]
  /\ waiting' = [waiting EXCEPT ![c] = FALSE]
  /\ acked' = [acked EXCEPT ![c] = FALSE]
  /\ replies' = [replies EXCEPT ![c] = <<>>]
  /\ UNCHANGED <<scope, bounded, capped, spent, pin, attempt>>

(* Slip: no difference is made.                                              *)
NoReplyTimesOut(c) == "timeout"

(* What tells a slow service from an unreachable one.                        *)
NoReply(c) == IF acked[c] THEN "timeout" ELSE "unreachable"

(* The head of the attempt loop: the deadline has passed.                    *)
GiveUp(c) ==
  /\ phase[c] \in Active /\ ~waiting[c] /\ DeadlinePassed(c)
  /\ Return(c, Returned(c, "unreachable"))
  /\ UNCHANGED <<sideVars, queryVars, accepted>>

(* Slip: discovery addresses the pin it has yet to find.                     *)
TargetsPinned(c) == {pin[c]}

(* The producers a query is sent to.                                         *)
Targets(c) == known \cap (IF phase[c] = "request" THEN {pin[c]} ELSE scope[c])

(* The model's bound on queries: one is left for the request of a call that  *)
(* has to discover first.                                                    *)
AttemptsLeft(c) ==
  attempt[c] < (IF phase[c] = "discover" THEN MaxAttempts - 1 ELSE MaxAttempts)

(* call_service: one query to every matching producer known to the session.  *)
Issue(c) ==
  /\ phase[c] \in Active /\ ~waiting[c] /\ ~DeadlinePassed(c)
  /\ AttemptsLeft(c)
  /\ attempt' = [attempt EXCEPT ![c] = @ + 1]
  /\ waiting' = [waiting EXCEPT ![c] = TRUE]
  /\ net' = net \cup
       {[call |-> c, try |-> attempt[c] + 1, to |-> p,
         kind |-> IF phase[c] = "request" THEN "request" ELSE "probe"] :
           p \in Targets(c)}
  /\ UNCHANGED <<phase, scope, bounded, capped, spent, pin, acked, verdict,
                 replies, sideVars, severed, inbox, stuck, serving, accepted>>

(* An acknowledgement is noted; the deadline is looked at before the next    *)
(* reply is read.                                                            *)
ReadAck(c) ==
  /\ waiting[c] /\ replies[c] # <<>> /\ Head(replies[c]).kind = "ack"
  /\ IF DeadlinePassed(c)
     THEN Return(c, Returned(c, "timeout"))
     ELSE /\ acked' = [acked EXCEPT ![c] = TRUE]
          /\ replies' = [replies EXCEPT ![c] = Tail(@)]
          /\ UNCHANGED <<phase, scope, bounded, capped, spent, pin, attempt,
                         waiting, verdict>>
  /\ UNCHANGED <<sideVars, queryVars, accepted>>

(* The first response to a discovery probe pins its sender; what is left of  *)
(* the budget goes to the request.                                           *)
ReadPin(c) ==
  /\ phase[c] = "discover"
  /\ waiting[c] /\ replies[c] # <<>> /\ Head(replies[c]).kind # "ack"
  /\ pin' = [pin EXCEPT ![c] = Head(replies[c]).from]
  /\ phase' = [phase EXCEPT ![c] = IF spent[c] THEN "done" ELSE "request"]
  /\ verdict' = [verdict EXCEPT ![c] = IF spent[c] THEN "timeout" ELSE None]
  /\ waiting' = [waiting EXCEPT ![c] = FALSE]
  /\ acked' = [acked EXCEPT ![c] = FALSE]
  /\ replies' = [replies EXCEPT ![c] = <<>>]
  /\ UNCHANGED <<scope, bounded, capped, spent, attempt, sideVars, queryVars,
                 accepted>>

(* The terminal reply of a request or of is_reachable's probe.               *)
ReadAnswer(c) ==
  /\ phase[c] \in {"request", "reach"}
  /\ waiting[c] /\ replies[c] # <<>> /\ Head(replies[c]).kind # "ack"
  /\ Return(c, IF phase[c] = "reach" THEN "reachable"
               ELSE IF Head(replies[c]).kind = "error" THEN "failed"
               ELSE "answered")
  /\ UNCHANGED <<sideVars, queryVars, accepted>>

(* Slip: the attempt is repeated although it was acknowledged.               *)
RetriesAlways(c) == HasDeadline(c) /\ ~DeadlinePassed(c)

(* Slip: a call without a budget retries as well.                            *)
RetriesUnbudgeted(c) == ~acked[c] /\ ~DeadlinePassed(c)

(* Nobody acknowledged the attempt, and there is a budget that bounds the    *)
(* retry.                                                                    *)
Retries(c) == ~acked[c] /\ HasDeadline(c) /\ ~DeadlinePassed(c)

(* The query is finalized with no (further) reply.                           *)
StreamEnds(c) ==
  /\ waiting[c] /\ replies[c] = <<>> /\ Open(c) = {}
  /\ IF Retries(c)
     THEN /\ waiting' = [waiting EXCEPT ![c] = FALSE]
          /\ UNCHANGED <<phase, scope, bounded, capped, spent, pin, attempt,
                         acked, verdict, replies>>
     ELSE Return(c, Returned(c, NoReply(c)))
  /\ UNCHANGED <<sideVars, queryVars, accepted>>

(* The deadline passes while the query is open.                              *)
Expire(c) ==
  /\ waiting[c] /\ DeadlinePassed(c)
  /\ Return(c, Returned(c, NoReply(c)))
  /\ UNCHANGED <<sideVars, queryVars, accepted>>

(* The caller drops its future (cancelled from Python, or a lost select).    *)
DropCall(c) ==
  /\ phase[c] \in Active
  /\ Return(c, "dropped")
  /\ UNCHANGED <<sideVars, queryVars, accepted>>

PassBudget(c) ==
  /\ phase[c] \in Active /\ bounded[c] /\ ~spent[c]
  /\ spent' = [spent EXCEPT ![c] = TRUE]
  /\ UNCHANGED <<phase, scope, bounded, capped, pin, attempt, waiting, acked,
                 verdict, replies, sideVars, queryVars, accepted>>

PassDiscovery(c) ==
  /\ phase[c] = "discover" /\ ~capped[c]
  /\ capped' = [capped EXCEPT ![c] = TRUE]
  /\ UNCHANGED <<phase, scope, bounded, spent, pin, attempt, waiting, acked,
                 verdict, replies, sideVars, queryVars, accepted>>

-----------------------------------------------------------------------------
(* The endpoint: dispatch, recv_next_request, the responder                  *)

(* The adapter's dispatch callback: one query at a time, none while the last *)
(* one is blocked on a full inbox.                                           *)
Dispatchable(q) == q \in net /\ status[q.to] = "on" /\ stuck[q.to] = {}

(* Probes are answered in the dispatch path, with a response and no ack.     *)
DispatchProbe(q) ==
  /\ Dispatchable(q) /\ q.kind = "probe"
  /\ net' = net \ {q}
  /\ Reply(q, "response")
  /\ UNCHANGED <<callVars, sideVars, severed, inbox, stuck, serving, accepted>>

Room(p) == Len(inbox[p]) < QueueCap

(* A request goes to the inbox; with no room the callback blocks on it.      *)
DispatchRequest(q) ==
  /\ Dispatchable(q) /\ q.kind = "request"
  /\ net' = net \ {q}
  /\ IF Room(q.to)
     THEN inbox' = [inbox EXCEPT ![q.to] = Append(@, q)] /\ UNCHANGED stuck
     ELSE stuck' = [stuck EXCEPT ![q.to] = {q}] /\ UNCHANGED inbox
  /\ UNCHANGED <<callVars, replies, sideVars, severed, serving, accepted>>

Unblock(p) ==
  /\ Room(p)
  /\ \E q \in stuck[p] : inbox' = [inbox EXCEPT ![p] = Append(@, q)]
  /\ stuck' = [stuck EXCEPT ![p] = {}]
  /\ UNCHANGED <<callVars, replies, sideVars, net, severed, serving, accepted>>

(* A query for an endpoint that is gone is dropped on its way.               *)
LoseQuery(q) ==
  /\ q \in net /\ status[q.to] # "on"
  /\ net' = net \ {q}
  /\ UNCHANGED <<callVars, replies, sideVars, severed, inbox, stuck, serving,
                 accepted>>

CanTake(p) == /\ status[p] = "on" /\ inbox[p] # <<>>
              /\ Spawns \/ serving[p] = {}

(* recv_next_request: the head of the inbox is acknowledged and handed to    *)
(* the handler.                                                              *)
TakeRequest(p) ==
  /\ CanTake(p)
  /\ inbox' = [inbox EXCEPT ![p] = Tail(@)]
  /\ Reply(Head(inbox[p]), "ack")
  /\ serving' = [serving EXCEPT ![p] = @ \cup {Head(inbox[p])}]
  /\ accepted' = [accepted EXCEPT ![Head(inbox[p]).call] = Append(@, p)]
  /\ UNCHANGED <<callVars, sideVars, net, severed, stuck>>

(* recv_next_request: the acknowledgement fails because the caller no longer *)
(* listens, and the request is dropped.                                      *)
RefuseRequest(p) ==
  /\ CanTake(p) /\ ~Heard(Head(inbox[p]))
  /\ inbox' = [inbox EXCEPT ![p] = Tail(@)]
  /\ UNCHANGED <<callVars, replies, sideVars, net, severed, stuck, serving,
                 accepted>>

(* deliver_outcome: respond or respond_error consume the responder.          *)
FinishRequest(p, q) ==
  /\ q \in serving[p]
  /\ serving' = [serving EXCEPT ![p] = @ \ {q}]
  /\ \E kind \in {"response", "error"} : Reply(q, kind)
  /\ UNCHANGED <<callVars, sideVars, net, severed, inbox, stuck, accepted>>

(* The responder is dropped without an answer.                               *)
DropResponder(p, q) ==
  /\ q \in serving[p]
  /\ serving' = [serving EXCEPT ![p] = @ \ {q}]
  /\ UNCHANGED <<callVars, replies, sideVars, net, severed, inbox, stuck,
                 accepted>>

-----------------------------------------------------------------------------
(* Endpoints that come and go, and what the callers' session knows of them   *)

Listen(p) ==
  /\ status[p] = "off"
  /\ status' = [status EXCEPT ![p] = "on"]
  /\ UNCHANGED <<callVars, replies, known, queryVars, accepted>>

Learn(p) ==
  /\ status[p] = "on" /\ p \notin known
  /\ known' = known \cup {p}
  /\ UNCHANGED <<callVars, replies, status, queryVars, accepted>>

Forget(p) ==
  /\ status[p] # "on" /\ p \in known
  /\ known' = known \ {p}
  /\ UNCHANGED <<callVars, replies, status, queryVars, accepted>>

(* The ServiceEndpoint is dropped with what it has queued; handlers that     *)
(* were spawned go on.                                                       *)
CloseEndpoint(p) ==
  /\ status[p] = "on"
  /\ status' = [status EXCEPT ![p] = "closed"]
  /\ inbox' = [inbox EXCEPT ![p] = <<>>]
  /\ stuck' = [stuck EXCEPT ![p] = {}]
  /\ UNCHANGED <<callVars, replies, known, net, severed, serving, accepted>>

(* The producer's process dies.                                              *)
Crash(p) ==
  /\ status[p] \in {"on", "closed"}
  /\ status' = [status EXCEPT ![p] = "dead"]
  /\ inbox' = [inbox EXCEPT ![p] = <<>>]
  /\ stuck' = [stuck EXCEPT ![p] = {}]
  /\ serving' = [serving EXCEPT ![p] = {}]
  /\ UNCHANGED <<callVars, replies, known, net, severed, accepted>>

(* The link to a live producer is lost: its open queries are finalized on    *)
(* the caller's side, and it has to be learned of again.                     *)
BreakLink(p) ==
  /\ LinksBreak /\ status[p] = "on" /\ p \in known
  /\ known' = known \ {p}
  /\ net' = {q \in net : q.to # p}
  /\ severed' = severed \cup HeldBy(p)
  /\ UNCHANGED <<callVars, replies, status, inbox, stuck, serving, accepted>>

-----------------------------------------------------------------------------
Init ==
  /\ phase = [c \in Calls |-> "idle"]
  /\ scope = [c \in Calls |-> {}]
  /\ bounded = [c \in Calls |-> FALSE]
  /\ capped = [c \in Calls |-> FALSE]
  /\ spent = [c \in Calls |-> FALSE]
  /\ pin = [c \in Calls |-> None]
  /\ attempt = [c \in Calls |-> 0]
  /\ waiting = [c \in Calls |-> FALSE]
  /\ acked = [c \in Calls |-> FALSE]
  /\ replies = [c \in Calls |-> <<>>]
  /\ verdict = [c \in Calls |-> None]
  /\ status = [p \in Producers |-> "off"]
  /\ known = {}
  /\ net = {} /\ severed = {}
  /\ inbox = [p \in Producers |-> <<>>]
  /\ stuck = [p \in Producers |-> {}]
  /\ serving = [p \in Producers |-> {}]
  /\ accepted = [c \in Calls |-> <<>>]

Begins(c) == PollPinned(c) \/ PollScoped(c) \/ IsReachable(c)

(* What the runtime does for a call once it has begun.                       *)
CallStep(c) ==
  GiveUp(c) \/ Issue(c) \/ ReadAck(c) \/ ReadPin(c) \/ ReadAnswer(c)
    \/ StreamEnds(c) \/ Expire(c)

TimeStep(c) == PassBudget(c) \/ PassDiscovery(c)

Dispatch(q) == DispatchProbe(q) \/ DispatchRequest(q) \/ LoseQuery(q)

(* What the user of the endpoint decides: nothing makes it happen.           *)
UserStep(p) ==
  \/ TakeRequest(p)
  \/ RefuseRequest(p)
  \/ \E q \in serving[p] : FinishRequest(p, q) \/ DropResponder(p, q)

WorldStep(p) ==
  Listen(p) \/ Learn(p) \/ Forget(p) \/ CloseEndpoint(p) \/ Crash(p)
    \/ BreakLink(p)

Next ==
  \/ \E c \in Calls : Begins(c) \/ CallStep(c) \/ TimeStep(c) \/ DropCall(c)
  \/ \E q \in net : Dispatch(q)
  \/ \E p \in Producers : Unblock(p) \/ UserStep(p) \/ WorldStep(p)

Spec == Init /\ [][Next]_vars

(* The runtime polls the callers' tasks, deadlines pass, and the transport   *)
(* delivers; nothing is assumed of the endpoints' users.                     *)
Fairness ==
  /\ \A c \in Calls : WF_vars(CallStep(c)) /\ WF_vars(TimeStep(c))
  /\ \A q \in Queries : WF_vars(q \in net /\ Dispatch(q))
  /\ \A p \in Producers : WF_vars(Unblock(p))

FairSpec == Spec /\ Fairness

-----------------------------------------------------------------------------
(* Type invariant                                                            *)

CallTypes ==
  /\ phase \in [Calls -> Active \cup {"idle", "done"}]
  /\ scope \in [Calls -> SUBSET Producers]
  /\ bounded \in [Calls -> BOOLEAN]
  /\ capped \in [Calls -> BOOLEAN]
  /\ spent \in [Calls -> BOOLEAN]
  /\ pin \in [Calls -> Producers \cup {None}]
  /\ attempt \in [Calls -> 0..MaxAttempts]
  /\ waiting \in [Calls -> BOOLEAN]
  /\ acked \in [Calls -> BOOLEAN]
  /\ replies \in [Calls -> Seq(Replies)]
  /\ verdict \in [Calls -> {None, "answered", "failed", "unreachable",
                            "timeout", "reachable", "absent", "dropped"}]
  /\ accepted \in [Calls -> Seq(Producers)]

SideTypes ==
  /\ status \in [Producers -> {"off", "on", "closed", "dead"}]
  /\ known \subseteq Producers
  /\ net \subseteq Queries /\ severed \subseteq Queries
  /\ inbox \in [Producers -> Seq(Queries)]
  /\ stuck \in [Producers -> SUBSET Queries]
  /\ serving \in [Producers -> SUBSET Queries]

TypeOK == CallTypes /\ SideTypes

-----------------------------------------------------------------------------
(* Safety                                                                    *)

(* "Discovery pins the consumer to one producer so only that producer's      *)
(* handler runs" (discovery.rs), and a retry is never a second delivery: a   *)
(* call is acknowledged at most once, by the producer it was resolved to,    *)
(* one of those its target matches.                                          *)
HandledOnce ==
  \A c \in Calls :
    accepted[c] = <<>> \/ (accepted[c] = <<pin[c]>> /\ pin[c] \in scope[c])

(* A call is answered, or fails with its handler's error, only after its own *)
(* producer took it: the late answer of another producer to the discovery    *)
(* probe is never taken for the answer to the request.                       *)
AnswerIsMine ==
  \A c \in Calls : verdict[c] \in {"answered", "failed"} => accepted[c] # <<>>

(* "Before any Ack the target was never reached" (poll_service): when an     *)
(* attempt is repeated, no producer has taken the request, or still may.     *)
RetriedIfUnreached ==
  \A c \in Calls :
    phase[c] = "request" /\ ~waiting[c] =>
      /\ accepted[c] = <<>>
      /\ \A q \in Pending : q.call = c => q.kind = "probe"

(* ServiceTimeout and ServiceUnreachable are told apart (poll_service): a    *)
(* poll times out only if an endpoint took its request before, or at the     *)
(* very step that resolves its target, when the answer to the discovery      *)
(* probe came after the budget had passed and no request is sent at all.     *)
TimeoutWasReached ==
  [][\A c \in Calls :
       verdict[c] = None /\ verdict'[c] = "timeout" =>
         \/ accepted[c] # <<>>
         \/ pin[c] = None /\ pin'[c] # None /\ spent[c]]_vars

-----------------------------------------------------------------------------
(* Liveness                                                                  *)

(* A call with a response_timeout returns, whatever the producers do; a call *)
(* without one returns when its producer is gone (poll_service).             *)
CallsReturn ==
  \A c \in Calls :
    /\ (phase[c] \in Active /\ bounded[c]) ~> (phase[c] = "done")
    /\ \A p \in Producers :
         (phase[c] = "request" /\ pin[c] = p /\ status[p] = "dead")
           ~> (phase[c] = "done")

=============================================================================
