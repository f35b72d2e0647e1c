------------------------------- MODULE MockCalls -------------------------------
(***************************************************************************)
(* Service calls through the mock adapter: listen_service and call_service *)
(* of peppy-messaging-interface/src/adapters/mock.rs, the task that        *)
(* forwards queries to an endpoint, the response tokens of types.rs, and   *)
(* the endpoint that peppylib-rs/src/messaging/services.rs puts on them.   *)
(* ServiceCall has the same over zenoh.                                    *)
(*                                                                         *)
(* Each caller calls once; a payload is left out, and so are the bounds of *)
(* the reply channels, which a caller empties at once.                     *)
(*                                                                         *)
(* An operator introduced by "Slip" is a wrong version of the one after    *)
(* it; nothing uses it but the runs that show which property would notice. *)
(***************************************************************************)
EXTENDS Naturals, Sequences, FiniteSets, SequencesExt

CONSTANTS
  MockCallers,    \* tasks that share the messenger
  MockEndpoints,  \* endpoints of the service, of any process
  ChannelSize     \* of the query and of the request channel of an endpoint

VARIABLES
  locked,    \* the caller that has locked the messenger, if any
  query,     \* of each caller: its call
  stream,    \* of each caller: the replies that reached its ReplyStream
  endpoint,  \* of each endpoint: absent, listening or dropped
  queries,   \* its MockQuery channel
  requests,  \* its IncomingRequest channel, and one request the forwarder holds
  answering, \* requests acknowledged and not answered yet
  ran        \* of each caller: endpoints that handled its call (history)

mockCallVars ==
  <<locked, query, stream, endpoint, queries, requests, answering, ran>>

Nobody == "nobody"
Unasked == [state |-> "idle"]

(* The link id slot of a selector: claim takes the default and the wildcard. *)
Claimed(c) == query[c].link \in {"*", "_"}

(* The halves of the reply channel that are left: of call_service, and of    *)
(* the queries and tokens made from it.                                      *)
TokensLeft(c) ==
  \/ query[c].state = "sending"
  \/ \E e \in MockEndpoints :
       c \in Range(queries[e]) \cup Range(requests[e]) \cup answering[e]

(* respond_with_kind fails when nobody reads the stream.                     *)
Reads(c) == query[c].state \in {"sending", "reading"}

Responded(e, c, kind) ==
  IF Reads(c) THEN [stream EXCEPT ![c] = Append(@, [from |-> e, kind |-> kind])]
  ELSE stream

-----------------------------------------------------------------------------
(* The caller                                                                *)

(* The matching queryables are looked up once, dropped ones among them.      *)
CallService(c, kind, link, matching) ==
  /\ locked = Nobody /\ query[c] = Unasked
  /\ \A e \in matching : endpoint[e] # "absent"
  /\ locked' = IF matching = {} THEN Nobody ELSE c
  /\ query' = [query EXCEPT ![c] =
       [state |-> IF matching = {} THEN "reading" ELSE "sending", kind |-> kind,
        link |-> link, left |-> matching, read |-> 0]]
  /\ UNCHANGED <<stream, endpoint, queries, requests, answering, ran>>

(* tx.send(q).await, with the messenger locked; no deadline bounds it.       *)
SendQuery(c, e) ==
  /\ query[c].state = "sending" /\ e \in query[c].left
  /\ endpoint[e] = "dropped" \/ Len(queries[e]) < ChannelSize
  /\ queries' = IF endpoint[e] = "dropped" THEN queries
                ELSE [queries EXCEPT ![e] = Append(@, c)]
  /\ IF query[c].left = {e}
     THEN /\ query' = [query EXCEPT ![c].state = "reading", ![c].left = {}]
          /\ locked' = Nobody
     ELSE query' = [query EXCEPT ![c].left = @ \ {e}] /\ UNCHANGED locked
  /\ UNCHANGED <<stream, endpoint, requests, answering, ran>>

Finishes(c, how) == query' = [query EXCEPT ![c].state = how]

(* An acknowledgement is skipped, anything else is the answer.               *)
ReadReply(c) ==
  /\ query[c].state = "reading" /\ query[c].read < Len(stream[c])
  /\ IF stream[c][query[c].read + 1].kind = "ack"
     THEN query' = [query EXCEPT ![c].read = @ + 1]
     ELSE Finishes(c, "answered")
  /\ UNCHANGED <<locked, stream, endpoint, queries, requests, answering, ran>>

StreamCloses(c) ==
  /\ query[c].state = "reading" /\ query[c].read = Len(stream[c])
  /\ ~TokensLeft(c)
  /\ Finishes(c, "closed")
  /\ UNCHANGED <<locked, stream, endpoint, queries, requests, answering, ran>>

(* The deadline of poll_service, which is that of the pump task as well.     *)
TimesOut(c) ==
  /\ query[c].state = "reading" /\ Finishes(c, "late")
  /\ UNCHANGED <<locked, stream, endpoint, queries, requests, answering, ran>>

-----------------------------------------------------------------------------
(* The endpoint                                                              *)

ListenService(e) ==
  /\ endpoint[e] = "absent" /\ endpoint' = [endpoint EXCEPT ![e] = "listening"]
  /\ UNCHANGED <<locked, query, stream, queries, requests, answering, ran>>

(* The forwarder is aborted, and what it and the channels hold goes with it. *)
DropQueryable(e) ==
  /\ endpoint[e] = "listening" /\ endpoint' = [endpoint EXCEPT ![e] = "dropped"]
  /\ queries' = [queries EXCEPT ![e] = <<>>]
  /\ requests' = [requests EXCEPT ![e] = <<>>]
  /\ UNCHANGED <<locked, query, stream, answering, ran>>

(* Slip: a probe is left to the endpoint.                                    *)
NothingAside(c) == FALSE

AnsweredAside(c) == query[c].kind = "probe"

(* handle_mock_queryable: it waits while the request it holds finds no room, *)
(* drops what it cannot claim, and answers a probe itself.                   *)
ForwardQuery(e) ==
  /\ queries[e] # <<>> /\ Len(requests[e]) <= ChannelSize
  /\ queries' = [queries EXCEPT ![e] = Tail(@)]
  /\ LET c == Head(queries[e]) IN
       CASE ~Claimed(c) -> UNCHANGED <<stream, requests>>
         [] Claimed(c) /\ AnsweredAside(c) ->
              stream' = Responded(e, c, "response") /\ UNCHANGED requests
         [] OTHER -> requests' = [requests EXCEPT ![e] = Append(@, c)]
                       /\ UNCHANGED stream
  /\ UNCHANGED <<locked, query, endpoint, answering, ran>>

(* Slip: a request whose acknowledgement failed is handled all the same.     *)
HandledAnyway(c) == TRUE

Acknowledged(c) == Reads(c)

(* recv_next_request: acknowledged first, and dropped if that fails.         *)
RecvNextRequest(e) ==
  /\ endpoint[e] = "listening" /\ requests[e] # <<>>
  /\ requests' = [requests EXCEPT ![e] = Tail(@)]
  /\ LET c == Head(requests[e]) IN
       /\ stream' = Responded(e, c, "ack")
       /\ IF Acknowledged(c)
          THEN /\ answering' = [answering EXCEPT ![e] = @ \cup {c}]
               /\ ran' = [ran EXCEPT ![c] = @ \cup {e}]
          ELSE UNCHANGED <<answering, ran>>
  /\ UNCHANGED <<locked, query, endpoint, queries>>

(* deliver_outcome consumes the token: a response, a handler error, or       *)
(* nothing when the task of the handler is dropped.                          *)
DeliverOutcome(e, c, kind) ==
  /\ c \in answering[e]
  /\ answering' = [answering EXCEPT ![e] = @ \ {c}]
  /\ stream' = IF kind = "dropped" THEN stream ELSE Responded(e, c, kind)
  /\ UNCHANGED <<locked, query, endpoint, queries, requests, ran>>

-----------------------------------------------------------------------------
MockCallsInit ==
  /\ locked = Nobody /\ query = [c \in MockCallers |-> Unasked]
  /\ stream = [c \in MockCallers |-> <<>>] /\ ran = [c \in MockCallers |-> {}]
  /\ endpoint = [e \in MockEndpoints |-> "absent"]
  /\ queries = [e \in MockEndpoints |-> <<>>]
  /\ requests = [e \in MockEndpoints |-> <<>>]
  /\ answering = [e \in MockEndpoints |-> {}]

CallerStep(c) ==
  \/ \E k \in {"request", "probe"}, l \in {"*", "arm"},
        m \in SUBSET MockEndpoints : CallService(c, k, l, m)
  \/ \E e \in MockEndpoints : SendQuery(c, e)
  \/ ReadReply(c) \/ StreamCloses(c) \/ TimesOut(c)

EndpointStep(e) ==
  \/ ListenService(e) \/ DropQueryable(e)
  \/ ForwardQuery(e) \/ RecvNextRequest(e)
  \/ \E c \in MockCallers, k \in {"response", "error", "dropped"} :
       DeliverOutcome(e, c, k)

MockCallsNext ==
  \/ \E c \in MockCallers : CallerStep(c)
  \/ \E e \in MockEndpoints : EndpointStep(e)

MockCallsSpec == MockCallsInit /\ [][MockCallsNext]_mockCallVars

-----------------------------------------------------------------------------
(* The replies of one endpoint, by their places in the stream.               *)
From(e, c) == {i \in DOMAIN stream[c] : stream[c][i].from = e}

(* The mock keeps what poll_service relies on over zenoh: an endpoint that   *)
(* ran its handler told the caller so first and answers at most once after   *)
(* it, a probe or a foreign query never reaches a handler, and a stream that *)
(* closes without an answer means that none is to come, and without an       *)
(* acknowledgement that the call may be made again                           *)
(* (handle_mock_queryable, recv_next_request, ResponseToken).                *)
MockKeepsProtocol ==
  \A c \in MockCallers : query[c] # Unasked =>
    /\ \A e \in MockEndpoints :
         /\ e \in ran[c] => \E i, j \in From(e, c) :
              i <= j /\ From(e, c) = {i, j} /\ stream[c][i].kind = "ack"
         /\ e \notin ran[c] => \A i, j \in From(e, c) :
              i = j /\ stream[c][i].kind = "response" /\ query[c].kind = "probe"
    /\ ran[c] # {} => query[c].kind = "request" /\ query[c].link \in {"*", "_"}
    /\ query[c].state = "closed" =>
         /\ \A e \in MockEndpoints : c \notin answering[e]
         /\ \A i \in DOMAIN stream[c] : stream[c][i].kind = "ack"
         /\ stream[c] = <<>> => ran[c] = {}
=============================================================================
