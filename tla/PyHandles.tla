------------------------------- MODULE PyHandles -------------------------------
(***************************************************************************)
(* The objects of a Python node that its asyncio tasks share               *)
(* (peppylib-py/src/messaging.rs, messaging/ and clock.rs): streams, a     *)
(* service endpoint, an action with its goals, and calls that need none of *)
(* them.  A call is a Rust future behind an asyncio future (PyFutures); an *)
(* object is a tokio Mutex, first come first served, which the future may  *)
(* hold over an await.  Cancelling the task drops the Rust future wherever *)
(* it waits, with all that it has in its hands.                            *)
(*                                                                         *)
(* An operator introduced by "Slip" is a wrong version of the one after    *)
(* it; nothing uses it but the runs that show which property would notice. *)
(***************************************************************************)
EXTENDS Naturals, Sequences, FiniteSets, SequencesExt

CONSTANTS
  MaxTasks,    \* bound: asyncio tasks, in the order of their calls
  MaxTakers,   \* bound: of these, the first, that do more than decide
  MaxArrivals  \* bound: messages, requests and goals that arrive in all

ASSUME PyHandlesAssumption == {MaxTasks, MaxTakers, MaxArrivals} \subseteq Nat

Tasks == 1..MaxTasks

VARIABLES
  doing,    \* the call of each task and how far its Rust future is
  future,   \* its asyncio future: none, pending, cancelled, returned, raised
  object,   \* the object they share; the others are like it
  queue,    \* who holds or waits for its lock, in order
  unread,    \* what arrived for it and nobody took
  over,     \* its other side: open, closed, or gone without having closed it
  arrived,  \* number of arrivals; each is known by its number
  peer,     \* what the sender of each arrival was told
  goals,    \* of each goal that was received: its PendingGoal, held or taken
  exiting   \* the interpreter exits: nothing crosses into Python

handleVars == <<doing, future, object, queue, unread, over, arrived, peer, goals, exiting>>

(* on_next_message, on_next_tick; on_next_feedback; handle_next_request;     *)
(* recv_next_goal                                                            *)
ObjectOf(op) ==
  CASE op = "next_message" -> "subscription" [] op = "next_feedback" -> "goal_handle"
    [] op = "handle_next" -> "endpoint" [] op = "next_goal" -> "action"
Receiving == {"next_message", "next_feedback", "handle_next", "next_goal"}
Objects == {"subscription", "goal_handle", "endpoint", "action"}
Deciding == {"accept", "reject"}
Sending == {"poll", "publish"}
(* By whom: the client of a goal, its server.                                *)
SentBeside(o) ==
  CASE o = "goal_handle" -> {"poll"} [] o = "action" -> {"publish"} [] OTHER -> {}

Call(op, at, with) == [op |-> op, at |-> at, with |-> with, got |-> <<>>]
NoCall == Call("none", "none", 0)
At(c) == doing[c].at
Goes(c, at) == doing' = [doing EXCEPT ![c].at = at]
Ends(c, got) == doing' = [doing EXCEPT ![c].at = "ended", ![c].got = got]
Gets(i) == <<"gets", i>>
Gives(answer) == <<answer>>
Raises(error) == <<"raises", error>>

(* to_py_err                                                                 *)
PyError(why) ==
  CASE why \in {"timeout"} -> "TimeoutError"
    [] why \in {"unreachable", "gone"} -> "ConnectionError"
    [] OTHER -> "RuntimeError"

HandlesInit ==
  /\ doing = [c \in Tasks |-> NoCall] /\ future = [c \in Tasks |-> "none"]
  /\ object \in Objects /\ queue = <<>> /\ unread = <<>> /\ over = "open" /\ arrived = 0
  /\ peer = [i \in {} |-> "waits"] /\ goals = [i \in {} |-> "held"] /\ exiting = FALSE

-----------------------------------------------------------------------------
(* A task calls                                                              *)

IsNext(c) == ~exiting /\ \A d \in Tasks : future[d] = "none" <=> d >= c

Starts(c, call) ==
  future' = [future EXCEPT ![c] = "pending"] /\ doing' = [doing EXCEPT ![c] = call]

(* Slip: a result or a cancellation waits behind the next feedback.          *)
BehindFeedback(op) == op \in Receiving \cup {"poll"}

(* request_result and cancel_goal use a copy of the sender (PyActionGoalHandle).*)
Locks(op) == op \in Receiving

InLine(c, op) == queue' = IF Locks(op) THEN Append(queue, c) ELSE queue

CallReceive(c) ==
  \E op \in Receiving :
    /\ IsNext(c) /\ c <= MaxTakers /\ ObjectOf(op) = object
    /\ Starts(c, Call(op, "waiting", 0)) /\ InLine(c, op)
    /\ UNCHANGED <<object, unread, over, arrived, peer, goals, exiting>>

CallDecide(c) ==
  \E op \in Deciding, g \in DOMAIN goals :
    /\ IsNext(c)
    /\ \E d \in Tasks : future[d] = "returned" /\ doing[d].op = "next_goal" /\ doing[d].got = Gets(g)
    /\ Starts(c, Call(op, "deciding", g))
    /\ UNCHANGED <<object, queue, unread, over, arrived, peer, goals, exiting>>

(* A timeout that is no duration, an empty feedback payload: ValueError, in  *)
(* the call itself (duration_from_secs_f64, NonEmptyPayload::try_new).       *)
Valid(argument) == argument = "good"

CallSend(c) ==
  \E op \in SentBeside(object), argument \in {"good", "bad"} :
    /\ IsNext(c) /\ c <= MaxTakers
    /\ IF Valid(argument) THEN Starts(c, Call(op, "waiting", 0)) /\ InLine(c, op)
       ELSE /\ UNCHANGED queue
            /\ future' = [future EXCEPT ![c] = "raised"]
            /\ doing' = [doing EXCEPT ![c] = [Call(op, "none", 0)
                                                EXCEPT !.got = Raises("ValueError")]]
    /\ UNCHANGED <<object, unread, over, arrived, peer, goals, exiting>>

-----------------------------------------------------------------------------
(* Taking the next                                                           *)

First(c) == Locks(doing[c].op) => queue # <<>> /\ Head(queue) = c

Leave(c) == queue' = RemoveFirst(queue, c)

(* A message is received and returned in one step; a request is acknowledged *)
(* and a goal's feedback topic declared before they are, with the lock held. *)
TakeNext(c) ==
  /\ doing[c].op \in Receiving /\ At(c) = "waiting" /\ First(c) /\ unread # <<>>
  /\ unread' = Tail(unread)
  /\ IF object \in {"subscription", "goal_handle"}
     THEN Ends(c, Gets(Head(unread))) /\ Leave(c)
     ELSE /\ doing' = [doing EXCEPT ![c].at = "acking", ![c].with = Head(unread)]
          /\ UNCHANGED queue
  /\ UNCHANGED <<future, object, over, arrived, peer, goals, exiting>>

(* A topic, an endpoint and an action return when they close; feedback       *)
(* raises, and says whether the stream was closed or the producer is gone.   *)
AtEnd ==
  IF object # "goal_handle" THEN Gives("None")
  ELSE Raises(PyError(over))

FindsEnd(c) ==
  /\ doing[c].op \in Receiving /\ At(c) = "waiting" /\ First(c)
  /\ unread = <<>> /\ over # "open"
  /\ Ends(c, AtEnd) /\ Leave(c)
  /\ UNCHANGED <<future, object, unread, over, arrived, peer, goals, exiting>>

PeerTold(i, what) == peer' = [peer EXCEPT ![i] = what]

(* recv_next_request: a caller that cannot be told drops its request, and    *)
(* the next one is waited for.  The endpoint is free while the handler runs. *)
Acknowledge(c) ==
  /\ At(c) = "acking"
  /\ \/ /\ PeerTold(doing[c].with, "acked")
        /\ IF doing[c].op = "handle_next"
           THEN Goes(c, "calling") /\ Leave(c) /\ UNCHANGED goals
           ELSE Goes(c, "declaring") /\ UNCHANGED <<queue, goals>>
     \/ /\ PeerTold(doing[c].with, "gone")
        /\ doing' = [doing EXCEPT ![c].at = "waiting", ![c].with = 0]
        /\ UNCHANGED <<queue, goals>>
  /\ UNCHANGED <<future, object, unread, over, arrived, exiting>>

(* declare_from_wire; an envelope that is none fails the call, not the peer. *)
Declare(c) ==
  /\ At(c) = "declaring" /\ Leave(c)
  /\ \/ /\ Ends(c, Gets(doing[c].with))
        /\ goals' = [i \in DOMAIN goals \cup {doing[c].with} |->
                       IF i = doing[c].with THEN "held" ELSE goals[i]]
     \/ Ends(c, Raises(PyError("envelope"))) /\ UNCHANGED goals
  /\ UNCHANGED <<future, object, unread, over, arrived, peer, exiting>>

-----------------------------------------------------------------------------
(* The handler of handle_next_request, sync or async                         *)

(* try_attach_gated: when the interpreter exits there is no handler to call. *)
CallHandler(c) ==
  /\ At(c) = "calling"
  /\ IF exiting THEN Ends(c, Gives("None"))
     ELSE \E at \in {"running", "returned", "failed"} : Goes(c, at)
  /\ UNCHANGED <<future, object, queue, unread, over, arrived, peer, goals, exiting>>

(* What it returned before the exit cannot be read any more: an error.       *)
HandlerEnds(c) ==
  /\ At(c) = "running"
  /\ \E at \in {"failed"} \cup (IF exiting THEN {} ELSE {"returned"}) : Goes(c, at)
  /\ UNCHANGED <<future, object, queue, unread, over, arrived, peer, goals, exiting>>

(* Slip: an exception of the handler ends the call and answers nobody.       *)
ErrorStays(outcome) == IF outcome = "returned" THEN "answered" ELSE "acked"

ReplyTo(outcome) == IF outcome = "returned" THEN "answered" ELSE "error"

AnswerPeer(c) ==
  /\ At(c) \in {"returned", "failed"}
  /\ \/ PeerTold(doing[c].with, ReplyTo(At(c))) /\ Ends(c, Gives("True"))
     \/ PeerTold(doing[c].with, "gone") /\ Ends(c, Raises(PyError("send")))
  /\ UNCHANGED <<future, object, queue, unread, over, arrived, goals, exiting>>

-----------------------------------------------------------------------------
(* PendingGoal: the first call takes it                                      *)

(* Slip: it is taken when the decision has been told.                        *)
StaysHeld == "held"

Used == "taken"

TakePending(c) ==
  /\ doing[c].op \in Deciding /\ At(c) = "deciding"
  /\ IF goals[doing[c].with] = "held"
     THEN Goes(c, "telling") /\ goals' = [goals EXCEPT ![doing[c].with] = Used]
     ELSE Ends(c, Raises("ValueError")) /\ UNCHANGED goals
  /\ UNCHANGED <<future, object, queue, unread, over, arrived, peer, exiting>>

TellDecision(c) ==
  LET g == doing[c].with IN
  /\ At(c) = "telling"
  /\ \/ /\ PeerTold(g, IF doing[c].op = "accept" THEN "accepted" ELSE "rejected")
        /\ Ends(c, Gives(doing[c].op)) /\ goals' = [goals EXCEPT ![g] = "taken"]
     \/ PeerTold(g, "gone") /\ Ends(c, Raises(PyError("send"))) /\ UNCHANGED goals
  /\ UNCHANGED <<future, object, queue, unread, over, arrived, exiting>>

-----------------------------------------------------------------------------
(* ServiceMessenger.poll, request_result, cancel_goal, publish               *)

SendEnds(c) ==
  /\ doing[c].op \in Sending /\ At(c) = "waiting" /\ First(c) /\ Leave(c)
  /\ \/ Ends(c, Gives("reply"))
     \/ \E why \in {"timeout", "unreachable"} : Ends(c, Raises(PyError(why)))
  /\ UNCHANGED <<future, object, unread, over, arrived, peer, goals, exiting>>

-----------------------------------------------------------------------------
(* Results and cancellations (PyFutures)                                     *)

Deliver(c) ==
  /\ At(c) = "ended" /\ future[c] = "pending" /\ ~exiting
  /\ future' = [future EXCEPT ![c] = IF doing[c].got[1] = "raises" THEN "raised" ELSE "returned"]
  /\ UNCHANGED <<doing, object, queue, unread, over, arrived, peer, goals, exiting>>

CancelTask(c) ==
  /\ ~exiting /\ future[c] = "pending"
  /\ future' = [future EXCEPT ![c] = "cancelled"]
  /\ UNCHANGED <<doing, object, queue, unread, over, arrived, peer, goals, exiting>>

(* What a result holds that nobody gets: the context of an accepted goal is  *)
(* dropped, which abandons the goal; a pending goal takes its reply with it. *)
AfterDiscard(c) ==
  IF doing[c].op = "accept" /\ doing[c].got = Gives("accept")
  THEN [peer EXCEPT ![doing[c].with] = "abandoned"] ELSE peer

DropFuture(c) ==
  /\ future[c] = "cancelled" /\ At(c) \notin {"none", "dropped"}
  /\ Goes(c, "dropped") /\ Leave(c)
  /\ peer' = IF At(c) = "ended" THEN AfterDiscard(c) ELSE peer
  /\ goals' = [i \in DOMAIN goals |->
                 IF doing[c].op = "next_goal" /\ At(c) = "ended" /\ doing[c].got = Gets(i)
                 THEN "dropped" ELSE goals[i]]
  /\ UNCHANGED <<future, object, unread, over, arrived, exiting>>

-----------------------------------------------------------------------------
(* The other side                                                            *)

Arrives ==
  /\ arrived < MaxArrivals /\ over = "open"
  /\ arrived' = arrived + 1 /\ unread' = Append(unread, arrived + 1)
  /\ peer' = [i \in DOMAIN peer \cup {arrived + 1} |->
                IF i \in DOMAIN peer THEN peer[i] ELSE "waits"]
  /\ UNCHANGED <<doing, future, object, queue, over, goals, exiting>>

PeerEnds ==
  /\ over = "open"
  /\ over' \in IF object = "goal_handle" THEN {"closed", "gone"} ELSE {"closed"}
  /\ UNCHANGED <<doing, future, object, queue, unread, arrived, peer, goals, exiting>>

(* Only the call of a handler looks at it (try_attach_gated).                *)
InterpreterExits ==
  /\ object = "endpoint" /\ ~exiting /\ exiting' = TRUE
  /\ UNCHANGED <<doing, future, object, queue, unread, over, arrived, peer, goals>>

RustStep(c) ==
  \/ TakeNext(c) \/ FindsEnd(c) \/ Acknowledge(c) \/ Declare(c) \/ CallHandler(c)
  \/ AnswerPeer(c) \/ TakePending(c) \/ TellDecision(c) \/ SendEnds(c)

HandlesNext ==
  \/ \E c \in Tasks : \/ CallReceive(c) \/ CallDecide(c) \/ CallSend(c) \/ RustStep(c)
                      \/ HandlerEnds(c) \/ Deliver(c) \/ CancelTask(c) \/ DropFuture(c)
  \/ Arrives \/ PeerEnds \/ InterpreterExits

HandlesSpec == HandlesInit /\ [][HandlesNext]_handleVars

-----------------------------------------------------------------------------
HasReturned(c, op) == doing[c].op = op /\ future[c] = "returned"
Raised(c, error) == future[c] = "raised" /\ doing[c].got = Raises(error)

(* A sender that was acknowledged is answered, by whatever its request came  *)
(* to: if it is left waiting, whoever had the request was cancelled, or      *)
(* Python was exiting, or it was not a goal at all (handle_next_request).    *)
Cancelled(c) == future[c] = "cancelled" \/ exiting
HasInHand(c, i) == doing[c].with = i /\ At(c) \notin {"ended", "dropped", "none"}
LeftWaiting(i) ==
  \E c \in Tasks :
    /\ doing[c].with = i \/ doing[c].got = Gets(i)
    /\ \/ Cancelled(c) \/ HasInHand(c, i)
       \/ doing[c].got = Raises(PyError("envelope"))
       \/ i \in DOMAIN goals /\ goals[i] = "held"
RequestsAnswered == \A i \in DOMAIN peer : peer[i] = "acked" => LeftWaiting(i)

(* What a task is told of its call is what the other side was told of it: an *)
(* accepted goal was accepted, a handled request had its reply or its error. *)
ToldAlike ==
  \A c \in Tasks :
    /\ HasReturned(c, "accept") => peer[doing[c].with] = "accepted"
    /\ HasReturned(c, "reject") => peer[doing[c].with] = "rejected"
    /\ HasReturned(c, "handle_next") /\ doing[c].got = Gives("True") =>
         peer[doing[c].with] \in {"answered", "error"}

(* A goal is decided by one call: a second is told so, and only a second is. *)
OneDecision ==
  \A c, d \in Tasks :
    /\ (c # d /\ HasReturned(c, "accept") /\ doing[c].with = doing[d].with) =>
         ~HasReturned(d, "reject") /\ ~HasReturned(d, "accept")
    /\ (c = d /\ doing[c].op \in Deciding /\ Raised(c, "ValueError")) =>
         \E e \in Tasks \ {c} : doing[e].op \in Deciding /\ doing[e].with = doing[c].with

(* Nothing that arrives is skipped, given twice, or lost to a call that      *)
(* still waits: it is in the unread, in the hands of one call, or was.        *)
Holders(i) == {c \in Tasks : doing[c].op \in Receiving
                               /\ (doing[c].with = i \/ doing[c].got = Gets(i))}
NoneLost ==
  \A i \in DOMAIN peer :
    IF Contains(unread, i) THEN Holders(i) = {} ELSE Cardinality(Holders(i)) = 1 \/ peer[i] = "gone"

(* A feedback stream that was closed and one whose producer is gone raise    *)
(* different errors (to_py_err), an invalid argument reaches nobody.         *)
ErrorsTellApart ==
  \A c \in Tasks :
    (doing[c].op = "next_feedback" /\ At(c) = "ended" /\ doing[c].got[1] = "raises") =>
      /\ doing[c].got = Raises("ConnectionError") <=> over = "gone"

(* Whoever has the lock still needs it: not a call that has ended or was     *)
(* dropped, nor one whose handler runs; a result is not asked for behind a   *)
(* call that waits for feedback which may never come (PyActionGoalHandle).   *)
NobodyStuck ==
  \A c \in Tasks :
    /\ Contains(queue, c) => At(c) \in {"waiting", "acking", "declaring"}
    /\ (doing[c].op = "poll" /\ At(c) = "waiting") => First(c)

(* Objects that tasks share lose nothing to their being shared               *)
(* (peppylib-py/src/messaging/).                                             *)
SharedSafely ==
  /\ RequestsAnswered /\ ToldAlike /\ OneDecision /\ NoneLost
  /\ ErrorsTellApart /\ NobodyStuck
=============================================================================
