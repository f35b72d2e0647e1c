---------------------------- MODULE CoreNodeClient ----------------------------
(***************************************************************************)
(* Nodes that use the services of the core node they are bound to          *)
(* (peppylib-rs/src/datastore.rs and core_node/transport.rs): the          *)
(* datastore, and node_stop, whose listener may be hosted by a node and is *)
(* addressed by the node's name, which a node of another core node may     *)
(* have as well.  A call is a poll of ServiceCall: discovered, delivered   *)
(* once, answered to the caller alone; it may time out while its request   *)
(* is still under way.                                                     *)
(*                                                                         *)
(* An operator introduced by "Slip" is a wrong version of the one after    *)
(* it; nothing uses it but the runs that show which property would notice. *)
(***************************************************************************)
EXTENDS Naturals, FiniteSets

CONSTANTS Daemons,   \* core nodes on the network
          Home,      \* the one the callers are bound to
          Callers,   \* their instances
          DataKeys,  \* keys of the datastore
          Contents,  \* values
          MaxCalls   \* bound: calls made in all

ASSUME CoreNodeClientAssumption == Home \in Daemons /\ MaxCalls \in Nat /\ "" \notin DataKeys

VARIABLES stores,    \* what each daemon holds: key -> value and last writer
          listening, \* where a node of the name to be stopped has a listener
          running,   \* where it still runs
          calling,   \* the call each caller is in
          requests,  \* requests under way, also those nobody waits for
          answers,   \* replies under way
          made,      \* calls made
          seen       \* history: what the bound daemon held since each call began

coreVars == <<stores, listening, running, calling, requests, answers, made, seen>>

Failed(why) == [failed |-> why]
Operations == {"store", "get", "list", "remove", "node_stop"}
Idle == [op |-> "none"]
Snapshot == [holds |-> stores[Home], runs |-> Home \in running]

CoreInit ==
  /\ stores = [d \in Daemons |-> [k \in {} |-> Idle]]
  /\ listening \in {Daemons, {Home}, Daemons \ {Home}}
  /\ running = listening
  /\ calling = [c \in Callers |-> Idle]
  /\ requests = {} /\ answers = {} /\ made = 0
  /\ seen = [c \in Callers |-> {}]

(* Every step shows the callers that wait what the daemon then holds.        *)
Watching == seen' = [c \in Callers |->
                       IF calling'[c].op \notin Operations THEN seen[c]
                       ELSE {Snapshot'} \cup IF calling[c] = calling'[c] THEN seen[c] ELSE {}]

-----------------------------------------------------------------------------
(* The callers                                                               *)

(* Slip: any key is sent.                                                    *)
AnyKey(op, key) == TRUE

(* DatastoreKey: an empty key is refused before anything is sent.            *)
KeyIsGood(op, key) == op \in {"list", "node_stop"} \/ key # ""

Carries(op) == IF op = "store" THEN Contents ELSE {""}
Concerns(op) == IF op \in {"list", "node_stop"} THEN {""} ELSE DataKeys \cup {""}

StartCall(c) ==
  \E op \in Operations : \E key \in Concerns(op), value \in Carries(op) :
    /\ calling[c].op \in {"none", "done"} /\ made < MaxCalls
    /\ made' = made + 1
    /\ LET call == [op |-> op, key |-> key, value |-> value, id |-> made, by |-> c] IN
       IF KeyIsGood(op, key)
       THEN /\ calling' = [calling EXCEPT ![c] = call]
            /\ requests' = requests \cup {call}
       ELSE /\ calling' = [calling EXCEPT ![c] = [op |-> "done", of |-> call, got |-> Failed("invalid key")]]
            /\ UNCHANGED requests
    /\ UNCHANGED <<stores, listening, running, answers>> /\ Watching

(* Slip: node_stop looks wherever the name is found.                         *)
Anywhere(op) == Daemons

(* The daemon's services are found through its name in the target; a node's  *)
(* name is not unique, so node_stop looks on the bound core node only.       *)
Scope(op) == IF op = "node_stop" THEN {Home} ELSE Daemons
Target(op) == IF op = "node_stop" THEN listening ELSE {Home}
Reaches(op) == Scope(op) \cap Target(op)

(* A key that is not there is nothing, one with no bytes is a value.         *)
Folded(op, reply) ==
  CASE op = "get" -> IF reply.found THEN [is |-> reply.value, by |-> reply.by]
                     ELSE [is |-> "nothing"]
    [] op = "list" -> [keys |-> reply.entries]
    [] op = "remove" -> [removed |-> reply.removed]
    [] op = "node_stop" -> [stopped |-> reply.success]
    [] OTHER -> [stored |-> TRUE]

Return(c, got) ==
  calling' = [calling EXCEPT ![c] = [op |-> "done", of |-> calling[c], got |-> got]]

ReplyArrives(c) ==
  \E a \in answers :
    /\ calling[c].op \in Operations /\ a.id = calling[c].id
    /\ Return(c, Folded(calling[c].op, a.reply))
    /\ answers' = answers \ {a}
    /\ UNCHANGED <<stores, listening, running, requests, made, seen>>

(* No listener is found: the call fails and nothing was delivered.           *)
NotReached(c) ==
  /\ calling[c].op \in Operations /\ calling[c] \in requests
  /\ Reaches(calling[c].op) = {}
  /\ Return(c, Failed("unreachable")) /\ requests' = requests \ {calling[c]}
  /\ UNCHANGED <<stores, listening, running, answers, made, seen>>

(* The caller gives up; its request, or the reply, may still be under way.   *)
CallTimesOut(c) ==
  /\ calling[c].op \in Operations /\ Return(c, Failed("timeout"))
  /\ UNCHANGED <<stores, listening, running, requests, answers, made, seen>>

-----------------------------------------------------------------------------
(* The daemons (not part of the repository): each holds the values it was    *)
(* given with the instance that gave them, and stops the node it hosts.      *)

Held(d, key) == key \in DOMAIN stores[d]
Reply(d, r) ==
  CASE r.op = "get" ->
         IF Held(d, r.key)
         THEN [found |-> TRUE, value |-> stores[d][r.key].value, by |-> stores[d][r.key].by]
         ELSE [found |-> FALSE, value |-> "", by |-> ""]
    [] r.op = "list" -> [entries |-> DOMAIN stores[d]]
    [] r.op = "remove" -> [removed |-> Held(d, r.key)]
    [] r.op = "node_stop" -> [success |-> d \in running]
    [] OTHER -> [ok |-> TRUE]

NowHolds(d, r) ==
  CASE r.op = "store" ->
         [k \in DOMAIN stores[d] \cup {r.key} |->
            IF k = r.key THEN [value |-> r.value, by |-> r.by] ELSE stores[d][k]]
    [] r.op = "remove" -> [k \in DOMAIN stores[d] \ {r.key} |-> stores[d][k]]
    [] OTHER -> stores[d]

DaemonHandles(r) ==
  \E d \in Reaches(r.op) :
    /\ r \in requests /\ requests' = requests \ {r}
    /\ answers' = answers \cup {[id |-> r.id, reply |-> Reply(d, r)]}
    /\ stores' = [stores EXCEPT ![d] = NowHolds(d, r)]
    /\ running' = IF r.op = "node_stop" THEN running \ {d} ELSE running
    /\ UNCHANGED <<listening, calling, made>> /\ Watching

CoreNext ==
  \/ \E c \in Callers : StartCall(c) \/ ReplyArrives(c) \/ NotReached(c) \/ CallTimesOut(c)
  \/ \E r \in requests : DaemonHandles(r)

CoreSpec == CoreInit /\ [][CoreNext]_coreVars

-----------------------------------------------------------------------------
(* What a caller is told was so at its own daemon while it waited: a missing *)
(* key is not an empty value, a node that is stopped is the daemon's own, a  *)
(* late reply is not taken for the next one, and an empty key is refused     *)
(* without a request (datastore.rs, transport.rs).                           *)
SaysOf(s, call) ==
  CASE call.op = "get" ->
         IF call.key \in DOMAIN s.holds
         THEN [is |-> s.holds[call.key].value, by |-> s.holds[call.key].by]
         ELSE [is |-> "nothing"]
    [] call.op = "list" -> [keys |-> DOMAIN s.holds]
    [] call.op = "remove" -> [removed |-> call.key \in DOMAIN s.holds]
    [] call.op = "node_stop" -> [stopped |-> s.runs]
    [] OTHER -> [stored |-> TRUE]

WasSo(call, got, shown) ==
  /\ \E s \in shown : got = SaysOf(s, call)
  /\ call.op = "store" =>
       \E s \in shown : call.key \in DOMAIN s.holds
                          /\ s.holds[call.key] = [value |-> call.value, by |-> call.by]
  /\ got = [removed |-> TRUE] => \E s \in shown : call.key \notin DOMAIN s.holds
  /\ got = [stopped |-> TRUE] => \E s \in shown : ~s.runs

AnswersAreTrue ==
  /\ \A r \in requests : r.op \in {"list", "node_stop"} \/ r.key # ""
  /\ \A c \in Callers : calling[c].op = "done" =>
       \/ "failed" \in DOMAIN calling[c].got
       \/ WasSo(calling[c].of, calling[c].got, seen[c])
=============================================================================
