------------------------------ MODULE MCMessaging ------------------------------
(***************************************************************************)
(* Messaging, checked side by side: a service call over zenoh, the same    *)
(* through the mock adapter, the key expressions, the mock's liveliness    *)
(* space, messages on their way, the messaging objects that Python tasks   *)
(* share, and the session and the router of the zenoh adapter.  A          *)
(* behaviour is one of one part, chosen at the start.                      *)
(***************************************************************************)
EXTENDS MCServiceCall, MockCalls, Transport, WireRouting, MockLiveliness,
        PyHandles, RouterSession

VARIABLE part  \* which one

Parts == {"call", "mock call", "transport", "wire", "liveliness", "handles", "router"}

(* Inputs of MockLiveliness: names that could be mistaken for each other, a  *)
(* client without a pin and one pinned to the first producer.                *)
Arm == [disc |-> "node", name |-> "a", tag |-> "t_1"]
mcActions ==
  {[core |-> "a", inst |-> i, target |-> Arm, name |-> "a"] :
     i \in {"a", "topic"}}
mcClients ==
  {[core |-> "a", inst |-> "a", to |-> t, target |-> Arm, name |-> "a"] :
     t \in {<<NotGiven, NotGiven>>, <<"a", "a">>}}

(* Callers and endpoints, producers, and tasks are interchangeable.  Only the *)
(* part that was chosen has two that differ.                                 *)
Interchangeable ==
  Permutations(Producers) \cup Permutations(Sharers) \cup
    {q @@ r : q \in Permutations(MockCallers),
              r \in Permutations(MockEndpoints)}

-----------------------------------------------------------------------------
MessagingInit ==
  /\ part \in Parts
  /\ Init /\ MockCallsInit /\ TransportInit /\ MockInit /\ WireInit
  /\ (part # "transport" => adapter = "mock")
  /\ HandlesInit /\ (part # "handles" => object = "action")
  /\ RouterInit

(* The state of every part but one stays.                                    *)
Others(p) ==
  /\ UNCHANGED part
  /\ (p # "call" => UNCHANGED vars)
  /\ (p # "mock call" => UNCHANGED mockCallVars)
  /\ (p # "transport" => UNCHANGED transportVars)
  /\ (p # "wire" => UNCHANGED wire)
  /\ (p # "liveliness" => UNCHANGED mockVars)
  /\ (p # "handles" => UNCHANGED handleVars)
  /\ (p # "router" => UNCHANGED routerVars)

MessagingNext ==
  \/ part = "call" /\ Next /\ Others("call")
  \/ part = "mock call" /\ MockCallsNext /\ Others("mock call")
  \/ part = "transport" /\ TransportNext /\ Others("transport")
  \/ part = "wire" /\ WireNext /\ Others("wire")
  \/ part = "liveliness" /\ MockNext /\ Others("liveliness")
  \/ part = "handles" /\ HandlesNext /\ Others("handles")
  \/ part = "router" /\ RouterNext /\ Others("router")

messagingVars ==
  <<part, vars, mockCallVars, transportVars, wire, mockVars, handleVars, routerVars>>

MessagingSpec == MessagingInit /\ [][MessagingNext]_messagingVars

-----------------------------------------------------------------------------
(* What peppylib relies on, whichever adapter it runs on: liveliness is told *)
(* as it is, a call keeps its protocol, and a message arrives as promised.   *)
AdaptersAsTold == LivelinessIsTrue /\ MockKeepsProtocol /\ MessagesArrive
=============================================================================
