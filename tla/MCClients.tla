------------------------------- MODULE MCClients -------------------------------
(***************************************************************************)
(* What a node uses of others, checked side by side: the client of an      *)
(* action, the services of its core node, the messages of the core node,   *)
(* and the files nodes are described by, in a stack or launched from.  A   *)
(* behaviour is one of one part, chosen at the start.                      *)
(***************************************************************************)
EXTENDS ActionClient, CoreNodeClient, CoreNodeApi, Manifests

VARIABLE part  \* which one

Parts == {"action", "core", "api", "formats", "stack", "launch"}

-----------------------------------------------------------------------------
(* Message formats, as they may be written and as they may not.             *)
Tagged(type) == "$type" :> Word(type)
Optional == "$optional" :> Flag(TRUE)
ArrayOf(item) == Tagged("array") @@ "$items" :> item
Schemas ==
  {Word("str"), Word("u9"), Number(1)}
    \cup {Map(f) : f \in
            {<<>>, Tagged("float"), Tagged("u8") @@ Optional, Tagged("u8") @@ "x" :> Word("u8"),
             ArrayOf(Word("u8")) @@ "$length" :> Number(3),
             ArrayOf(Word("u8")) @@ "$length" :> Number(-1),
             ArrayOf(Map(Tagged("u8") @@ Optional)), ArrayOf(Map(ArrayOf(Word("u8")))),
             ArrayOf(Map("x" :> Word("u8"))) @@ Optional, "$items" :> Map(ArrayOf(Word("u8"))),
             "x" :> Map(ArrayOf(Map(ArrayOf(Word("u8"))))), Tagged("object") @@ Optional,
             "x" :> Map(Tagged("u8") @@ Optional), "x" :> Map("y" :> Map(Tagged("u8")))}}

Document(name, tag, slots, faces) ==
  [peppy_schema |-> "node/v1",
   manifest |-> [name |-> name, tag |-> tag] @@ ("depends_on" :> slots),
   interfaces |-> faces, execution |-> [language |-> "rust", run_cmd |-> <<"run">>]]
Topics(items) == "topics" :> ("emits" :> items)
Format(s) == "message_format" :> ("f" :> s)

Containers ==
  {[mount_paths |-> <<[host |-> h, container |-> c]>>] :
     h \in {<<"">>, <<"", "tmp", "">>, <<"", "", "private", "tmp">>, <<"", "tmp", "x">>,
            <<"tmp">>, <<Reference.device>>, <<"", Reference.name>>, <<"", "tmp", Reference.device>>},
     c \in {<<>>, <<"", Reference.name>>}}

ArmDocuments ==
  {Document("arm", "v1", <<>>, Topics(<<[name |-> "pose"] @@ Format(s)>>)) : s \in Schemas}
    \cup {[Document("arm", "v1", <<>>, <<>>) EXCEPT !.execution = x] :
            x \in {[language |-> "rust", run_cmd |-> <<>>], [language |-> "lua", run_cmd |-> <<"run">>],
                   [language |-> "python"], [run_cmd |-> <<"run">>]}
                    \cup {[language |-> "rust", container |-> c,
                           parameters |-> [device |-> "string", name |-> k]] :
                            c \in Containers, k \in {"string", "u8"}}}

Emitted(q, s) == [name |-> "img "] @@ ("qos_profile" :> q) @@ Format(s)
Served == "services" :> ("exposes" :> <<[name |-> "grab"] @@ "request_message_format" :> <<>>>>)
Moved == "actions" :> ("exposes" :> <<[name |-> "turn"]
           @@ "goal_service" :> <<>> @@ "feedback_topic" :> ("qos_profile" :> "reliable")
           @@ "result_service" :> ("qos_profile" :> "standard")>>)
Conforming(tags) == "conforms_to" :> [i \in DOMAIN tags |-> [name |-> "uvc", tag |-> tags[i]]]
TwoImages == <<Emitted("standard", Word("u8")), Emitted("reliable", Word("u8"))>>

CameraDocuments ==
  {Document("camera", "v1", <<>>, f) : f \in
     {<<>>, Topics(TwoImages), Topics(Reverse(TwoImages)) @@ Conforming(<<"v1", "v2">>),
      Topics(TwoImages) @@ Conforming(<<"v2", "v1">>), Topics(<<>>) @@ Conforming(<<>>),
      Served @@ Moved, Served @@ Moved @@ Topics(TwoImages),
      Topics(<<[name |-> "img", queue |-> 1]>>)}}
    \cup {Document("camera", "v2", <<>>, Topics(TwoImages))}

SlotTo(name, link) == [name |-> name, tag |-> "v1", link_id |-> link]
AnyOf(slot) == slot @@ ("from_any" :> TRUE)
BrainSlots ==
  {<<>>, "nodes" :> <<SlotTo("camera", " cam")>>,
   ("nodes" :> <<SlotTo("camera", "cam")>>) @@ ("interfaces" :> <<SlotTo("uvc", " cam")>>),
   ("nodes" :> <<SlotTo("camera", "cam")>>) @@ ("interfaces" :> <<SlotTo("uvc", "img ")>>),
   "nodes" :> <<AnyOf(SlotTo("camera", "cam")), AnyOf(SlotTo("camera", "img"))>>,
   "nodes" :> <<AnyOf(SlotTo("camera", "cam")), SlotTo("camera", "img")>>,
   "nodes" :> <<SlotTo("camera", "_")>>, "nodes" :> <<SlotTo("a/b", "cam")>>}
Uses(link, name) == <<[link_id |-> link, name |-> name]>>
BrainDocuments ==
  {Document("brain", "v1", s, f) : s \in BrainSlots, f \in
     {"topics" :> ("consumes" :> Uses(" cam", "img")),
      ("topics" :> ("consumes" :> Uses("img", "_"))) ,
      ("topics" :> ("consumes" :> Uses("img", "img ") \o Uses("cam", "img"))),
      ("services" :> ("consumes" :> Uses("cam", "grab")))
        @@ ("actions" :> ("consumes" :> <<[link_id |-> "cam"]>> \o Uses("cam", "turn")))}}

mcDocuments == [arm |-> ArmDocuments, camera |-> CameraDocuments, brain |-> BrainDocuments]

mcLaunchConfigs ==
  {[node_name |-> "brain", node_tag |-> "v1", instance_id |-> "b1", slot_bindings |-> b,
    discovery |-> d, lifecycle |-> l] :
     b \in {<<>>, "cam" :> "camera"},
     d \in {DiscoveryDefault} \cup
             {[DiscoveryDefault EXCEPT !.gossip = FALSE], [DiscoveryDefault EXCEPT !.seed_peers = <<"p">>],
              [DiscoveryDefault EXCEPT !.organization_id = Some("org")],
              [DiscoveryDefault EXCEPT !.standard_buffer_size = 1]},
     l \in {LifecycleDefault, [LifecycleDefault EXCEPT !.shutdown_grace_secs = 0]}}

-----------------------------------------------------------------------------
ClientsInit ==
  /\ part \in Parts /\ Init /\ CoreInit /\ ApiInit /\ ManifestsInit
  /\ (part # "core" => running = Daemons)

(* The state of every part but one stays.                                    *)
Others(p) ==
  /\ UNCHANGED part
  /\ (p # "action" => UNCHANGED vars) /\ (p # "core" => UNCHANGED coreVars)
  /\ (p # "api" => UNCHANGED call)
  /\ (p \notin {"formats", "stack", "launch"} => UNCHANGED manifestVars)

ClientsNext ==
  \/ part = "action" /\ Next /\ Others("action")
  \/ part = "core" /\ CoreNext /\ Others("core")
  \/ part = "api" /\ ApiNext /\ Others("api")
  \/ part = "formats" /\ StackNext({"arm"}) /\ Others("formats")
  \/ part = "stack" /\ StackNext({"camera", "brain"}) /\ Others("stack")
  \/ part = "launch" /\ LaunchNext /\ Others("launch")

clientsVars == <<part, vars, coreVars, call, manifestVars>>

ClientsSpec == ClientsInit /\ [][ClientsNext]_clientsVars /\ Fairness

(* What is written, as a message or as a file, is read for what it was.      *)
WrittenIsRead == SymmetricCodecs /\ ManifestsHold
=============================================================================
