------------------------------- MODULE Manifests -------------------------------
(***************************************************************************)
(* The files a node is made of: its peppy.json5, read and checked          *)
(* (peppy-config-model/src/node/types.rs, parse.rs, mount_policy.rs), held *)
(* in a stack and checked against the nodes it depends on (validation.rs); *)
(* and the launch file its daemon writes for it (runtime.rs).              *)
(*                                                                         *)
(* A document is a function from the keys that are there.  An operator     *)
(* that reads one returns the set of what it may be read as: one value, or *)
(* none when it is refused.  An Option and a Vec are sequences, a map is a *)
(* function (an IndexMap's order counts for nothing when compared).  Keys  *)
(* given twice are left out, and so are fields nobody looks into.          *)
(***************************************************************************)
EXTENDS Integers, FiniteSets, SequencesExt

CONSTANTS
  NodeDocuments,  \* of each node, the peppy.json5 files it may come with
  LaunchConfigs   \* what a daemon may write into a launch file

VARIABLES
  stack,     \* of each node, its NodeConfig once it was loaded
  replaced,  \* the node loaded last, with the interfaces it had before
  saved,     \* the RuntimeConfig that was written last
  launch     \* the launch file

manifestVars == <<stack, replaced, saved, launch>>

-----------------------------------------------------------------------------
(* Reading: serde                                                            *)

None == <<>>
Some(v) == <<v>>

(* What is read piece by piece, once every piece is.                         *)
All(pieces) ==
  IF \E k \in DOMAIN pieces : pieces[k] = {} THEN {}
  ELSE {[k \in DOMAIN pieces |-> CHOOSE v \in pieces[k] : TRUE]}

(* deny_unknown_fields, with the fields that have no default.                *)
HasFields(d, needed, others) ==
  needed \subseteq DOMAIN d /\ DOMAIN d \subseteq needed \cup others

FieldOr(d, k, default) == IF k \in DOMAIN d THEN d[k] ELSE default
Optionally(d, k, Read(_)) ==
  IF k \in DOMAIN d THEN {Some(v) : v \in Read(d[k])} ELSE {None}
EachOf(list, Read(_)) == All([i \in DOMAIN list |-> Read(list[i])])

(* Writing: skip_serializing_if.                                             *)
When(written, k, v) == IF written THEN k :> v ELSE <<>>
WhenSome(k, option, Write(_)) == IF option = None THEN <<>> ELSE k :> Write(option[1])

-----------------------------------------------------------------------------
(* Names                                                                     *)

(* str::trim, Name::try_from, and what has no letter and no digit.           *)
Spaces == (" cam" :> "cam") @@ ("img " :> "img") @@ (" " :> "")
Trim(text) == IF text \in DOMAIN Spaces THEN Spaces[text] ELSE text
NameOf(text) == {text} \ ({"", "a/b"} \cup DOMAIN Spaces)
(* Slip: the identifier is checked, but kept with its spaces.               *)
IdentifierAsTyped(text) == IF Trim(text) \in {"", "_"} THEN {} ELSE {text}

NonEmptyIdentifier(text) == {Trim(text)} \ {"", "_"}

-----------------------------------------------------------------------------
(* Message formats: SchemaType                                               *)

Word(w) == [t |-> "word", w |-> w]
Flag(b) == [t |-> "flag", b |-> b]
Number(n) == [t |-> "number", n |-> n]
Map(f) == [t |-> "map", f |-> f]

TokenAlias == ("str" :> "string") @@ ("float" :> "f32") @@ ("double" :> "f64")
TypeTokens == {"bool", "string", "bytes", "time", "u8", "i64", "f32", "f64"}
TypeTokenOf(v) ==
  IF v.t = "word" THEN {FieldOr(TokenAlias, v.w, v.w)} \cap TypeTokens ELSE {}

OptionalFlag(f) ==
  LET given == FieldOr(f, "$optional", Flag(FALSE))
  IN  IF given.t = "flag" THEN {given.b} ELSE {}
LengthOf(f) ==
  Optionally(f, "$length", LAMBDA v : IF v.t = "number" /\ v.n >= 0 THEN {v.n} ELSE {})

RECURSIVE SchemaType(_)

PrimitiveSchema(f) ==
  IF ~HasFields(f, {"$type"}, {"$optional"}) THEN {}
  ELSE All([shape |-> {"primitive"}, kind |-> TypeTokenOf(f["$type"]),
            optional |-> OptionalFlag(f)])

(* Slip: an array is found out by its own name only.                        *)
ItemsOfAnyShape(v) == {s \in SchemaType(v) : ~s.optional}

ArrayItems(v) == {s \in SchemaType(v) : ~s.optional /\ s.shape # "array"}

ArraySchema(f) ==
  IF ~(HasFields(f, {"$type", "$items"}, {"$length", "$optional"})
         /\ f["$type"] = Word("array")) THEN {}
  ELSE All([shape |-> {"array"}, items |-> ArrayItems(f["$items"]),
            length |-> LengthOf(f), optional |-> OptionalFlag(f)])

ObjectSchema(f) ==
  LET members == DOMAIN f \ {"$type", "$optional"}
  IN  IF FieldOr(f, "$type", Word("object")) # Word("object") THEN {}
      ELSE All([shape |-> {"object"}, optional |-> OptionalFlag(f),
                fields |-> All([k \in members |-> {s \in SchemaType(f[k]) : ~s.optional}])])

(* Untagged: the first variant that fits.                                    *)
FirstOf(readings) ==
  LET fitting == SelectSeq(readings, LAMBDA r : r # {})
  IN  IF fitting = <<>> THEN {} ELSE Head(fitting)

SchemaType(v) ==
  CASE v.t = "word" ->
         {[shape |-> "type", kind |-> k, optional |-> FALSE] : k \in TypeTokenOf(v)}
    [] v.t = "map" ->
         FirstOf(<<PrimitiveSchema(v.f), ArraySchema(v.f), ObjectSchema(v.f)>>)
    [] OTHER -> {}

MessageFormat(d) == All([k \in DOMAIN d |-> SchemaType(d[k])])

RECURSIVE WriteSchema(_)
WriteSchema(s) ==
  LET tagged(type) == ("$type" :> Word(type))
                        @@ When(s.optional, "$optional", Flag(TRUE))
  IN  CASE s.shape = "type"      -> Word(s.kind)
        [] s.shape = "primitive" -> Map(tagged(s.kind))
        [] s.shape = "array"     -> Map(tagged("array") @@ "$items" :> WriteSchema(s.items)
                                          @@ WhenSome("$length", s.length, Number))
        [] s.shape = "object"    ->
             Map(tagged("object") @@ [k \in DOMAIN s.fields |-> WriteSchema(s.fields[k])])

WriteFormat(m) == [k \in DOMAIN m |-> WriteSchema(m[k])]

-----------------------------------------------------------------------------
(* Interfaces                                                                *)

Kinds == {"topic", "service", "action"}
Block == [topic |-> "topics", service |-> "services", action |-> "actions"]
Offers == [topic |-> "emits", service |-> "exposes", action |-> "exposes"]

(* An item is one endpoint, or the three of an action; an endpoint has a     *)
(* quality of service, but for a plain service, and message formats.         *)
ActionEndpoints == {"goal_service", "feedback_topic", "result_service"}
FormatsOf(e) == IF e \in {"topic", "feedback_topic"} THEN {"message_format"}
                ELSE {"request_message_format", "response_message_format"}
DefaultQoS(e) == IF e \in {"topic", "feedback_topic"} THEN "standard" ELSE "reliable"
QoSProfile == {"sensor_data", "standard", "reliable", "critical"}
HasQoS(e) == e # "service"

Endpoint(e, d) ==
  IF ~HasFields(d, {}, FormatsOf(e) \cup (IF HasQoS(e) THEN {"qos_profile"} ELSE {}))
  THEN {}
  ELSE All([qos |-> {FieldOr(d, "qos_profile", DefaultQoS(e))} \cap QoSProfile,
            formats |-> All([k \in FormatsOf(e) |-> Optionally(d, k, MessageFormat)])])

Without(d, keys) == [k \in DOMAIN d \ keys |-> d[k]]

(* EmittedTopic, ExposedService and ExposedAction.                           *)
Offered(kind, d) ==
  IF kind # "action"
  THEN All([name |-> {FieldOr(d, "name", "")},
            endpoints |-> All([e \in {kind} |->
                                 {Some(p) : p \in Endpoint(e, Without(d, {"name"}))}])])
  ELSE IF ~HasFields(d, {}, ActionEndpoints \cup {"name"}) THEN {}
  ELSE All([name |-> {FieldOr(d, "name", "")},
            endpoints |-> All([e \in ActionEndpoints |->
                                 Optionally(d, e, LAMBDA p : Endpoint(e, p))])])

(* ConsumedTopic, ConsumedService and ConsumedAction.                        *)
Consumed(kind, d) ==
  IF ~HasFields(d, {"link_id"} \cup (IF kind = "topic" THEN {"name"} ELSE {}), {"name"})
  THEN {}
  ELSE All([link_id |-> NonEmptyIdentifier(d.link_id),
            name |-> IF kind = "topic" THEN NonEmptyIdentifier(d.name)
                     ELSE {FieldOr(d, "name", "")}])

KindBlock(kind, d) ==
  IF ~HasFields(d, {}, {Offers[kind], "consumes"}) THEN {}
  ELSE All([offers |-> Optionally(d, Offers[kind], LAMBDA l :
                                    EachOf(l, LAMBDA i : Offered(kind, i))),
            consumes |-> Optionally(d, "consumes", LAMBDA l :
                                      EachOf(l, LAMBDA i : Consumed(kind, i)))])

ConformsToItem(d) == All([name |-> NameOf(d.name), tag |-> {d.tag}])

Interfaces(d) ==
  IF ~HasFields(d, {}, {Block[k] : k \in Kinds} \cup {"conforms_to"}) THEN {}
  ELSE All([kinds |-> All([k \in Kinds |->
                             Optionally(d, Block[k], LAMBDA b : KindBlock(k, b))]),
            conforms_to |-> Optionally(d, "conforms_to", LAMBDA l :
                                         EachOf(l, ConformsToItem))])

(* Slip: a profile that is the topics' default is not written.               *)
WriteUnlessStandard(e, p) ==
  When(HasQoS(e) /\ p.qos # "standard", "qos_profile", p.qos)
    @@ [k \in {f \in FormatsOf(e) : p.formats[f] # None} |-> WriteFormat(p.formats[k][1])]

WriteEndpoint(e, p) ==
  When(HasQoS(e), "qos_profile", p.qos)
    @@ [k \in {f \in FormatsOf(e) : p.formats[f] # None} |-> WriteFormat(p.formats[k][1])]

WriteOffered(kind, item) ==
  LET there == {e \in DOMAIN item.endpoints : item.endpoints[e] # None}
      Body(e) == WriteEndpoint(e, item.endpoints[e][1])
  IN  ("name" :> item.name)
        @@ (IF kind = "action" THEN [e \in there |-> Body(e)] ELSE Body(kind))

WriteKind(kind, b) ==
  WhenSome(Offers[kind], b.offers, LAMBDA l :
             [i \in DOMAIN l |-> WriteOffered(kind, l[i])])
    @@ WhenSome("consumes", b.consumes, LAMBDA l : l)

WriteInterfaces(i) ==
  LET there == {k \in Kinds : i.kinds[k] # None}
  IN  [b \in {Block[k] : k \in there} |->
         LET k == CHOOSE k \in there : Block[k] = b IN WriteKind(k, i.kinds[k][1])]
        @@ WhenSome("conforms_to", i.conforms_to, LAMBDA l : l)

(* Interfaces::matches_unordered: lists sorted by all their fields, an empty *)
(* one as none, a block of nothing as none.                                  *)
(* Slip: a stable sort by name alone.                                       *)
SortedByName(list) ==
  [n \in {x.name : x \in ToSet(list)} |-> SelectSeq(list, LAMBDA x : x.name = n)]

Sorted(list) == [x \in ToSet(list) |-> Cardinality({i \in DOMAIN list : list[i] = x})]

NormalizedList(option) == IF option \in {None, Some(<<>>)} THEN None
                          ELSE Some(Sorted(option[1]))

NormalizedKind(option) ==
  IF option = None THEN None
  ELSE LET b == [offers |-> NormalizedList(option[1].offers),
                 consumes |-> NormalizedList(option[1].consumes)]
       IN  IF b = [offers |-> None, consumes |-> None] THEN None ELSE Some(b)

Normalized(i) == [kinds |-> [k \in Kinds |-> NormalizedKind(i.kinds[k])],
                  conforms_to |-> NormalizedList(i.conforms_to)]

MatchesUnordered(i, j) == Normalized(i) = Normalized(j)

-----------------------------------------------------------------------------
(* The manifest and the execution                                            *)

Slot(d) ==
  IF ~HasFields(d, {"name", "tag", "link_id"}, {"from_any"}) THEN {}
  ELSE All([name |-> NameOf(d.name), tag |-> {d.tag},
            link_id |-> NonEmptyIdentifier(d.link_id),
            from_any |-> {FieldOr(d, "from_any", FALSE)}])

DependsOn(d) ==
  IF ~HasFields(d, {}, {"nodes", "interfaces"}) THEN {}
  ELSE All([nodes |-> EachOf(FieldOr(d, "nodes", <<>>), Slot),
            interfaces |-> EachOf(FieldOr(d, "interfaces", <<>>), Slot)])

Manifest(d) ==
  IF ~HasFields(d, {"name", "tag"}, {"depends_on"}) THEN {}
  ELSE All([name |-> NameOf(d.name), tag |-> {d.tag},
            depends_on |-> Optionally(d, "depends_on", DependsOn)])

Execution(d) ==
  IF ~HasFields(d, {"language"}, {"parameters", "run_cmd", "container"}) THEN {}
  ELSE All([language |-> {d.language} \cap {"rust", "python"},
            parameters |-> {FieldOr(d, "parameters", <<>>)},
            run_cmd |-> Optionally(d, "run_cmd", LAMBDA c : {c}),
            container |-> Optionally(d, "container", LAMBDA c : {c})])

NodeConfig(d) ==
  IF ~(HasFields(d, {"peppy_schema", "manifest", "execution"}, {"interfaces"})
         /\ d.peppy_schema = "node/v1") THEN {}
  ELSE All([manifest |-> Manifest(d.manifest), execution |-> Execution(d.execution),
            interfaces |-> Interfaces(FieldOr(d, "interfaces", <<>>))])

(* A mount is the directories of its host path and a container path, where   *)
(* a reference to a parameter may stand for a directory.  The source ends at *)
(* the first colon, and that is one inside a reference.                      *)
Reference == [device |-> "${parameters:device}", name |-> "${parameters:name}"]
IsReference(directory) == \E p \in DOMAIN Reference : Reference[p] = directory

ExtractParameterRefs(mount) ==
  {p \in DOMAIN Reference : Reference[p] \in ToSet(mount.host \o mount.container)}

SourceOf(mount) ==
  LET first == SelectInSeq(mount.host, IsReference)
  IN  IF first = 0 THEN mount.host
      ELSE Append(SubSeq(mount.host, 1, first - 1), "${parameters")

BLOCKED_MOUNT_PATHS == {"bin", "dev", "etc", "home", "opt", "sbin", "tmp", "usr", "var"}

(* is_blocked_mount_source: runs of slashes are one; the root is blocked.    *)
IsBlockedMountSource(path) ==
  LET directories == SelectSeq(path, LAMBDA d : d # "")
      below == IF Len(directories) = 2 /\ directories[1] = "private"
               THEN Tail(directories) ELSE directories
  IN  \/ directories = <<>>
      \/ path[1] = "" /\ Len(below) = 1 /\ below[1] \in BLOCKED_MOUNT_PATHS

MountsOf(container) == FieldOr(container, "mount_paths", <<>>)

ContainerFits(container, parameters) ==
  \A mount \in ToSet(MountsOf(container)) :
    /\ ~IsBlockedMountSource(SourceOf(mount))
    /\ \A p \in ExtractParameterRefs(mount) : FieldOr(parameters, p, "none") = "string"

ExecutionFits(x) ==
  /\ x.run_cmd # Some(<<>>)
  /\ (x.run_cmd = None) # (x.container = None)
  /\ \A i \in DOMAIN x.container : ContainerFits(x.container[i], x.parameters)

NodeSlots(m) == IF m.depends_on = None THEN <<>> ELSE m.depends_on[1].nodes
InterfaceSlots(m) == IF m.depends_on = None THEN <<>> ELSE m.depends_on[1].interfaces
SlotsOf(m) == NodeSlots(m) \o InterfaceSlots(m)

(* validate_depends_on                                                       *)
DependsOnFits(m) ==
  LET slots == SlotsOf(m)
  IN  \A i, j \in DOMAIN slots : i # j =>
        /\ slots[i].link_id # slots[j].link_id
        /\ ~(slots[i].from_any /\ slots[j].from_any
               /\ slots[i].name = slots[j].name /\ slots[i].tag = slots[j].tag)

(* NodeConfigParser::from_content                                            *)
FromContent(d) ==
  {c \in NodeConfig(d) : ExecutionFits(c.execution) /\ DependsOnFits(c.manifest)}

WriteSlot(s) == [name |-> s.name, tag |-> s.tag, link_id |-> s.link_id]
                  @@ When(s.from_any, "from_any", TRUE)
WriteDependsOn(d) ==
  [k \in {k \in DOMAIN d : d[k] # <<>>} |-> [i \in DOMAIN d[k] |-> WriteSlot(d[k][i])]]

WriteNodeConfig(c) ==
  [peppy_schema |-> "node/v1",
   manifest |-> [name |-> c.manifest.name, tag |-> c.manifest.tag]
                  @@ WhenSome("depends_on", c.manifest.depends_on, WriteDependsOn),
   interfaces |-> WriteInterfaces(c.interfaces),
   execution |-> [language |-> c.execution.language, parameters |-> c.execution.parameters]
                   @@ WhenSome("run_cmd", c.execution.run_cmd, LAMBDA v : v)
                   @@ WhenSome("container", c.execution.container, LAMBDA v : v)]

-----------------------------------------------------------------------------
(* A node against the others: validation.rs                                  *)

Loaded(configs) == {n \in DOMAIN configs : configs[n] # None}

(* resolve, of whoever keeps the stack.                                      *)
Resolve(configs, slot) ==
  {configs[n][1] : n \in {n \in Loaded(configs) :
     configs[n][1].manifest.name = slot.name /\ configs[n][1].manifest.tag = slot.tag}}

OffersOf(i, kind) ==
  IF i.kinds[kind] = None \/ i.kinds[kind][1].offers = None THEN {}
  ELSE ToSet(i.kinds[kind][1].offers[1])
ConsumesOf(i, kind) ==
  IF i.kinds[kind] = None \/ i.kinds[kind][1].consumes = None THEN <<>>
  ELSE i.kinds[kind][1].consumes[1]

(* Slip: only the name asked for is trimmed.                                *)
ExposesAsTyped(c, kind, name) ==
  \E item \in OffersOf(c.interfaces, kind) : item.name = Trim(name)

ExposesInterface(c, kind, name) ==
  \E item \in OffersOf(c.interfaces, kind) : Trim(item.name) = Trim(name)

(* validate_consumed_items: those to complain about.                         *)
ValidateConsumedItems(c, kind, configs) ==
  LET linked(slots, item) == {s \in ToSet(slots) : s.link_id = item.link_id}
      Declared(item) == linked(SlotsOf(c.manifest), item) # {}
      Producers(item) == UNION {Resolve(configs, s) : s \in linked(NodeSlots(c.manifest), item)}
      Complained(item) ==
        \/ ~Declared(item)
        \/ \E p \in Producers(item) : ~ExposesInterface(p, kind, item.name)
  IN  SelectSeq(ConsumesOf(c.interfaces, kind), Complained)

ValidateDependencySpecs(c, configs) ==
  [missing |-> SelectSeq(NodeSlots(c.manifest), LAMBDA s : Resolve(configs, s) = {}),
   items |-> [k \in Kinds |-> ValidateConsumedItems(c, k, configs)]]

NodeConformsTo(c, name, tag) ==
  \E items \in ToSet(c.interfaces.conforms_to) :
    \E item \in ToSet(items) : item.name = name /\ item.tag = tag

(* collect_interface_conformance_edges                                       *)
ConformanceEdges(configs) ==
  UNION {{[consumer |-> n, provider |-> p, interface |-> s.name] :
            p \in {p \in Loaded(configs) : NodeConformsTo(configs[p][1], s.name, s.tag)}} :
         <<n, s>> \in UNION {{n} \X ToSet(InterfaceSlots(configs[n][1].manifest)) :
                               n \in Loaded(configs)}}

-----------------------------------------------------------------------------
(* The launch file: RuntimeConfig                                            *)

DiscoveryDefault == [seed_peers |-> <<>>, gossip |-> TRUE, standard_buffer_size |-> 128,
                     high_throughput_buffer_size |-> 1024, organization_id |-> None]
LifecycleDefault == [daemon_grace_secs |-> 180, shutdown_grace_secs |-> 5]

(* What serde puts for a field of a block that leaves it out.                *)
(* Slip: a field that is left out is zero, whatever the block starts with.  *)
ZeroedFields == [seed_peers |-> <<>>, gossip |-> FALSE, standard_buffer_size |-> 0,
                 high_throughput_buffer_size |-> 0]

DiscoveryFieldDefaults == [seed_peers |-> <<>>, gossip |-> TRUE, standard_buffer_size |-> 128,
                           high_throughput_buffer_size |-> 1024]
LifecycleFieldDefaults == [daemon_grace_secs |-> 180, shutdown_grace_secs |-> 5]

DiscoveryConfig(d) ==
  IF ~HasFields(d, {}, DOMAIN DiscoveryDefault) THEN {}
  ELSE {[k \in DOMAIN DiscoveryDefault |->
           IF k = "organization_id" THEN IF k \in DOMAIN d THEN Some(d[k]) ELSE None
           ELSE FieldOr(d, k, DiscoveryFieldDefaults[k])]}
LifecycleConfig(d) ==
  IF ~HasFields(d, {}, DOMAIN LifecycleDefault) THEN {}
  ELSE {[k \in DOMAIN LifecycleDefault |-> FieldOr(d, k, LifecycleFieldDefaults[k])]}

RuntimeConfig(d) ==
  IF ~HasFields(d, {"node_name", "node_tag", "instance_id"},
                {"slot_bindings", "discovery", "lifecycle"}) THEN {}
  ELSE All([node_name |-> NameOf(d.node_name), node_tag |-> NameOf(d.node_tag),
            instance_id |-> NameOf(d.instance_id),
            slot_bindings |-> {FieldOr(d, "slot_bindings", <<>>)},
            discovery |-> IF "discovery" \in DOMAIN d THEN DiscoveryConfig(d.discovery)
                          ELSE {DiscoveryDefault},
            lifecycle |-> IF "lifecycle" \in DOMAIN d THEN LifecycleConfig(d.lifecycle)
                          ELSE {LifecycleDefault}])

WriteDiscovery(c) == Without(c, {"organization_id"})
                       @@ WhenSome("organization_id", c.organization_id, LAMBDA o : o)

(* A block that is the default is left out.                                  *)
WriteRuntimeConfig(c) ==
  [node_name |-> c.node_name, node_tag |-> c.node_tag, instance_id |-> c.instance_id]
    @@ When(c.slot_bindings # <<>>, "slot_bindings", c.slot_bindings)
    @@ When(c.discovery # DiscoveryDefault, "discovery", WriteDiscovery(c.discovery))
    @@ When(c.lifecycle # LifecycleDefault, "lifecycle", c.lifecycle)

-----------------------------------------------------------------------------
InterfacesIn(option) == IF option = None THEN None ELSE Some(option[1].interfaces)

(* A document is accepted and takes the place of the node's former one, or   *)
(* is refused (the stack is external).                                       *)
LoadNode(n, d) ==
  /\ FromContent(d) # {} /\ stack' = [stack EXCEPT ![n] = Some(CHOOSE c \in FromContent(d) : TRUE)]
  /\ replaced' = [node |-> n, interfaces |-> InterfacesIn(stack[n])]
  /\ UNCHANGED <<saved, launch>>

UnloadNode(n) ==
  /\ stack[n] # None /\ stack' = [stack EXCEPT ![n] = None]
  /\ replaced' = [node |-> n, interfaces |-> None]
  /\ UNCHANGED <<saved, launch>>

(* save_json5_launch_config; a daemon from before the unknown fields leaves  *)
(* them at what they are by default, and out of the file.                    *)
SaveLaunchConfig(c, unknown) ==
  LET file == WriteRuntimeConfig(c)
  IN  /\ \A k \in unknown : c.discovery[k] = DiscoveryDefault[k]
      /\ saved' = Some(c)
      /\ launch' = IF "discovery" \notin DOMAIN file THEN file
                   ELSE [file EXCEPT !.discovery = Without(@, unknown)]
      /\ UNCHANGED <<stack, replaced>>

ManifestsInit ==
  /\ stack = [n \in DOMAIN NodeDocuments |-> None]
  /\ replaced = [node |-> CHOOSE n \in DOMAIN NodeDocuments : TRUE, interfaces |-> None]
  /\ saved = None /\ launch = <<>>

(* The stack with these nodes only, and the launch files: what one does is   *)
(* nothing to the other.                                                     *)
StackNext(nodes) ==
  \E n \in nodes : UnloadNode(n) \/ \E d \in NodeDocuments[n] : LoadNode(n, d)
LaunchNext ==
  \E c \in LaunchConfigs, unknown \in SUBSET DOMAIN DiscoveryDefault :
    SaveLaunchConfig(c, unknown)

ManifestsNext == StackNext(DOMAIN NodeDocuments) \/ LaunchNext

ManifestsSpec == ManifestsInit /\ [][ManifestsNext]_manifestVars

-----------------------------------------------------------------------------
(* A node's configuration, sent on as the JSON it is written as (node_info), *)
(* and a launch file say to whoever reads them what the writer held, with    *)
(* everything that was left out because it is a default.                     *)
WrittenConfigsAreRead ==
  /\ \A n \in Loaded(stack) : FromContent(WriteNodeConfig(stack[n][1])) = {stack[n][1]}
  /\ saved # None => RuntimeConfig(launch) = {saved[1]}

(* Whatever variant an untagged schema was taken for, no array that is       *)
(* accepted has items that are arrays or optional, and no object has         *)
(* optional members (deserialize_array_items, ObjectSchemaVisitor).          *)
RECURSIVE FlatSchema(_)
FlatSchema(s) ==
  CASE s.shape = "array"  -> /\ s.items.shape # "array" /\ ~s.items.optional
                             /\ FlatSchema(s.items)
    [] s.shape = "object" -> \A k \in DOMAIN s.fields :
                               ~s.fields[k].optional /\ FlatSchema(s.fields[k])
    [] OTHER -> TRUE

FormatsAreFlat ==
  \A n \in Loaded(stack) : \A kind \in Kinds :
    \A item \in OffersOf(stack[n][1].interfaces, kind) : \A e \in DOMAIN item.endpoints :
      \A p \in ToSet(item.endpoints[e]) : \A k \in DOMAIN p.formats :
        \A m \in ToSet(p.formats[k]) : \A f \in DOMAIN m : FlatSchema(m[f])

(* With every node there, what is complained about is just what no slot or   *)
(* two lead to, spaces or not, or what the node at the end of its link does  *)
(* not offer; and a node that is missing is complained about once, not again *)
(* for what it should offer (validate_dependency_specs).                     *)
OfferedTo(n, kind, item) ==
  LET slots == SlotsOf(stack[n][1].manifest)
      led == {i \in DOMAIN slots : Trim(slots[i].link_id) = item.link_id}
  IN  /\ Cardinality(led) = 1
      /\ \A i \in led : i <= Len(NodeSlots(stack[n][1].manifest)) =>
           \E p \in Loaded(stack) :
             /\ stack[p][1].manifest.name = slots[i].name
             /\ Trim(item.name) \in {Trim(o.name) : o \in OffersOf(stack[p][1].interfaces, kind)}

ReportIsRight ==
  \A n \in Loaded(stack) :
    LET report == ValidateDependencySpecs(stack[n][1], stack)
    IN  /\ report.missing = <<>> => \A k \in Kinds :
             LET items == ConsumesOf(stack[n][1].interfaces, k)
             IN  \A item \in ToSet(items) :
                   (item \in ToSet(report.items[k])) # OfferedTo(n, k, item)
        /\ \A s \in ToSet(report.missing), k \in Kinds :
             \A item \in ToSet(report.items[k]) : item.link_id # s.link_id

(* Interfaces that match are as good as each other: a node that comes back   *)
(* with the same in another order is taken for the same, and nobody is       *)
(* served differently by one that is (matches_unordered, "ignoring the order *)
(* of items within each list and the order of fields").                      *)
Turned(i) ==
  LET Turn(option) == IF option = None THEN None ELSE Some(Reverse(option[1]))
  IN  [kinds |-> [k \in Kinds |-> IF i.kinds[k] = None THEN None
                                  ELSE Some([offers |-> Turn(i.kinds[k][1].offers),
                                             consumes |-> Turn(i.kinds[k][1].consumes)])],
       conforms_to |-> Turn(i.conforms_to)]

MatchingServesAlike ==
  LET n == replaced.node
      now == stack[n][1].interfaces
      former == [stack EXCEPT ![n] = Some([@[1] EXCEPT !.interfaces = replaced.interfaces[1]])]
  IN  /\ \A m \in Loaded(stack) :
           LET i == stack[m][1].interfaces IN MatchesUnordered(i, Turned(i))
      /\ ~(stack[n] = None \/ replaced.interfaces = None)
           /\ MatchesUnordered(replaced.interfaces[1], now) =>
             /\ ConformanceEdges(former) = ConformanceEdges(stack)
             /\ \A m \in Loaded(stack) \ {n} :
                  ValidateDependencySpecs(stack[m][1], former)
                    = ValidateDependencySpecs(stack[m][1], stack)

ManifestsHold ==
  WrittenConfigsAreRead /\ FormatsAreFlat /\ ReportIsRight /\ MatchingServesAlike
=============================================================================
