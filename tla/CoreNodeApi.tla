------------------------------ MODULE CoreNodeApi ------------------------------
(***************************************************************************)
(* The messages between the core node's daemon and whoever talks to it     *)
(* (core-node-api/src/encoding/ and graph.rs): each is a table of fields,  *)
(* in the names of the source, and every encode and decode is Put and Get  *)
(* of CoreNodeFields over it.  The state is one message under way, from a  *)
(* sender of this version, an older one or any other.                      *)
(***************************************************************************)
EXTENDS CoreNodeFields

VARIABLE call  \* the message under way

-----------------------------------------------------------------------------
(* Node services                                                             *)

Outcome == [success |-> FlagField, error_message |-> OptionalTextField]
TextOutcome == [success |-> FlagField, error_message |-> TextField]
Answered == [accepted |-> FlagField, rejection_reason |-> OptionalTextField]
With(fields, more) ==
  [f \in DOMAIN fields \cup DOMAIN more |->
     IF f \in DOMAIN more THEN more[f] ELSE fields[f]]
Logged == With(Answered, [log_path |-> PathField])

FeedbackStream == EnumField({"stdout", "stderr", "warning"}, "stdout")
StreamLine == Struct([stream |-> FeedbackStream, line |-> TextField])

NodeStopRequest == Struct([instance_id |-> TextField])
NodeStopResponse == Struct(With(Outcome, [force_killed |-> FlagField]))

NodeRemoveRequest ==
  Struct([node_name |-> TextField, tag |-> TextField, stop_instances |-> FlagField])
NodeRemoveResponse == Struct(Outcome)

NodeInitRequest ==
  Struct([node_root_dir |-> Utf8PathField, node_name |-> TextField, git_hash |-> TextField,
          with_container |-> FlagField, toolchain |-> ToolchainField])
NodeInitResponse == Struct(TextOutcome)

(* The digest of an archive travels beside the choice, in http_sha256, and   *)
(* is read with this arm only.                                               *)
NodeSource ==
  ChoiceOf([fs |-> FsPathField,
            git |-> Struct([repo_url |-> GitUrlField, repo_path |-> TextField,
                            repo_ref |-> GitRefField]),
            http |-> Struct([url |-> HttpUrlField, sha256 |-> HttpSha256Field]),
            repo_node |-> Struct([name |-> RepoNodeField, tag |-> RepoNodeField])])
NodeAddGoal ==
  Struct([source |-> NodeSource, git_hash |-> TextField, env_vars |-> EnvVars,
          timeout_secs |-> NumberField, force |-> FlagField])

NodeAddGoalResponse == Struct(Logged)
NodeAddFeedback == StreamLine
NodeAddResult ==
  Struct(With(Outcome, [log_path |-> PathField, node_name |-> OptionalTextField,
                        node_tag |-> OptionalTextField]))

NodeBuildGoal ==
  Struct([node_name |-> TextField, node_tag |-> TextField, env_vars |-> EnvVars,
          timeout_secs |-> NumberField, force |-> FlagField])
NodeBuildGoalResponse == Struct(Logged)
NodeBuildFeedback == StreamLine
NodeBuildResult ==
  Struct(With(Outcome, [artifact_path |-> PathField, log_path |-> PathField]))

NodeRunGoal ==
  Struct([runtime_config_json5 |-> TextField, node_name |-> TextField, tag |-> TextField,
          env_vars |-> EnvVars, timeout_secs |-> NumberField])
NodeRunGoalResponse == Struct(Logged)
NodeRunFeedback == StreamLine
NodeRunResult == Struct(With(Outcome, [pid |-> OptionalNumberField]))

RepoSourceKind == NamedField({"fs", "git", "url"}, "fs")
NodeSyncRequest ==
  Struct([node_root_dir |-> PathField, git_hash |-> TextField,
          include_repositories |-> FlagField])
RepoResolvedEntry ==
  Struct([name |-> TextField, tag |-> TextField, source_kind |-> RepoSourceKind])
NodeSyncResponse ==
  Struct(With(TextOutcome, [resolved_from_stack |-> ListOf(TextField),
                            resolved_from_repositories |-> ListOf(RepoResolvedEntry)]))

InstanceState == NamedField({"starting", "running", "finished", "failed"}, "running")
NodeStage == NamedField({"Added", "Building", "Ready", "Root"}, "Ready")
NodeInfoRequest == Struct([node_name |-> TextField, node_tag |-> TextField])
NodeInstanceInfo ==
  Struct([instance_id |-> TextField, state |-> InstanceState, healthy |-> HealthyField,
          slot_bindings |-> SlotBindingsField])
NodeInfo ==
  Struct([config |-> ConfigField, config_integrity |-> TextField, stage |-> NodeStage,
          instances |-> ListOf(NodeInstanceInfo), add_log_path |-> OptionalPathField,
          run_log_paths |-> ListOf(PathField)])
NodeInfoResponse ==
  ChoiceOf([not_in_stack |-> Void, found |-> Aligned(NodeInfo, "run_log_paths", "instances")])

-----------------------------------------------------------------------------
(* The stack                                                                 *)

(* A file that the daemon opens, or a name in its repository cache.          *)
LauncherOrigin == ChoiceOf([fs |-> AbsoluteFsPathField, repository |-> NonEmptyField])
DEFAULT_IDLE_TIMEOUT_SECS == 600
IdleTimeout == DefaultedNumberField(DEFAULT_IDLE_TIMEOUT_SECS)
LaunchGoal ==
  Struct([launcher_origin |-> LauncherOrigin, env_vars |-> EnvVars,
          node_add_idle_timeout_secs |-> IdleTimeout,
          node_build_idle_timeout_secs |-> IdleTimeout,
          node_run_idle_timeout_secs |-> IdleTimeout,
          max_timeout_secs |-> OptionalNumberField])
LaunchGoalResponse == Struct(Logged)
LaunchFeedback ==
  Struct([stream |-> TextField, line |-> TextField,
          step |-> EnumField({"LauncherStep", "AddingNode", "RunningNode", "BuildingNode"},
                              "AddingNode")])
LogEntry == [node_label |-> TextField, log_path |-> PathField, failed |-> FlagField]
NodeRunLogEntry == Struct(With(LogEntry, [instance_id |-> TextField]))
LaunchResult ==
  Struct(With(Outcome, [log_path |-> PathField, node_add_logs |-> ListOf(Struct(LogEntry)),
                        node_build_logs |-> ListOf(Struct(LogEntry)),
                        node_run_logs |-> ListOf(NodeRunLogEntry)]))

DEFAULT_SAMPLES == 200
DEFAULT_PER_SAMPLE_TIMEOUT_MS == 2000
StackBenchmarkGoal ==
  Struct([samples |-> DefaultedNumberField(DEFAULT_SAMPLES), warmup |-> NumberField,
          per_sample_timeout_ms |-> DefaultedNumberField(DEFAULT_PER_SAMPLE_TIMEOUT_MS)])
StackBenchmarkGoalResponse == Struct(Answered)
StackBenchmarkFeedback ==
  Struct([stream |-> TextField, line |-> TextField,
          step |-> EnumField({"Enumerating", "Probing", "TopicDelivery", "Aggregating"},
                              "Probing")])
InterfaceKind == EnumField({"Topic", "Service", "Action"}, "Topic")
MeasurementKind ==
  EnumField({"ServiceProbe", "ActionProbe", "TopicDelivery", "NodeProbe"}, "NodeProbe")
ClockConfidence ==
  EnumField({"NotApplicable", "SameHost", "CrossHostCorrected", "CrossHostFlagged"},
             "SameHost")
InterfaceLatency ==
  LET texts == {"from_node", "from_tag", "to_node", "to_tag", "interface_name", "link_id"}
      counts == {"p50_ns", "p90_ns", "mean_ns", "count"}
  IN  Struct(With([f \in texts \cup counts |-> IF f \in texts THEN TextField ELSE NumberField],
        [via_interface |-> OptionalTextField, kind |-> InterfaceKind,
         measurement |-> MeasurementKind, clock_confidence |-> ClockConfidence,
         samples_ns |-> ListOf(NumberField), note |-> OptionalTextField]))
StackBenchmarkResult == Struct(With(Outcome, [rows |-> ListOf(InterfaceLatency)]))

StackListRequest == Struct([with_dot_graph |-> FlagField])
StackListResponse == Struct([dot_graph |-> OptionalTextField, graph_json |-> TextField])
NodeResetRequest == Void
NodeResetResponse == Struct(Outcome)

(* What graph_json holds; a key with a default may be missing.               *)
SerializedInstance ==
  Struct([instance_id |-> TextField, state |-> InstanceState,
          healthy |-> DefaultsTo(FlagField, TRUE, FALSE),
          slot_bindings |-> DefaultsTo(AsItIs({{}, {"slot"}}, {"slot"}), {}, TRUE)])
SerializedNode ==
  Struct([name |-> TextField, tag |-> TextField, config_path |-> TextField,
          artifact_path |-> AsItIs(Options, Given("x")),
          stage |-> DefaultsTo(OptionOf(NodeStage), Absent, FALSE),
          instances |-> DefaultsTo(ListOf(SerializedInstance), <<>>, FALSE)])
SerializedEdge ==
  Struct([from |-> SerializedNode, to |-> SerializedNode,
          via_interface |-> DefaultsTo(AsItIs(Options, Given("x")), Absent, TRUE)])
SerializedNodeGraph ==
  Struct([nodes |-> ListOf(SerializedNode), edges |-> ListOf(SerializedEdge)])

-----------------------------------------------------------------------------
(* The repositories                                                          *)

RepoSource ==
  ChoiceOf([fs |-> FsPathField,
            git |-> Struct([repo_url |-> TextField, repo_ref |-> OptionalTextField]),
            url |-> TextField])
RepoAddRequest == Struct([source |-> RepoSource, top |-> FlagField])
RepoAddResponse == Struct(TextOutcome)
RepoExcludeRequest == Struct([source |-> RepoSource])
RepoExcludeResponse == Struct(TextOutcome)
RepoRemoveRequest == Struct([id |-> NumberField])
RepoRemoveResponse == Struct(TextOutcome)

RepoListRequest == Void
RepoListNodeEntry ==
  Struct([node_name |-> TextField, node_tag |-> TextField, source_type |-> RepoSourceKind,
          path |-> TextField, duplicate |-> FlagField, repo_id |-> NumberField,
          repo_label |-> TextField])
RepoListResponse == Struct(With(Outcome, [nodes |-> ListOf(RepoListNodeEntry)]))

RepoItemKind == NamedField({"node", "launcher", "interface"}, "node")
RepoRefreshGoal == Void
RepoRefreshGoalResponse == Struct(Answered)
RepoRefreshFeedback ==
  ChoiceOf([discovered |-> Struct([kind |-> RepoItemKind, item_name |-> TextField,
                                   item_tag |-> TextField, source_type |-> RepoSourceKind,
                                   path |-> TextField, sha256 |-> TextField]),
            excluded |-> Struct([source_type |-> RepoSourceKind, identity |-> TextField]),
            progress |-> TextField])
RepoRefreshResult ==
  Struct(With(Outcome, [total_nodes_found |-> NumberField, total_launchers_found |-> NumberField,
                        total_interfaces_found |-> NumberField]))

-----------------------------------------------------------------------------
(* The datastore, the clock and the rest of the core node                    *)

DatastoreStoreRequest ==
  Struct([key |-> DatastoreKeyField, value |-> TextField, encoding |-> TextField])
DatastoreStoreResponse == Void
DatastoreGetRequest == Struct([key |-> DatastoreKeyField])
DatastoreGetResponse ==
  Struct([found |-> FlagField, value |-> TextField, encoding |-> TextField,
          last_modified_by |-> TextField])
DatastoreListRequest == Void
(* The keys of a list were checked when they were stored, and are not again. *)
DatastoreListResponse ==
  Struct([entries |-> ListOf(Struct([key |-> TextField, encoding |-> TextField,
                                     last_modified_by |-> TextField]))])
DatastoreRemoveRequest == Struct([key |-> DatastoreKeyField])
DatastoreRemoveResponse == Struct([removed |-> FlagField])

ClockRequest == Struct([client_send_time |-> NumberField])
ClockResponse ==
  Struct([client_send_time |-> NumberField, server_recv_time |-> NumberField,
          server_send_time |-> NumberField])
ClockOffsetRequest == Void
ClockOffsetResponse ==
  Struct([offset_ns |-> AsItIs({-1, 0, 1}, 1), round_trip_delay_ns |-> NumberField])
ClockTick == Struct([time |-> NumberField])

PingRequest == Struct([timestamp |-> NumberField])
PingResponse == Struct([timestamp |-> NumberField, message |-> TextField])
HealthRequest == Void
HealthResponse == Struct([status |-> TextField, uptime_secs |-> NumberField])
InfoRequest == Void
InfoResponse ==
  LET texts == {"core_node_name", "core_node_instance_id", "host_name", "git_version"}
      counts == {"uptime_secs", "node_count", "messaging_port"}
  IN  Struct(With([f \in texts \cup counts |-> IF f \in texts THEN TextField ELSE NumberField],
        [container_info |-> Struct([apptainer_version |-> TextField,
                                    lima_version |-> TextField])]))

Message ==
  [NodeStopRequest |-> NodeStopRequest, NodeStopResponse |-> NodeStopResponse,
   NodeRemoveRequest |-> NodeRemoveRequest,
   NodeRemoveResponse |-> NodeRemoveResponse,
   NodeInitRequest |-> NodeInitRequest, NodeInitResponse |-> NodeInitResponse,
   NodeAddGoal |-> NodeAddGoal, NodeAddGoalResponse |-> NodeAddGoalResponse,
   NodeAddFeedback |-> NodeAddFeedback, NodeAddResult |-> NodeAddResult,
   NodeBuildGoal |-> NodeBuildGoal,
   NodeBuildGoalResponse |-> NodeBuildGoalResponse,
   NodeBuildFeedback |-> NodeBuildFeedback,
   NodeBuildResult |-> NodeBuildResult, NodeRunGoal |-> NodeRunGoal,
   NodeRunGoalResponse |-> NodeRunGoalResponse,
   NodeRunFeedback |-> NodeRunFeedback, NodeRunResult |-> NodeRunResult,
   NodeSyncRequest |-> NodeSyncRequest, NodeSyncResponse |-> NodeSyncResponse,
   NodeInfoRequest |-> NodeInfoRequest, NodeInfoResponse |-> NodeInfoResponse,
   LaunchGoal |-> LaunchGoal, LaunchGoalResponse |-> LaunchGoalResponse,
   LaunchFeedback |-> LaunchFeedback, LaunchResult |-> LaunchResult,
   StackBenchmarkGoal |-> StackBenchmarkGoal,
   StackBenchmarkGoalResponse |-> StackBenchmarkGoalResponse,
   StackBenchmarkFeedback |-> StackBenchmarkFeedback,
   StackBenchmarkResult |-> StackBenchmarkResult,
   StackListRequest |-> StackListRequest,
   StackListResponse |-> StackListResponse,
   NodeResetRequest |-> NodeResetRequest,
   NodeResetResponse |-> NodeResetResponse, RepoAddRequest |-> RepoAddRequest,
   RepoAddResponse |-> RepoAddResponse,
   RepoExcludeRequest |-> RepoExcludeRequest,
   RepoExcludeResponse |-> RepoExcludeResponse,
   RepoRemoveRequest |-> RepoRemoveRequest,
   RepoRemoveResponse |-> RepoRemoveResponse,
   RepoListRequest |-> RepoListRequest, RepoListResponse |-> RepoListResponse,
   RepoRefreshGoal |-> RepoRefreshGoal,
   RepoRefreshGoalResponse |-> RepoRefreshGoalResponse,
   RepoRefreshFeedback |-> RepoRefreshFeedback,
   RepoRefreshResult |-> RepoRefreshResult,
   DatastoreStoreRequest |-> DatastoreStoreRequest,
   DatastoreStoreResponse |-> DatastoreStoreResponse,
   DatastoreGetRequest |-> DatastoreGetRequest,
   DatastoreGetResponse |-> DatastoreGetResponse,
   DatastoreListRequest |-> DatastoreListRequest,
   DatastoreListResponse |-> DatastoreListResponse,
   DatastoreRemoveRequest |-> DatastoreRemoveRequest,
   DatastoreRemoveResponse |-> DatastoreRemoveResponse,
   ClockRequest |-> ClockRequest, ClockResponse |-> ClockResponse,
   ClockOffsetRequest |-> ClockOffsetRequest,
   ClockOffsetResponse |-> ClockOffsetResponse, ClockTick |-> ClockTick,
   PingRequest |-> PingRequest, PingResponse |-> PingResponse,
   HealthRequest |-> HealthRequest, HealthResponse |-> HealthResponse,
   InfoRequest |-> InfoRequest, InfoResponse |-> InfoResponse,
   SerializedNodeGraph |-> SerializedNodeGraph]

-----------------------------------------------------------------------------
(* Inputs: a usual message, and all that differ from it in one place         *)

RECURSIVE Usual(_, _)
Usual(s, side) ==
  CASE s.kind = "leaf" -> IF side = "held" THEN s.usual ELSE s.put[s.usual].is
    [] s.kind = "struct" -> [f \in DOMAIN s.fields |-> Usual(s.fields[f], side)]
    [] s.kind = "list" -> <<Usual(s.of, side)>>
    [] s.kind = "choice" ->
         LET a == ArmOf(s.arms) IN Chosen(a, Usual(s.arms[a], side))
    [] s.kind = "defaults" ->
         IF side = "held" THEN Usual(s.of, side) ELSE Given(Usual(s.of, side))

TooLong(s) == [i \in 1..(s.most + 1) |-> Usual(s.of, "held")]

RECURSIVE Variants(_, _)
Variants(s, side) ==
  CASE s.kind = "leaf" -> IF side = "held" THEN DOMAIN s.put ELSE DOMAIN s.get
    [] s.kind = "struct" ->
         {Usual(s, side)} \cup
         UNION {{[Usual(s, side) EXCEPT ![f] = v] : v \in Variants(s.fields[f], side)} :
                  f \in DOMAIN s.fields}
    [] s.kind = "list" ->
         {<<>>} \cup {<<v>> : v \in Variants(s.of, side)}
           \cup (IF side = "held" THEN {TooLong(s)} ELSE {})
           \cup {<<Usual(s.of, side), v>> :
                   v \in IF s.most > 1 THEN Variants(s.of, side) ELSE {}}
    [] s.kind = "choice" ->
         UNION {{Chosen(a, v) : v \in Variants(s.arms[a], side)} : a \in DOMAIN s.arms}
           \cup (IF side = "held" THEN {} ELSE {Chosen(Unknown, Empty)})
    [] s.kind = "defaults" ->
         IF side = "held" THEN {s.default} \cup Variants(s.of, side)
         ELSE {Absent} \cup {Given(w) : w \in Variants(s.of, side)}

(* What an older peer sends: something it does not know of is not there.     *)
RECURSIVE Unset(_, _)
Unset(s, w) ==
  CASE s.kind = "leaf" -> s.unset
    [] s.kind = "struct" ->
         UNION {{[w EXCEPT ![f] = x] : x \in Unset(s.fields[f], w[f])} : f \in DOMAIN s.fields}
    [] s.kind = "list" -> UNION {{[w EXCEPT ![i] = x] : x \in Unset(s.of, w[i])} : i \in DOMAIN w}
    [] s.kind = "choice" ->
         UNION {{Chosen(a, x) : x \in Unset(s.arms[a], Usual(s.arms[a], "wire"))} :
                  a \in DOMAIN s.arms}
    [] s.kind = "defaults" -> {Absent} \cup {Given(x) : x \in Unset(s.of, w[1])}

-----------------------------------------------------------------------------
ApiInit == call = [step |-> "none"]

(* A sender that the encoder refuses sends nothing.                          *)
EncodeCall ==
  \E m \in DOMAIN Message : \E v \in Variants(Message[m], "held") :
    LET sent == Put(Message[m], v) IN
    call' = IF sent.ok
            THEN [step |-> "sent", message |-> m, from |-> "us", held |-> v, wire |-> sent.is]
            ELSE [step |-> "refused", message |-> m, from |-> "us", held |-> v]

ForeignCall ==
  \E m \in DOMAIN Message : \E w \in Variants(Message[m], "wire") :
    call' = [step |-> "sent", message |-> m, from |-> "anyone", wire |-> w]

OlderCall ==
  \E m \in DOMAIN Message : \E w \in Unset(Message[m], Usual(Message[m], "wire")) :
    call' = [step |-> "sent", message |-> m, from |-> "older", wire |-> w]

DecodeCall ==
  LET read == Get(Message[call.message], call.wire)
      arrived == [f \in (DOMAIN call \ {"wire"}) \cup (IF read.ok THEN {"got"} ELSE {}) |->
                    CASE f = "step" -> IF read.ok THEN "read" ELSE "refused"
                      [] f = "got" -> read.is
                      [] OTHER -> call[f]]
  IN  call' = arrived

ApiNext ==
  \/ call.step = "none" /\ (EncodeCall \/ ForeignCall \/ OlderCall)
  \/ call.step = "sent" /\ DecodeCall

ApiSpec == ApiInit /\ [][ApiNext]_call

-----------------------------------------------------------------------------
(* A value that means something, and one thing.                              *)
RECURSIVE Sound(_, _)
Sound(s, v) ==
  CASE s.kind = "leaf" -> v \in s.sound
    [] s.kind = "struct" -> InLine(s, v) /\ \A f \in DOMAIN s.fields : Sound(s.fields[f], v[f])
    [] s.kind = "list" -> Len(v) <= s.most /\ \A i \in DOMAIN v : Sound(s.of, v[i])
    [] s.kind = "choice" -> LET a == ArmOf(v) IN a \in DOMAIN s.arms /\ Sound(s.arms[a], v[a])
    [] s.kind = "defaults" -> Sound(s.of, v)

(* Whatever is sound in v is the same in r.                                  *)
RECURSIVE Kept(_, _, _)
Kept(s, v, r) ==
  CASE s.kind = "leaf" -> v \in s.sound => r = v
    [] s.kind = "struct" -> \A f \in DOMAIN s.fields : Kept(s.fields[f], v[f], r[f])
    [] s.kind = "list" -> Len(r) = Len(v) /\ \A i \in DOMAIN v : Kept(s.of, v[i], r[i])
    [] s.kind = "choice" -> LET a == ArmOf(v) IN DOMAIN r = {a} /\ Kept(s.arms[a], v[a], r[a])
    [] s.kind = "defaults" -> Kept(s.of, v, r)

(* What was read is sound, and would be read again if it were passed on.     *)
ReadIsSound(s, r) ==
  /\ Sound(s, r)
  /\ LET again == Put(s, r) IN again.ok /\ Get(s, again.is) = Took(r)

(* What an older peer leaves out is read as the comments say: an instance is *)
(* healthy, a benchmark and a launch have their default limits.              *)
Elements(list) == {list[i] : i \in DOMAIN list}
Instances(m, r) ==
  CASE m = "NodeInfoResponse" ->
         IF "found" \in DOMAIN r THEN Elements(r.found.instances) ELSE {}
    [] m = "SerializedNodeGraph" ->
         UNION {Elements(n.instances) : n \in Elements(r.nodes)}
    [] OTHER -> {}
OlderIsRead(m, r) ==
  /\ \A i \in Instances(m, r) : i.healthy
  /\ m = "LaunchGoal" =>
       {r.node_add_idle_timeout_secs, r.node_build_idle_timeout_secs,
        r.node_run_idle_timeout_secs} \subseteq {1, DEFAULT_IDLE_TIMEOUT_SECS}
  /\ m = "StackBenchmarkGoal" =>
       r.samples \in {1, DEFAULT_SAMPLES}
         /\ r.per_sample_timeout_ms \in {1, DEFAULT_PER_SAMPLE_TIMEOUT_MS}

(* Encoding and decoding are symmetric (lib.rs): what a sender holds arrives *)
(* as it was wherever it means one thing, and is refused only if something   *)
(* in it means nothing; whatever any peer sends, what is read is sound and   *)
(* can be passed on; an older peer is never refused, nor read as sick.       *)
SymmetricCodecs ==
  /\ call.step = "refused" =>
       call.from # "older" /\ (call.from = "us" => ~Sound(Message[call.message], call.held))
  /\ call.step = "read" =>
       /\ ReadIsSound(Message[call.message], call.got)
       /\ call.from = "us" => Kept(Message[call.message], call.held, call.got)
       /\ call.from = "older" => OlderIsRead(call.message, call.got)
=============================================================================
