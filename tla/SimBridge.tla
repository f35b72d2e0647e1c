------------------------------- MODULE SimBridge -------------------------------
(***************************************************************************)
(* The bridge between a simulator and the nodes (sim_bridge_core/src):     *)
(* SimBridge::run with its pipelines, one for the commands of each arm     *)
(* (run_os_to_sim) and one that brings telemetry back (run_sim_to_os), and *)
(* the joint vector the arms share (ArmMergeState).                        *)
(*                                                                         *)
(* A joint is the number of the command it was last set by; an arm's joints*)
(* are set together.  recv_fn, emit_fn and the transport are the user's.   *)
(* How long a pipeline backs off is left out.                              *)
(*                                                                         *)
(* An operator introduced by "Slip" is a wrong version of the one after    *)
(* it; nothing uses it but the runs that show which property would notice. *)
(***************************************************************************)
EXTENDS Naturals, Sequences, SequencesExt

CONSTANTS
  Arms,         \* each with its own indices into the joint vector
  MaxCommands,  \* bound of the model: commands of an arm
  MaxPasses     \* bound of the model: times a select passes over the token

ASSUME BridgeAssumption == MaxCommands \in Nat /\ MaxPasses \in Nat

VARIABLES
  bridgeAt,     \* off, running, returned
  bridgeToken,  \* the CancellationToken the pipelines share
  passes,       \* selects that passed over it once it was cancelled
  joints,       \* ArmMergeState.inner
  pipes,        \* where each pipeline is
  carried,      \* the message of each arm's pipeline, and what the
                \*   simulator had when it was merged (history)
  simHas,       \* the latest joints the simulator was sent (history)
  handles,      \* the pipelines run still has to await
  warned        \* those it reported as failed

bridgeVars ==
  <<bridgeAt, bridgeToken, passes, joints, pipes, carried, simHas, handles, warned>>

Telemetry == "telemetry"
Pipes == Arms \cup {Telemetry}

NoJoints == [a \in Arms |-> 0]

Newest(m, n) == IF m >= n THEN m ELSE n

-----------------------------------------------------------------------------
(* Moves of one pipeline.                                                    *)
Goes(p, to) ==
  /\ pipes' = [pipes EXCEPT ![p] = to]
  /\ UNCHANGED <<bridgeAt, bridgeToken, handles, warned>>

Step(p, at, to) == pipes[p] = at /\ Goes(p, to) /\ UNCHANGED passes

(* A branch of a select, which has one for the token as well and takes any   *)
(* that is ready.                                                            *)
Branch(p, at, to) ==
  /\ pipes[p] = at /\ Goes(p, to)
  /\ IF bridgeToken THEN passes < MaxPasses /\ passes' = passes + 1
     ELSE UNCHANGED passes

Calm == UNCHANGED <<joints, carried, simHas>>

(* Where a pipeline starts, and starts again.                                *)
StartOf(p) == IF p = Telemetry THEN "subscribe" ELSE "receive"

(* Slip: the vector is built from this command alone.                        *)
MergedAlone(a) == [NoJoints EXCEPT ![a] = joints[a] + 1]

UpdateAndMerge(a) == [joints EXCEPT ![a] = @ + 1]

(* recv_fn returns a command of the arm, merged into the vector.             *)
ReceiveCommand(a) ==
  /\ joints[a] < MaxCommands /\ Branch(a, "receive", "emit")
  /\ joints' = UpdateAndMerge(a)
  /\ carried' = [carried EXCEPT ![a] = [joints |-> UpdateAndMerge(a), seen |-> simHas]]
  /\ UNCHANGED simHas

ReceiveFails(a) == Branch(a, "receive", "pause") /\ Calm

Emitted(a) ==
  /\ Step(a, "emit", "receive")
  /\ simHas' = [b \in Arms |-> Newest(simHas[b], carried[a].joints[b])]
  /\ UNCHANGED <<joints, carried>>

(* The transport refuses it, or it cannot be encoded: the command is lost.   *)
EmitFails(a) == (Step(a, "emit", "pause") \/ Step(a, "emit", "receive")) /\ Calm

SubscribeToSim == Branch(Telemetry, "subscribe", "read") /\ Calm

SubscribeFails == Branch(Telemetry, "subscribe", "pause") /\ Calm

(* A sample is handed to emit_fn, whose error is logged.                     *)
ReadSample == Branch(Telemetry, "read", "relay") /\ Calm

Relayed == Step(Telemetry, "relay", "read") /\ Calm

SubscriptionCloses == Branch(Telemetry, "read", "subscribe") /\ Calm

BackoffEnds(p) == Branch(p, "pause", StartOf(p)) /\ Calm

(* Slip: an open subscription is read without an eye on the token.           *)
SelectsButRead == {"receive", "pause", "subscribe"}

Selects == {"receive", "pause", "subscribe", "read"}

ObserveToken(p) ==
  /\ bridgeToken /\ pipes[p] \in Selects /\ Goes(p, "ended")
  /\ Calm /\ UNCHANGED passes

(* One of the user's functions panics, and with it the task.                 *)
PipelinePanics(p) ==
  /\ pipes[p] \in {"receive", "emit", "relay"} /\ Goes(p, "panicked")
  /\ Calm /\ UNCHANGED passes

-----------------------------------------------------------------------------
(* run                                                                       *)

SpawnPipelines ==
  /\ bridgeAt = "off" /\ bridgeAt' = "running"
  /\ pipes' = [p \in Pipes |-> StartOf(p)]
  /\ handles' = SetToSeq(Pipes)
  /\ UNCHANGED <<bridgeToken, passes, joints, carried, simHas, warned>>

Over(p) == pipes[p] \in {"ended", "panicked"}

(* Slip: the error of a handle is not looked at.                             *)
LookedAway(p) == warned

Reported(p) == IF pipes[p] = "panicked" THEN warned \cup {p} ELSE warned

(* The handles are awaited one after the other.                              *)
AwaitHandle ==
  /\ bridgeAt = "running" /\ handles # <<>> /\ Over(Head(handles))
  /\ handles' = Tail(handles)
  /\ warned' = Reported(Head(handles))
  /\ UNCHANGED <<bridgeAt, bridgeToken, passes, joints, pipes, carried, simHas>>

RunEnds ==
  /\ bridgeAt = "running" /\ handles = <<>> /\ bridgeAt' = "returned"
  /\ UNCHANGED <<bridgeToken, passes, joints, pipes, carried, simHas, handles, warned>>

CancelBridge ==
  /\ ~bridgeToken /\ bridgeToken' = TRUE
  /\ UNCHANGED <<bridgeAt, passes, joints, pipes, carried, simHas, handles, warned>>

-----------------------------------------------------------------------------
BridgeInit ==
  /\ bridgeAt = "off" /\ bridgeToken = FALSE /\ passes = 0 /\ joints = NoJoints
  /\ pipes = [p \in Pipes |-> "none"]
  /\ carried = [a \in Arms |-> [joints |-> NoJoints, seen |-> NoJoints]]
  /\ simHas = NoJoints /\ handles = <<>> /\ warned = {}

CommandPipeline(a) ==
  ReceiveCommand(a) \/ ReceiveFails(a) \/ Emitted(a) \/ EmitFails(a)

TelemetryPipeline ==
  SubscribeToSim \/ SubscribeFails \/ ReadSample \/ Relayed \/ SubscriptionCloses

BridgeNext ==
  \/ \E a \in Arms : CommandPipeline(a)
  \/ \E p \in Pipes : BackoffEnds(p) \/ ObserveToken(p) \/ PipelinePanics(p)
  \/ TelemetryPipeline \/ SpawnPipelines \/ AwaitHandle \/ RunEnds \/ CancelBridge

BridgeSpec == BridgeInit /\ [][BridgeNext]_bridgeVars

(* The user's functions and the transport return.  A select takes its        *)
(* branches in random order, so it passes over the token a finite number of  *)
(* times (MaxPasses).                                                        *)
BridgeFairness ==
  /\ \A a \in Arms : WF_bridgeVars(Emitted(a) \/ EmitFails(a))
  /\ WF_bridgeVars(Relayed)
  /\ \A p \in Pipes : WF_bridgeVars(ObserveToken(p))
  /\ WF_bridgeVars(AwaitHandle) /\ WF_bridgeVars(RunEnds)

BridgeFairSpec == BridgeSpec /\ BridgeFairness

-----------------------------------------------------------------------------
(* A command that is under way is new for its own arm and takes no arm back  *)
(* behind what the simulator had when it was received, although the arms     *)
(* publish one vector from different tasks (ArmMergeState).                  *)
CommandsKept ==
  \A a \in Arms : pipes[a] = "emit" =>
    /\ carried[a].joints[a] > carried[a].seen[a]
    /\ \A b \in Arms : carried[a].joints[b] >= carried[a].seen[b]

(* A cancelled token ends run, whether its pipelines read, wait for a silent *)
(* simulator or back off; by then every pipeline is over and those that      *)
(* panicked are reported ("Surface panics + cancellations from spawned       *)
(* pipelines", run).                                                         *)
Surfaced == \A p \in Pipes : Over(p) /\ (pipes[p] = "panicked" => p \in warned)

BridgeEnds ==
  (bridgeAt = "running" /\ bridgeToken) ~> (bridgeAt = "returned" /\ Surfaced)
=============================================================================
