---------------------------- MODULE NodeLifecycle ----------------------------
(***************************************************************************)
(* The life of a node process: NodeBuilder::run (peppylib-rs/src/runtime/  *)
(* builder.rs) with its select over setup, shutdown requests, signals and  *)
(* services, the shutdown hooks of NodeRunner (node_runner.rs), the        *)
(* shutdown service, the bridge from process signals to the cancellation   *)
(* token, and the watchdog on the daemon's heartbeat                       *)
(* (services/daemon_watchdog.rs).                                          *)
(*                                                                         *)
(* Hooks are numbered in the order of their registration.  What a hook     *)
(* does is one of a few kinds: it ends (a panic is caught), or hangs, at an*)
(* await or on a thread of the blocking pool (as run_python_shutdown_hook  *)
(* drives an awaitable without a loop of its own, peppylib-py runtime.rs). *)
(* Windows of grace may end at any time.                                   *)
(*                                                                         *)
(* An operator introduced by "Slip" is a wrong version of the one after    *)
(* it; nothing uses it but the runs that show which property would notice. *)
(***************************************************************************)
EXTENDS Naturals, Sequences, SequencesExt

CONSTANTS
  MaxHooks,    \* bound of the model: hooks registered
  HooksBlock,  \* may a hook hang on a thread of the blocking pool?
  Grace        \* daemon_grace, in units of time

ASSUME NodeAssumption ==
  MaxHooks \in Nat /\ HooksBlock \in BOOLEAN /\ Grace \in Nat \ {0}

VARIABLES
  mode,       \* daemon or standalone
  stage,      \* of NodeBuilder::run
  cancelled,  \* the cancellation token
  asked,      \* shutdown_rx is ready
  signals,    \* SIGINT and SIGTERM received
  bridge,     \* what the signal bridge waits for
  registry,   \* NodeRunner.shutdown_hooks
  hookKind,   \* what each registered hook does
  inTime,     \* hooks registered before the token was cancelled (history)
  queue,      \* hooks taken out and not finished
  ran,        \* hooks that finished
  graceOver,  \* the hooks' grace window ended before they did
  cut,        \* the process ended by a second signal or a panic (history)
  daemonUp,   \* the daemon is alive and its beats arrive
  beat,       \* a beat is in the watchdog's subscription
  waited,     \* how long the watchdog's window has been open, up to Grace
  quiet,      \* how long no beat has arrived, up to Grace (history)
  watchdog    \* the task run_watchdog

hookVars   == <<registry, hookKind, inTime, queue, ran, graceOver>>
daemonVars == <<daemonUp, beat, waited, quiet, watchdog>>
nodeVars   == <<mode, stage, cancelled, asked, signals, bridge, cut, hookVars,
                daemonVars>>

Kinds == {"ends", "hangs"} \cup (IF HooksBlock THEN {"blocks"} ELSE {})

Running == stage \in {"setup", "post", "converged", "hooks", "teardown"}

Registered == Len(hookKind)

-----------------------------------------------------------------------------
(* run_with_closure and run_standalone                                       *)

(* Up to the call of setup_fn.  In daemon mode the shutdown service and the  *)
(* watchdog run by then.                                                     *)
Launch(m) ==
  /\ stage = "off"
  /\ mode' = m /\ stage' = "setup" /\ bridge' = "first"
  /\ watchdog' = IF m = "daemon" THEN "watching" ELSE "off"
  /\ UNCHANGED <<cancelled, asked, signals, cut, hookVars, daemonUp, beat,
                 waited, quiet>>

(* The session, a service or the watchdog's subscription cannot be opened.   *)
LaunchFails(m) ==
  /\ stage = "off" /\ mode' = m /\ stage' = "exited"
  /\ UNCHANGED <<cancelled, asked, signals, bridge, cut, hookVars, daemonVars>>

MoveTo(s) ==
  /\ stage' = s
  /\ UNCHANGED <<mode, cancelled, asked, signals, bridge, cut, hookVars,
                 daemonVars>>

SetupReturns == stage = "setup" /\ MoveTo("post")

(* Every exit path converges: the token is cancelled, then the hooks run.    *)
Converge ==
  /\ stage' = "converged" /\ cancelled' = TRUE
  /\ UNCHANGED <<mode, asked, signals, bridge, cut, hookVars, daemonVars>>

(* Slip: an error of setup is returned at once.                              *)
PropagateError == MoveTo("teardown")

OnSetupError == Converge

SetupFails == stage = "setup" /\ OnSetupError

(* A panic of setup unwinds through block_on: nothing converges.             *)
SetupPanics ==
  /\ stage = "setup" /\ stage' = "teardown" /\ cut' = TRUE
  /\ UNCHANGED <<mode, cancelled, asked, signals, bridge, hookVars, daemonVars>>

(* A service task panics, or all of them have ended.                         *)
ServicesEnd == mode = "daemon" /\ stage = "post" /\ Converge

(* Slip: setup is awaited outside of the select.                             *)
SelectsAfterSetup == {"post"}

SelectsIn == {"setup", "post"}

(* The selects of both phases; standalone has none around its setup.         *)
ObserveStop ==
  /\ \/ mode = "daemon" /\ stage \in SelectsIn /\ (asked \/ cancelled)
     \/ mode = "standalone" /\ stage = "post" /\ cancelled
  /\ Converge

-----------------------------------------------------------------------------
(* Shutdown hooks                                                            *)

(* on_shutdown, from setup or from any task of the node.                     *)
RegisterHook ==
  /\ Running /\ Registered < MaxHooks
  /\ \E k \in Kinds : hookKind' = Append(hookKind, k)
  /\ registry' = Append(registry, Registered + 1)
  /\ inTime' = IF cancelled THEN inTime ELSE inTime \cup {Registered + 1}
  /\ UNCHANGED <<mode, stage, cancelled, asked, signals, bridge, cut, queue,
                 ran, graceOver, daemonVars>>

(* Slip: first registered, first run.                                        *)
InOrder(hooks) == hooks

LastFirst(hooks) == Reverse(hooks)

(* Slip: the hooks are copied out.                                           *)
AllStay(hooks) == hooks

LeftAfterTake(hooks) == <<>>

TakeHooks ==
  /\ stage = "converged"
  /\ stage' = "hooks"
  /\ queue' = LastFirst(registry) /\ registry' = LeftAfterTake(registry)
  /\ UNCHANGED <<mode, cancelled, asked, signals, bridge, cut, hookKind,
                 inTime, ran, graceOver, daemonVars>>

(* The hook whose turn it is finishes; a panic is caught.                    *)
HookEnds ==
  /\ stage = "hooks" /\ queue # <<>>
  /\ hookKind[Head(queue)] = "ends"
  /\ queue' = Tail(queue) /\ ran' = Append(ran, Head(queue))
  /\ UNCHANGED <<mode, stage, cancelled, asked, signals, bridge, cut, registry,
                 hookKind, inTime, graceOver, daemonVars>>

HooksDone == stage = "hooks" /\ queue = <<>> /\ MoveTo("teardown")

(* The hook that is running and those behind it are abandoned.               *)
GraceEnds ==
  /\ stage = "hooks" /\ queue # <<>>
  /\ stage' = "teardown" /\ graceOver' = TRUE
  /\ UNCHANGED <<mode, cancelled, asked, signals, bridge, cut, registry,
                 hookKind, inTime, queue, ran, daemonVars>>

(* The runtime is dropped: that waits for the threads of its blocking pool.  *)
TearDown ==
  /\ stage = "teardown"
  /\ ~(queue # <<>> /\ hookKind[Head(queue)] = "blocks")
  /\ MoveTo("exited")

-----------------------------------------------------------------------------
(* Stop requests                                                             *)

(* The shutdown service: a request, or the end of its task, which drops the  *)
(* sender.                                                                   *)
ShutdownRequest ==
  /\ Running /\ mode = "daemon" /\ ~asked
  /\ asked' = TRUE
  /\ UNCHANGED <<mode, stage, cancelled, signals, bridge, cut, hookVars,
                 daemonVars>>

Signal ==
  /\ Running /\ signals < 2
  /\ signals' = signals + 1
  /\ UNCHANGED <<mode, stage, cancelled, asked, bridge, cut, hookVars,
                 daemonVars>>

BridgeFirst ==
  /\ Running /\ bridge = "first" /\ signals > 0
  /\ bridge' = "second" /\ cancelled' = TRUE
  /\ UNCHANGED <<mode, stage, asked, signals, cut, hookVars, daemonVars>>

(* A second signal exits on the spot.                                        *)
BridgeSecond ==
  /\ Running /\ bridge = "second" /\ signals > 1
  /\ stage' = "exited" /\ cut' = TRUE
  /\ UNCHANGED <<mode, cancelled, asked, signals, bridge, hookVars, daemonVars>>

-----------------------------------------------------------------------------
(* The daemon and the watchdog                                               *)

(* The daemon, while somebody watches it.                                    *)
DaemonDies ==
  /\ Running /\ watchdog = "watching" /\ daemonUp /\ daemonUp' = FALSE
  /\ UNCHANGED <<mode, stage, cancelled, asked, signals, bridge, cut, hookVars,
                 beat, waited, quiet, watchdog>>

Arrives ==
  /\ Running /\ watchdog = "watching"
  /\ beat' = TRUE /\ quiet' = 0
  /\ UNCHANGED <<mode, stage, cancelled, asked, signals, bridge, cut, hookVars,
                 waited, watchdog>>

(* A daemon is back when its first beat arrives.                             *)
DaemonReturns == ~daemonUp /\ daemonUp' = TRUE /\ Arrives

Beat == daemonUp /\ (~beat \/ quiet > 0) /\ UNCHANGED daemonUp /\ Arrives

Longer(time) == IF time < Grace THEN time + 1 ELSE time

(* Time passes, whether or not the watchdog's task gets to run.  A daemon    *)
(* that is alive beats within every window.                                  *)
Tick ==
  /\ Running /\ watchdog = "watching" /\ ~cancelled
  /\ waited < Grace \/ quiet < Grace
  /\ daemonUp => quiet + 1 < Grace
  /\ waited' = Longer(waited) /\ quiet' = Longer(quiet)
  /\ UNCHANGED <<mode, stage, cancelled, asked, signals, bridge, cut, hookVars,
                 daemonUp, beat, watchdog>>

(* A beat opens a new window when it is read; beats that wait are read as    *)
(* one.                                                                      *)
ReadBeat ==
  /\ Running /\ watchdog = "watching" /\ ~cancelled /\ beat
  /\ beat' = FALSE /\ waited' = 0
  /\ UNCHANGED <<mode, stage, cancelled, asked, signals, bridge, cut, hookVars,
                 daemonUp, quiet, watchdog>>

(* Slip: timeout() polls the delay first.                                    *)
DelayElapsed == waited = Grace

(* timeout() polls the beat first, then the delay.                           *)
TimedOut == waited = Grace /\ ~beat

(* The subscription and the window end with the task.                        *)
Unwatched == beat' = FALSE /\ waited' = 0 /\ quiet' = 0

DaemonSilent ==
  /\ Running /\ watchdog = "watching" /\ ~cancelled /\ TimedOut
  /\ watchdog' = "ended" /\ cancelled' = TRUE /\ Unwatched
  /\ UNCHANGED <<mode, stage, asked, signals, bridge, cut, hookVars, daemonUp>>

(* Another path cancelled the token, or the subscription closed.             *)
WatchdogStops ==
  /\ Running /\ watchdog = "watching"
  /\ watchdog' = (IF cancelled THEN "ended" ELSE "closed") /\ Unwatched
  /\ UNCHANGED <<mode, stage, cancelled, asked, signals, bridge, cut, hookVars,
                 daemonUp>>

-----------------------------------------------------------------------------
NodeInit ==
  /\ mode = "none" /\ stage = "off" /\ cancelled = FALSE /\ asked = FALSE
  /\ signals = 0 /\ bridge = "none" /\ cut = FALSE
  /\ registry = <<>> /\ hookKind = <<>> /\ inTime = {} /\ queue = <<>>
  /\ ran = <<>> /\ graceOver = FALSE
  /\ daemonUp = TRUE /\ beat = FALSE /\ waited = 0 /\ quiet = 0
  /\ watchdog = "off"

Run ==
  \/ \E m \in {"daemon", "standalone"} : Launch(m) \/ LaunchFails(m)
  \/ SetupReturns \/ SetupPanics \/ SetupFails \/ ServicesEnd \/ ObserveStop
  \/ RegisterHook \/ TakeHooks \/ HookEnds \/ HooksDone \/ GraceEnds \/ TearDown

Stop == ShutdownRequest \/ Signal \/ BridgeFirst \/ BridgeSecond

Watchdog ==
  DaemonDies \/ DaemonReturns \/ Beat \/ Tick \/ ReadBeat \/ DaemonSilent
  \/ WatchdogStops

NodeNext == Run \/ Stop \/ Watchdog

NodeSpec == NodeInit /\ [][NodeNext]_nodeVars

(* The runtime polls the node's own tasks, and time passes.                  *)
NodeFairness ==
  /\ WF_nodeVars(ObserveStop) /\ WF_nodeVars(TakeHooks) /\ WF_nodeVars(HookEnds)
  /\ WF_nodeVars(HooksDone) /\ WF_nodeVars(GraceEnds) /\ WF_nodeVars(TearDown)
  /\ WF_nodeVars(BridgeFirst) /\ WF_nodeVars(BridgeSecond)
  /\ WF_nodeVars(Tick) /\ WF_nodeVars(ReadBeat) /\ WF_nodeVars(DaemonSilent)
  /\ WF_nodeVars(cancelled /\ WatchdogStops)

NodeFairSpec == NodeSpec /\ NodeFairness

-----------------------------------------------------------------------------
(* "Every exit path converges here" (run_with_closure): a node that ends     *)
(* without a second signal or a panic and within the grace window has        *)
(* finished every hook registered before shutdown began, whatever ended it.  *)
(* No hook runs twice, and they run in "reverse registration order"          *)
(* (on_shutdown).                                                            *)
HooksFinished ==
  /\ stage = "exited" /\ ~cut /\ ~graceOver => inTime \subseteq ToSet(ran)
  /\ IsInjective(registry \o queue \o ran)
  /\ \A i, j \in DOMAIN ran : i < j => ran[i] > ran[j]

(* "If no beat arrives for the configured grace period, the daemon is        *)
(* presumed dead for good" and one "that returns within the grace period"    *)
(* keeps its node (daemon_watchdog.rs): however late the watchdog's task     *)
(* runs, it stops the node only if the daemon is down and no beat has        *)
(* arrived for that long.                                                    *)
LiveDaemonKeepsNode ==
  [][watchdog = "watching" /\ watchdog' = "ended" /\ ~cancelled =>
       ~daemonUp /\ quiet = Grace]_nodeVars

(* "Every stop path converges" in daemon mode: a shutdown request, a         *)
(* cancelled token, or the death of a daemon that does not come back ends    *)
(* the process, even if a hook hangs at an await.                            *)
StopRequested == asked \/ cancelled \/ (~daemonUp /\ watchdog = "watching")

StopEndsNode ==
  (mode = "daemon" /\ Running /\ StopRequested)
    ~> (stage = "exited" \/ ~StopRequested)
=============================================================================
