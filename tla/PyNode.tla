-------------------------------- MODULE PyNode --------------------------------
(***************************************************************************)
(* A Python node with an async setup function (peppylib-py/src/runtime.rs):*)
(* NodeBuilder.run on the main thread, the asyncio event loop on a thread  *)
(* of its own, the monitor thread that watches for a cancellation during   *)
(* setup, the shutdown hooks of the user and of the library (the drain),   *)
(* and the quiesce that stops the loop.  The runner is NodeLifecycle's,    *)
(* kept to the phases Python sees.                                         *)
(*                                                                         *)
(* Of asyncio (external) the model has what the teardown is built around:  *)
(* the loop runs its ready callbacks in batches, what a callback schedules *)
(* is in the next batch, and a stop takes effect at the end of a batch.  A *)
(* task that is done schedules the callback that sets its                  *)
(* concurrent.futures.Future.  A SystemExit raised on the loop, by a task  *)
(* or a callback of the user's, leaves run_forever at once: what was       *)
(* scheduled is never run.                                                 *)
(*                                                                         *)
(* An operator introduced by "Slip" is a wrong version of the one after    *)
(* it; nothing uses it but the runs that show which property would notice. *)
(***************************************************************************)
EXTENDS Naturals, Sequences, SequencesExt

VARIABLES
  pyMode,      \* daemon or standalone
  pyPhase,     \* of run: off, setup, post, hooks, returned, joining, left
  pyToken,     \* the node's cancellation token
  hookTurn,    \* of the hook phase: user, drain, none
  loopState,   \* running, stopping (stop was called), stopped; dying (left
               \* by a SystemExit), dead (its thread has reported that)
  batch, next, \* the callbacks of this turn of the loop and of the next one
  tasks,       \* asyncio tasks
  gathers,     \* the tasks each drain cancelled and waits for
  futures,     \* which tasks' concurrent futures are set
  monitor,     \* the thread peppy-asyncio-shutdown
  hookCut      \* the user hook's task was cancelled in its turn (history)

pyVars == <<pyMode, pyPhase, pyToken, hookTurn, loopState, batch, next, tasks,
            gathers, futures, monitor, hookCut>>

(* The setup coroutine, a background task it creates, the coroutine of a     *)
(* user's shutdown hook, and the drains of the monitor and of the drain hook.*)
Drains == {"monitorDrain", "hookDrain"}
Tasks == {"setup", "background", "userHook"} \cup Drains

loopVars == <<loopState, batch, next, tasks, gathers, futures>>

Callback(do, task) == [do |-> do, task |-> task]

(* What is left of the loop when run has returned is not looked at.          *)
IsRunning == loopState \in {"running", "stopping"} /\ pyPhase # "left"

-----------------------------------------------------------------------------
(* The loop thread                                                           *)

(* run_coroutine_threadsafe, from any thread.                                *)
Submit(task) ==
  /\ next' = Append(next, Callback("start", task))
  /\ tasks' = [tasks EXCEPT ![task] = "submitted"]

(* _cancel_other_tasks: every task that is not done, but the caller's own.   *)
Pending(me) == {t \in Tasks \ {me} : tasks[t] \in {"running", "cancelling"}}

CancelTasks(me, extra) ==
  [t \in Tasks |-> IF t \in Pending(me) THEN "cancelling" ELSE extra[t]]

CutsHook(me) ==
  hookCut' = (hookCut \/ (pyPhase = "hooks" /\ hookTurn = "user"
                            /\ "userHook" \in Pending(me)))

RunnerUnchanged ==
  UNCHANGED <<pyMode, pyPhase, hookTurn, monitor>>

(* The next callback of the batch.  A drain cancels and gathers as it starts.*)
RunCallback ==
  LET cb   == Head(batch)
      task == cb.task
  IN  /\ IsRunning /\ batch # <<>> /\ batch' = Tail(batch)
      /\ \/ /\ cb.do = "start"
            /\ IF task \in Drains
               THEN /\ tasks' = CancelTasks(task, [tasks EXCEPT ![task] = "running"])
                    /\ gathers' = [gathers EXCEPT ![task] = Pending(task)]
                    /\ CutsHook(task)
               ELSE /\ tasks' = [tasks EXCEPT ![task] = "running"]
                    /\ UNCHANGED <<gathers, hookCut>>
            /\ UNCHANGED <<next, futures, loopState>>
         \/ /\ cb.do = "set" /\ futures' = futures \cup {task}
            /\ UNCHANGED <<tasks, gathers, next, loopState, hookCut>>
         \/ /\ cb.do = "stopLoop"
            /\ tasks' = CancelTasks("none", tasks) /\ CutsHook("none")
            /\ next' = Append(next, Callback("stop", "none"))
            /\ UNCHANGED <<gathers, futures, loopState>>
         \/ /\ cb.do = "stop" /\ loopState' = "stopping"
            /\ UNCHANGED <<tasks, gathers, next, futures, hookCut>>
      /\ UNCHANGED pyToken /\ RunnerUnchanged

EndOfBatch ==
  /\ IsRunning /\ batch = <<>>
  /\ \/ loopState = "stopping" /\ loopState' = "stopped" /\ UNCHANGED <<batch, next>>
     \/ /\ loopState = "running" /\ next # <<>>
        /\ batch' = next /\ next' = <<>> /\ UNCHANGED loopState
  /\ UNCHANGED <<tasks, gathers, futures, pyToken, hookCut>> /\ RunnerUnchanged

(* Slip: the drain stops the loop when it is done.                           *)
StopsTheLoop(task) == IF task \in Drains THEN {"stopping"} ELSE {loopState}

(* A drain leaves the loop alone; the user's code may end with a SystemExit. *)
AfterTask(task) == IF task \in Drains THEN {loopState} ELSE {loopState, "dying"}

(* The tasks somebody outside of the loop waits for.                         *)
Awaited == {"setup", "userHook", "hookDrain"}

(* What was scheduled on a loop that was left is never run.                  *)
NothingScheduled == batch' = <<>> /\ next' = <<>>

Done(task) ==
  /\ tasks' = [tasks EXCEPT ![task] = "done"]
  /\ gathers' = [d \in Drains |-> IF d = task THEN {} ELSE gathers[d]]
  /\ loopState' \in AfterTask(task)
  /\ IF loopState' = "dying" THEN NothingScheduled
     ELSE /\ next' = IF task \in Awaited THEN Append(next, Callback("set", task)) ELSE next
          /\ UNCHANGED batch
  /\ UNCHANGED <<futures, hookCut>> /\ RunnerUnchanged

(* A task of the user's returns or raises; setup may leave one in the        *)
(* background, and an error nobody awaits there cancels the node.            *)
TaskEnds(task) ==
  /\ IsRunning /\ task \in {"setup", "background", "userHook"}
  /\ tasks[task] = "running" /\ Done(task)
  /\ pyToken' \in IF task = "background" THEN {pyToken, TRUE} ELSE {pyToken}

CreateTask ==
  /\ IsRunning /\ tasks["setup"] = "running" /\ tasks["background"] = "none"
  /\ tasks' = [tasks EXCEPT !["background"] = "running"]
  /\ UNCHANGED <<next, batch, gathers, futures, loopState, pyToken, hookCut>>
  /\ RunnerUnchanged

(* A cancelled task has cleaned up.                                          *)
CancelledTaskEnds(task) ==
  /\ IsRunning /\ tasks[task] = "cancelling" /\ Done(task) /\ UNCHANGED pyToken

(* A callback the user's code has put on the loop raises SystemExit.         *)
UserCallbackExits ==
  /\ IsRunning /\ tasks["setup"] # "submitted" /\ loopState' = "dying"
  /\ NothingScheduled
  /\ UNCHANGED <<tasks, gathers, futures, pyToken, hookCut>>
  /\ RunnerUnchanged

(* make_run_loop: what came out of run_forever is printed, the node is       *)
(* cancelled, and the thread ends.                                           *)
LoopThreadReports ==
  /\ loopState = "dying" /\ pyPhase # "left"
  /\ loopState' = "dead" /\ pyToken' = TRUE
  /\ UNCHANGED <<next, batch, tasks, gathers, futures, hookCut>>
  /\ RunnerUnchanged

(* The gather of a drain has everything it cancelled.                        *)
DrainEnds(task) ==
  /\ IsRunning /\ task \in Drains /\ tasks[task] = "running"
  /\ \A t \in gathers[task] : tasks[t] = "done"
  /\ Done(task) /\ UNCHANGED pyToken

-----------------------------------------------------------------------------
(* run                                                                       *)

(* start_async_setup: the loop runs, setup is submitted, the monitor waits.  *)
StartAsyncSetup(m) ==
  /\ pyMode = "none" /\ pyMode' = m /\ pyPhase' = "setup"
  /\ loopState' = "running" /\ Submit("setup") /\ monitor' = "waiting"
  /\ UNCHANGED <<pyToken, hookTurn, batch, gathers, futures, hookCut>>

(* A step of build_async_setup fails: abort_loop_thread, then the error.     *)
StartFails(m) ==
  /\ pyMode = "none" /\ pyMode' = m /\ pyPhase' = "left" /\ loopState' = "stopped"
  /\ UNCHANGED <<pyToken, hookTurn, batch, next, tasks, gathers, futures,
                 monitor, hookCut>>

(* A signal, the watchdog, or the user's code.                               *)
CancelToken ==
  /\ pyPhase \in {"setup", "post"} /\ ~pyToken /\ pyToken' = TRUE
  /\ UNCHANGED <<pyMode, pyPhase, hookTurn, loopVars, monitor, hookCut>>

(* The setup phase ends: monitor_disarm is dropped with its future.          *)
EndSetup(phase, token) ==
  /\ pyPhase' = phase /\ pyToken' = token
  /\ hookTurn' = IF phase = "hooks" THEN "user" ELSE hookTurn
  /\ monitor' = IF monitor = "waiting" THEN "disarmed" ELSE monitor
  /\ UNCHANGED <<pyMode, loopVars, hookCut>>

(* Its coroutine returned or raised; an error converges at once.             *)
SetupDone ==
  /\ pyPhase = "setup" /\ "setup" \in futures
  /\ EndSetup("post", pyToken) \/ EndSetup("hooks", TRUE)

(* Daemon mode selects: a cancelled token or a shutdown request.             *)
SetupDropped == pyMode = "daemon" /\ pyPhase = "setup" /\ EndSetup("hooks", TRUE)

(* The select after setup; standalone mode waits for the token only.         *)
StopPost ==
  pyPhase = "post" /\ (pyMode = "daemon" \/ pyToken) /\ EndSetup("hooks", TRUE)

(* Slip: nobody watches the token while setup is awaited.                    *)
NobodyWatches == FALSE

MonitorWakes == monitor = "waiting" /\ pyToken

MonitorDecides ==
  /\ MonitorWakes /\ monitor' = "cancelled"
  /\ UNCHANGED <<pyMode, pyPhase, pyToken, hookTurn, loopVars, hookCut>>

(* The drain trigger, once the thread has the interpreter.                   *)
MonitorFires ==
  /\ monitor = "cancelled" /\ monitor' = "fired"
  /\ IF IsRunning THEN Submit("monitorDrain") ELSE UNCHANGED <<next, tasks>>
  /\ UNCHANGED <<pyMode, pyPhase, pyToken, hookTurn, loopState, batch, gathers,
                 futures, hookCut>>

-----------------------------------------------------------------------------
(* Hooks: the user's, then the drain, which was registered before any other  *)

HooksMove(turn) ==
  /\ hookTurn' = turn
  /\ UNCHANGED <<pyMode, pyPhase, pyToken, loopState, batch, gathers, futures,
                 monitor, hookCut>>

(* run_python_shutdown_hook: a callback without an awaitable, or with one    *)
(* that gets an asyncio.run of its own as the loop is gone; or an awaitable  *)
(* for the loop.                                                             *)
StartUserHook ==
  /\ pyPhase = "hooks" /\ hookTurn = "user" /\ tasks["userHook"] = "none"
  /\ \/ HooksMove("drain") /\ UNCHANGED <<next, tasks>>
     \/ IsRunning /\ HooksMove("user") /\ Submit("userHook")

UserHookDone ==
  /\ pyPhase = "hooks" /\ hookTurn = "user" /\ "userHook" \in futures
  /\ HooksMove("drain") /\ UNCHANGED <<next, tasks>>

StartDrainHook ==
  /\ pyPhase = "hooks" /\ hookTurn = "drain" /\ tasks["hookDrain"] = "none"
  /\ IF IsRunning THEN HooksMove("drain") /\ Submit("hookDrain")
     ELSE HooksMove("none") /\ UNCHANGED <<next, tasks>>

DrainHookDone ==
  /\ pyPhase = "hooks" /\ hookTurn = "drain" /\ "hookDrain" \in futures
  /\ HooksMove("none") /\ UNCHANGED <<next, tasks>>

(* The hooks are done, or their grace window ends; builder.run returns.      *)
BuilderReturns(turns) ==
  /\ pyPhase = "hooks" /\ hookTurn \in turns
  /\ pyPhase' = "returned" /\ hookTurn' = "none"
  /\ UNCHANGED <<pyMode, pyToken, loopVars, monitor, hookCut>>

(* quiesce: the stop trigger, then the join.                                 *)
Quiesce ==
  /\ pyPhase = "returned" /\ pyPhase' = "joining"
  /\ next' = IF IsRunning THEN Append(next, Callback("stopLoop", "none")) ELSE next
  /\ UNCHANGED <<pyMode, pyToken, hookTurn, loopState, batch, tasks, gathers,
                 futures, monitor, hookCut>>

(* The loop's thread has ended, or the join's budget has.                    *)
RunReturns(joined) ==
  /\ pyPhase = "joining" /\ pyPhase' = "left"
  /\ joined => loopState \in {"stopped", "dead"}
  /\ UNCHANGED <<pyMode, pyToken, hookTurn, loopVars, monitor, hookCut>>

-----------------------------------------------------------------------------
PyInit ==
  /\ pyMode = "none" /\ pyPhase = "off" /\ pyToken = FALSE /\ hookTurn = "none"
  /\ loopState = "stopped" /\ batch = <<>> /\ next = <<>>
  /\ tasks = [t \in Tasks |-> "none"] /\ gathers = [d \in Drains |-> {}]
  /\ futures = {} /\ monitor = "none" /\ hookCut = FALSE

Loop ==
  \/ RunCallback \/ EndOfBatch \/ CreateTask
  \/ UserCallbackExits \/ LoopThreadReports
  \/ \E t \in Tasks : TaskEnds(t) \/ CancelledTaskEnds(t) \/ DrainEnds(t)

RunMethod ==
  \/ \E m \in {"daemon", "standalone"} : StartAsyncSetup(m) \/ StartFails(m)
  \/ CancelToken \/ SetupDone \/ SetupDropped \/ StopPost
  \/ StartUserHook \/ UserHookDone \/ StartDrainHook \/ DrainHookDone
  \/ BuilderReturns({"none"}) \/ BuilderReturns({"user", "drain"}) \/ Quiesce
  \/ \E joined \in BOOLEAN : RunReturns(joined)

PyNext == Loop \/ RunMethod \/ MonitorDecides \/ MonitorFires

PySpec == PyInit /\ [][PyNext]_pyVars

(* The loop turns, cancelled tasks clean up, the user's hook returns,        *)
(* threads are scheduled.  A window has to end only if the loop is gone.     *)
PyFairness ==
  /\ WF_pyVars(RunCallback) /\ WF_pyVars(EndOfBatch)
  /\ WF_pyVars(LoopThreadReports)
  /\ \A t \in Tasks : WF_pyVars(CancelledTaskEnds(t)) /\ WF_pyVars(DrainEnds(t))
  /\ WF_pyVars(TaskEnds("userHook"))
  /\ WF_pyVars(SetupDone) /\ WF_pyVars(pyToken /\ (SetupDropped \/ StopPost))
  /\ WF_pyVars(MonitorDecides) /\ WF_pyVars(MonitorFires)
  /\ WF_pyVars(StartUserHook) /\ WF_pyVars(UserHookDone)
  /\ WF_pyVars(StartDrainHook) /\ WF_pyVars(DrainHookDone)
  /\ WF_pyVars(BuilderReturns({"none"})) /\ WF_pyVars(Quiesce)
  /\ WF_pyVars(~IsRunning /\ BuilderReturns({"user", "drain"}))
  /\ WF_pyVars(RunReturns(TRUE))

PyFairSpec == PySpec /\ PyFairness

-----------------------------------------------------------------------------
(* "User hooks execute with the loop [...] still fully alive" (build_async_  *)
(* setup): until builder.run has returned nobody stops the loop, whoever     *)
(* drained it before, so no coroutine of a hook is left on a stopped loop.   *)
(* Only a SystemExit of the user's own code ends it, and that cancels the    *)
(* node (make_run_loop).                                                     *)
LoopOutlivesHooks ==
  pyPhase \in {"setup", "post", "hooks"} =>
    /\ loopState \in {"running", "dying", "dead"}
    /\ loopState = "dead" => pyToken

(* In standalone mode setup is awaited outside of any select, and the future *)
(* of a setup that a SystemExit cut short is never set: only a second signal *)
(* ends such a node.                                                         *)
SetupStranded ==
  /\ pyMode = "standalone" /\ pyPhase = "setup"
  /\ loopState \in {"dying", "dead"} /\ "setup" \notin futures

(* A node whose token is cancelled leaves run, also from within its setup    *)
(* (the monitor), unless it is stranded there.  Only where the loop is gone  *)
(* does it take the grace window: the future a hook waits for is never       *)
(* orphaned otherwise (_drain, quiesce).                                     *)
CancelledNodeLeaves == pyToken ~> (pyPhase = "left" \/ SetupStranded)

(* "The monitor must not cancel tasks out from under user shutdown hooks"    *)
(* (build_async_setup, of daemon mode).                                      *)
MonitorSparesHooks == pyMode = "daemon" => ~hookCut
=============================================================================
