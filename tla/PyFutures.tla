------------------------------- MODULE PyFutures -------------------------------
(***************************************************************************)
(* Results on their way from Rust to Python (peppylib-py/src/py_future.rs):*)
(* future_into_py and its delivery from the blocking pool, the cancellation*)
(* of the asyncio future, and the gate that closes when the interpreter    *)
(* exits.  A shutdown hook of a node without a loop of its own drives its  *)
(* awaitable inside the gate (run_python_shutdown_hook, runtime.rs).       *)
(*                                                                         *)
(* The gate is a parking_lot RwLock: a writer that waits keeps new readers *)
(* out.  Whoever runs Python holds the GIL.                                *)
(*                                                                         *)
(* An operator introduced by "Slip" is a wrong version of the one after    *)
(* it; nothing uses it but the runs that show which property would notice. *)
(***************************************************************************)
EXTENDS Naturals, FiniteSets

CONSTANTS
  Awaits,        \* calls of future_into_py
  DaemonThread   \* is run called from a daemon thread, which exit does not join?

(* A call is not mistaken for another holder of the GIL or of the gate.      *)
ASSUME PyFuturesAssumption ==
  /\ DaemonThread \in BOOLEAN
  /\ Awaits \cap {"main", "hook", "nobody"} = {}

VARIABLES
  rust,        \* the Rust future of each call
  delivery,    \* its delivery: none, queued, inside (the gate), attached, over
  pyFuture,    \* its asyncio future: pending, cancelled, resolved
  cancelSent,  \* calls whose cancel_tx was sent
  completors,  \* completions scheduled on the event loop
  gil,         \* main, hook, a call, or nobody
  gateOpen, gateReaders, gateWriter,  \* ATTACH_GATE and the thread that closes it
  mainAt,      \* of the main thread: running, atexit, closing, closed, finalizing
  ownLoop,     \* the hook with a loop of its own: off, inside, over
  invalid      \* a future that was not pending was completed (history)

futureVars == <<rust, delivery, pyFuture, cancelSent, completors, gil, gateOpen,
                gateReaders, gateWriter, mainAt, ownLoop, invalid>>

gateVars == <<gateOpen, gateReaders, gateWriter>>

(* Python runs on an event loop until the main thread has left it.           *)
LoopRuns == mainAt = "running" /\ gil = "nobody"

-----------------------------------------------------------------------------
(* The Rust future and the asyncio future                                    *)

(* It returns, fails or panics; biased, so a result goes before a signal.    *)
RustEnds(c) ==
  /\ rust[c] = "running" /\ rust' = [rust EXCEPT ![c] = "ended"]
  /\ delivery' = [delivery EXCEPT ![c] = "queued"]
  /\ UNCHANGED <<pyFuture, cancelSent, completors, gil, gateVars, mainAt, ownLoop,
                 invalid>>

(* CancelOnPyFutureDone, on the loop.                                        *)
PyCancels(c) ==
  /\ LoopRuns /\ pyFuture[c] = "pending"
  /\ pyFuture' = [pyFuture EXCEPT ![c] = "cancelled"]
  /\ cancelSent' = cancelSent \cup {c}
  /\ UNCHANGED <<rust, delivery, completors, gil, gateVars, mainAt, ownLoop, invalid>>

RustCancelled(c) ==
  /\ rust[c] = "running" /\ c \in cancelSent
  /\ rust' = [rust EXCEPT ![c] = "dropped"]
  /\ UNCHANGED <<delivery, pyFuture, cancelSent, completors, gil, gateVars, mainAt,
                 ownLoop, invalid>>

-----------------------------------------------------------------------------
(* Delivery: try_attach_gated(deliver_to_python)                             *)

MayEnter(reader) == gateWriter = "none"

EnterGate(c) ==
  /\ delivery[c] = "queued" /\ MayEnter(c)
  /\ IF gateOpen
     THEN /\ delivery' = [delivery EXCEPT ![c] = "inside"]
          /\ gateReaders' = gateReaders \cup {c}
     ELSE /\ delivery' = [delivery EXCEPT ![c] = "over"]
          /\ UNCHANGED gateReaders
  /\ UNCHANGED <<rust, pyFuture, cancelSent, completors, gil, gateOpen, gateWriter,
                 mainAt, ownLoop, invalid>>

(* Python::try_attach waits for the GIL; the hook's own loop lets others in. *)
Attach(c) ==
  /\ delivery[c] = "inside" /\ gil = "nobody"
  /\ gil' = c /\ delivery' = [delivery EXCEPT ![c] = "attached"]
  /\ UNCHANGED <<rust, pyFuture, cancelSent, completors, gateVars, mainAt, ownLoop,
                 invalid>>

(* Nothing is scheduled for a future that was cancelled, or on a closed loop.*)
Deliver(c) ==
  /\ delivery[c] = "attached" /\ gil' = "nobody"
  /\ delivery' = [delivery EXCEPT ![c] = "over"]
  /\ gateReaders' = gateReaders \ {c}
  /\ completors' = IF pyFuture[c] = "pending" /\ (mainAt = "running" \/ ownLoop = "inside")
                   THEN completors \cup {c} ELSE completors
  /\ UNCHANGED <<rust, pyFuture, cancelSent, gateOpen, gateWriter, mainAt, ownLoop,
                 invalid>>

(* Slip: the completion does not look at the future again.                   *)
DoesNotLook(c) == TRUE

Completes(c) == pyFuture[c] # "cancelled"

(* CheckedCompletor, on the loop: the application's, or the hook's own.      *)
CheckedCompletor(c) ==
  /\ gil = "nobody" /\ (mainAt = "running" \/ ownLoop = "inside") /\ c \in completors
  /\ completors' = completors \ {c}
  /\ pyFuture' = IF Completes(c) THEN [pyFuture EXCEPT ![c] = "resolved"] ELSE pyFuture
  /\ invalid' = (invalid \/ (Completes(c) /\ pyFuture[c] # "pending"))
  /\ UNCHANGED <<rust, delivery, cancelSent, gil, gateVars, mainAt, ownLoop>>

-----------------------------------------------------------------------------
(* A hook that is driven by asyncio.run inside the gate; it awaits a call.   *)

HookEnters ==
  /\ ownLoop = "off" /\ mainAt = "running" /\ MayEnter("hook") /\ gateOpen
  /\ ownLoop' = "inside" /\ gateReaders' = gateReaders \cup {"hook"}
  /\ UNCHANGED <<rust, delivery, pyFuture, cancelSent, completors, gil, gateOpen,
                 gateWriter, mainAt, invalid>>

HookLeaves ==
  /\ ownLoop = "inside" /\ gil = "nobody"
  /\ \A c \in Awaits : pyFuture[c] # "pending"
  /\ ownLoop' = "over" /\ gateReaders' = gateReaders \ {"hook"}
  /\ UNCHANGED <<rust, delivery, pyFuture, cancelSent, completors, gil, gateOpen,
                 gateWriter, mainAt, invalid>>

-----------------------------------------------------------------------------
(* The interpreter exits: the handler of register_interpreter_exit_gate      *)

(* run has returned, which waits for its blocking threads, or nobody joins it.*)
ExitBegins ==
  /\ mainAt = "running" /\ gil = "nobody" /\ (ownLoop = "inside" => DaemonThread)
  /\ mainAt' = "atexit" /\ gil' = "main"
  /\ UNCHANGED <<rust, delivery, pyFuture, cancelSent, completors, gateVars, ownLoop,
                 invalid>>

(* Slip: the handler waits with the GIL in its hand.                         *)
KeepsGil == "main"

WhileClosing == "nobody"

CloseGate ==
  /\ mainAt = "atexit" /\ mainAt' = "closing"
  /\ gil' = WhileClosing /\ gateWriter' = "waiting"
  /\ UNCHANGED <<rust, delivery, pyFuture, cancelSent, completors, gateOpen,
                 gateReaders, ownLoop, invalid>>

GateCloses ==
  /\ mainAt = "closing" /\ gateReaders = {}
  /\ mainAt' = "closed" /\ gateOpen' = FALSE /\ gateWriter' = "none"
  /\ UNCHANGED <<rust, delivery, pyFuture, cancelSent, completors, gil, gateReaders,
                 ownLoop, invalid>>

Finalize ==
  /\ mainAt = "closed" /\ gil \in {"nobody", "main"}
  /\ mainAt' = "finalizing" /\ gil' = "main"
  /\ UNCHANGED <<rust, delivery, pyFuture, cancelSent, completors, gateVars, ownLoop,
                 invalid>>

-----------------------------------------------------------------------------
FuturesInit ==
  /\ rust = [c \in Awaits |-> "running"] /\ delivery = [c \in Awaits |-> "none"]
  /\ pyFuture = [c \in Awaits |-> "pending"] /\ cancelSent = {} /\ completors = {}
  /\ gil = "nobody" /\ gateOpen = TRUE /\ gateReaders = {} /\ gateWriter = "none"
  /\ mainAt = "running" /\ ownLoop = "off" /\ invalid = FALSE

FuturesNext ==
  \/ \E c \in Awaits : \/ RustEnds(c) \/ PyCancels(c) \/ RustCancelled(c)
                       \/ EnterGate(c) \/ Attach(c) \/ Deliver(c) \/ CheckedCompletor(c)
  \/ HookEnters \/ HookLeaves \/ ExitBegins \/ CloseGate \/ GateCloses \/ Finalize

FuturesSpec == FuturesInit /\ [][FuturesNext]_futureVars

-----------------------------------------------------------------------------
(* "No runtime thread can attach once the dangerous regime begins".          *)
NoLateAttach ==
  mainAt = "finalizing" =>
    /\ gil = "main" /\ gateReaders = {}
    /\ \A c \in Awaits : delivery[c] \notin {"inside", "attached"}

(* The thread that closes the gate and those inside it never wait for each   *)
(* other: it does not hold the GIL a delivery inside needs, and nobody       *)
(* inside needs a delivery that the closing keeps out.                       *)
GateNotStuck ==
  mainAt = "closing" => /\ gateReaders # {} => gil # "main"
                        /\ "hook" \notin gateReaders

(* No asyncio future is completed twice, or after a cancellation that comes  *)
(* between the delivery and its completion on the loop (CheckedCompletor).   *)
CompletedOnce == ~invalid

(* Results cross into Python or are left out of it: the interpreter exits    *)
(* without a native thread in it, and without waiting for one that waits for *)
(* the exit (register_interpreter_exit_gate, try_attach_gated), and what     *)
(* crosses completes a future that still waits (deliver_to_python).          *)
CrossingIsSafe == NoLateAttach /\ GateNotStuck /\ CompletedOnce
=============================================================================
