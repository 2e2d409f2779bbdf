----------------------------- MODULE Lifecycle -----------------------------
(***************************************************************************)
(* The daemon's goroutines (runtime.go: runWithLifecycleHooks and          *)
(* runNotificationWorker): main, which waits for the first reason to stop  *)
(* and then shuts everything down in order; the engine, which runs cycles  *)
(* and wakes the notification worker after each; the worker, which flushes *)
(* the notifier of Notify; and the HTTP server.                            *)
(*                                                                         *)
(* What a cycle does is Cycle's subject; here it gathers, and if nothing   *)
(* stopped it meanwhile, queues alerts.  The waits of the shutdown are     *)
(* bounded by timeouts that may fire at any moment.                        *)
(***************************************************************************)
EXTENDS Notify

VARIABLES
  main,           \* where main is
  cancelled,      \* ctx is done: a signal, or main's own cancel()
  runErr,         \* the errors main joins into its result
  serverFailed,   \* serverErrChan holds an error
  engine,         \* where the engine is
  wake,           \* notificationWake: its buffered token, and whether closed
  worker,         \* where the notification worker is
  lastFlush,      \* the worker flushes because the wake channel was closed
  panicked,       \* history: the engine panicked
  earlyStop,      \* history: ctx was done before main listened
  hangs           \* whether the engine and the worker may hang in a request

processVars == <<main, cancelled, runErr, serverFailed, engine, wake, worker,
                 lastFlush, panicked, earlyStop>>
vars == <<notifyVars, processVars, hangs>>

Init ==
  /\ NotifyInit
  /\ main = "starting"
  /\ cancelled = FALSE
  /\ runErr = {}
  /\ serverFailed = FALSE
  /\ engine = "gathering"
  /\ wake = [token |-> FALSE, closed |-> FALSE]
  /\ worker = "select"
  /\ lastFlush = FALSE
  /\ panicked = FALSE
  /\ earlyStop = FALSE
  /\ hangs \in BOOLEAN

-----------------------------------------------------------------------------
(* The reasons to stop.                                                    *)

Causes == {"signal", "server", "engine"}
Errors(cause) == {cause} \ {"signal"}

\* Mutant: main polls, and finds out later which cases are ready.
Notice_Polling(cause) ==
  IF main = "listening"
  THEN /\ main' = "starting"
       /\ UNCHANGED runErr
  ELSE UNCHANGED <<main, runErr>>

\* A main that is blocked in its select is woken by the first case to become
\* ready; a case that becomes ready later does not matter any more.
Notice(cause) ==
  IF main = "listening"
  THEN /\ main' = "cancelling"
       /\ runErr' = Errors(cause)
  ELSE UNCHANGED <<main, runErr>>

Ready(cause) ==
  CASE cause = "signal" -> cancelled
    [] cause = "server" -> serverFailed
    [] cause = "engine" -> engine = "done"

Signal ==
  /\ ~cancelled
  /\ cancelled' = TRUE
  /\ earlyStop' = (main = "starting")
  /\ Notice("signal")
  /\ UNCHANGED <<notifyVars, serverFailed, engine, wake, worker, lastFlush,
                 panicked>>

\* ListenAndServe returns an error; after Shutdown it returns ErrServerClosed,
\* which is not one.
ServerFails ==
  /\ main \in {"starting", "listening", "cancelling", "stopServer"}
  /\ ~serverFailed
  /\ serverFailed' = TRUE
  /\ Notice("server")
  /\ UNCHANGED <<notifyVars, cancelled, engine, wake, worker, lastFlush,
                 panicked, earlyStop>>

-----------------------------------------------------------------------------
(* The engine.                                                             *)

\* A cycle that was not cancelled while it gathered goes on to its alerts;
\* any other returns without them.
EngineGathers ==
  /\ engine = "gathering"
  /\ engine' \in {"waking"} \cup IF cancelled THEN {} ELSE {"dispatching"}
  /\ UNCHANGED <<notifyVars, main, cancelled, runErr, serverFailed, wake, worker,
                 lastFlush, panicked, earlyStop>>

EngineDispatches ==
  /\ engine = "dispatching"
  /\ \E priority \in Priorities, target \in Targets : Dispatch(priority, target)
  /\ UNCHANGED processVars

EngineEndsCycle ==
  /\ engine = "dispatching"
  /\ engine' = "waking"
  /\ UNCHANGED <<notifyVars, main, cancelled, runErr, serverFailed, wake, worker,
                 lastFlush, panicked, earlyStop>>

\* Mutant: an unbuffered channel, so a busy worker misses the wake.
Wake_Unbuffered ==
  /\ engine = "waking"
  /\ engine' = "waiting"
  /\ wake' = [wake EXCEPT !.token = worker = "select"]
  /\ UNCHANGED <<notifyVars, main, cancelled, runErr, serverFailed, worker,
                 lastFlush, panicked, earlyStop>>

\* A send that does not block: the channel's buffer holds one token.
Wake ==
  /\ engine = "waking"
  /\ engine' = "waiting"
  /\ wake' = [wake EXCEPT !.token = TRUE]
  /\ UNCHANGED <<notifyVars, main, cancelled, runErr, serverFailed, worker,
                 lastFlush, panicked, earlyStop>>

\* The timer may win over the context when both are ready.
EngineTimer ==
  /\ engine = "waiting"
  /\ engine' = "gathering"
  /\ UNCHANGED <<notifyVars, main, cancelled, runErr, serverFailed, wake, worker,
                 lastFlush, panicked, earlyStop>>

EngineStops ==
  /\ engine = "waiting"
  /\ cancelled
  /\ engine' = "done"
  /\ Notice("engine")
  /\ UNCHANGED <<notifyVars, cancelled, serverFailed, wake, worker, lastFlush,
                 panicked, earlyStop>>

\* RecoverAndLogPanic logs the panic of a cycle, and the engine is over.
EnginePanics ==
  /\ engine \in {"gathering", "dispatching"}
  /\ engine' = "done"
  /\ panicked' = TRUE
  /\ Notice("engine")
  /\ UNCHANGED <<notifyVars, cancelled, serverFailed, wake, worker, lastFlush,
                 earlyStop>>

EngineStep == EngineGathers \/ EngineDispatches \/ EngineEndsCycle \/ Wake
                \/ EngineTimer \/ EngineStops

-----------------------------------------------------------------------------
(* The notification worker.                                                *)

WorkerWakes ==
  /\ worker = "select"
  /\ wake.token \/ wake.closed
  \* A closed channel still delivers its buffered token first.
  /\ wake' = [wake EXCEPT !.token = FALSE]
  /\ lastFlush' = ~wake.token
  /\ worker' = "flush"
  /\ UNCHANGED <<notifyVars, main, cancelled, runErr, serverFailed, engine,
                 panicked, earlyStop>>

WorkerStops ==
  /\ worker = "select"
  /\ stopped
  /\ worker' = "done"
  /\ UNCHANGED <<notifyVars, main, cancelled, runErr, serverFailed, engine, wake,
                 lastFlush, panicked, earlyStop>>

\* Mutant: a closed channel ends the worker before its flush.
WorkerTakes_NotLast ==
  /\ worker = "flush"
  /\ IF lastFlush THEN UNCHANGED notifyVars ELSE TakeBatch
  /\ worker' = "delivering"
  /\ UNCHANGED <<main, cancelled, runErr, serverFailed, engine, wake, lastFlush,
                 panicked, earlyStop>>

WorkerTakes ==
  /\ worker = "flush"
  /\ TakeBatch
  /\ worker' = "delivering"
  /\ UNCHANGED <<main, cancelled, runErr, serverFailed, engine, wake, lastFlush,
                 panicked, earlyStop>>

WorkerDelivers ==
  /\ worker = "delivering"
  /\ Deliver
  /\ UNCHANGED processVars

\* Mutant: the worker serves a single flush.
WorkerFlushed_Once ==
  /\ worker = "delivering"
  /\ report.phase = "none"
  /\ worker' = "done"
  /\ UNCHANGED <<notifyVars, main, cancelled, runErr, serverFailed, engine, wake,
                 lastFlush, panicked, earlyStop>>

WorkerFlushed ==
  /\ worker = "delivering"
  /\ report.phase = "none"
  /\ worker' = IF lastFlush THEN "done" ELSE "select"
  /\ UNCHANGED <<notifyVars, main, cancelled, runErr, serverFailed, engine, wake,
                 lastFlush, panicked, earlyStop>>

WorkerStep == WorkerWakes \/ WorkerStops \/ WorkerTakes \/ WorkerDelivers
                \/ WorkerFlushed

-----------------------------------------------------------------------------
(* Main.                                                                   *)

\* Main reaches its select: with no case ready it blocks, with several ready
\* any of them may be chosen.
MainListens ==
  /\ main = "starting"
  /\ \/ /\ \A cause \in Causes : ~Ready(cause)
        /\ main' = "listening"
        /\ UNCHANGED runErr
     \/ \E cause \in Causes :
          /\ Ready(cause)
          /\ main' = "cancelling"
          /\ runErr' = Errors(cause)
  /\ UNCHANGED <<notifyVars, cancelled, serverFailed, engine, wake, worker,
                 lastFlush, panicked, earlyStop>>

MainCancels ==
  /\ main = "cancelling"
  /\ cancelled' = TRUE
  /\ main' = "stopServer"
  /\ UNCHANGED <<notifyVars, runErr, serverFailed, engine, wake, worker,
                 lastFlush, panicked, earlyStop>>

\* server.Shutdown returns, at the latest with the error of its timeout.
MainStopsServer ==
  /\ main = "stopServer"
  /\ runErr' \in {runErr, runErr \cup {"shutdown"}}
  /\ main' = "awaitEngine"
  /\ UNCHANGED <<notifyVars, cancelled, serverFailed, engine, wake, worker,
                 lastFlush, panicked, earlyStop>>

MainSeesEngineDone ==
  /\ main = "awaitEngine"
  /\ engine = "done"
  /\ wake' = [wake EXCEPT !.closed = TRUE]
  /\ main' = "awaitWorker"
  /\ UNCHANGED <<notifyVars, cancelled, runErr, serverFailed, engine, worker,
                 lastFlush, panicked, earlyStop>>

\* Mutant: the wake channel is closed although the engine still runs.
MainEngineTimeout_Closes ==
  /\ main = "awaitEngine"
  /\ runErr' = runErr \cup {"engineTimeout"}
  /\ wake' = [wake EXCEPT !.closed = TRUE]
  /\ main' = "awaitWorker"
  /\ UNCHANGED <<notifyVars, cancelled, serverFailed, engine, worker, lastFlush,
                 panicked, earlyStop>>

\* Mutant: without a timeout, main waits for an engine that never stops.
MainEngineTimeout_Never == FALSE /\ UNCHANGED vars

MainEngineTimeout ==
  /\ main = "awaitEngine"
  /\ runErr' = runErr \cup {"engineTimeout"}
  /\ StopNotifier
  /\ main' = "awaitWorker"
  /\ UNCHANGED <<cancelled, serverFailed, engine, wake, worker, lastFlush,
                 panicked, earlyStop>>

MainSeesWorkerDone ==
  /\ main = "awaitWorker"
  /\ worker = "done"
  /\ main' = "exited"
  /\ UNCHANGED <<notifyVars, cancelled, runErr, serverFailed, engine, wake,
                 worker, lastFlush, panicked, earlyStop>>

\* Only logged: an abandoned delivery is not an error of the process.
MainWorkerTimeout ==
  /\ main = "awaitWorker"
  /\ StopNotifier
  /\ main' = "exited"
  /\ UNCHANGED <<cancelled, runErr, serverFailed, engine, wake, worker, lastFlush,
                 panicked, earlyStop>>

MainStep == MainListens \/ MainCancels \/ MainStopsServer \/ MainSeesEngineDone
              \/ MainEngineTimeout \/ MainSeesWorkerDone \/ MainWorkerTimeout

\* When main returns, the process is gone.
Next ==
  /\ main # "exited"
  /\ UNCHANGED hangs
  /\ Signal \/ ServerFails \/ EngineStep \/ EnginePanics \/ WorkerStep \/ MainStep

Spec == Init /\ [][Next]_vars

\* Main never blocks without a timeout once it was woken.  Cycles, timers and
\* deliveries end by themselves, unless hangs: then the engine and the worker
\* may be stuck for as long as main lets them.
FairSpec ==
  /\ Spec
  /\ WF_vars(UNCHANGED hangs /\ MainStep)
  /\ WF_vars(~hangs /\ UNCHANGED hangs /\ EngineGathers)
  /\ WF_vars(~hangs /\ UNCHANGED hangs /\ EngineEndsCycle)
  /\ WF_vars(~hangs /\ UNCHANGED hangs /\ Wake)
  /\ WF_vars(~hangs /\ UNCHANGED hangs /\ WorkerStep)
-----------------------------------------------------------------------------
(* Properties.                                                             *)

\* Every process keeps its types; the error main returns is made of known parts.
LifecycleTypeOK ==
  /\ NotifyTypeOK
  /\ main \in {"starting", "listening", "cancelling", "stopServer",
               "awaitEngine", "awaitWorker", "exited"}
  /\ cancelled \in BOOLEAN
  /\ runErr \subseteq {"server", "engine", "shutdown", "engineTimeout"}
  /\ serverFailed \in BOOLEAN
  /\ engine \in {"gathering", "dispatching", "waking", "waiting", "done"}
  /\ wake \in [token : BOOLEAN, closed : BOOLEAN]
  /\ worker \in {"select", "flush", "delivering", "done"}
  /\ lastFlush \in BOOLEAN
  /\ panicked \in BOOLEAN
  /\ earlyStop \in BOOLEAN
  /\ hangs \in BOOLEAN

\* A send on a closed channel panics: the engine is never about to wake the
\* worker when main has closed the wake channel.
NeverWakesClosedChannel == wake.closed => engine = "done"

\* While the engine waits for its timer and the worker for a wake that nobody
\* sent, no alert is queued: a wake is never lost to a busy worker.
NoLostWakeup ==
  engine = "waiting" /\ worker = "select" /\ ~wake.token => alertBatch = {}

\* A shutdown in which no wait timed out leaves nothing behind: every alert
\* raised, even by a cycle that panicked halfway, went into a report whose
\* delivery ended before the process did.
CleanShutdownFlushes ==
  main = "exited" /\ ~stopped => alertBatch = {} /\ report = NoReport

\* Nor did anything get lost on the way: the reports whose delivery ended carried, or
\* counted as omitted, every alert the process ever raised.
EveryAlertIsReported ==
  main = "exited" /\ ~stopped => arrivals = MapThenSumSet(Weight, finished)

\* A requested stop is not reported as a failure of the engine: main returns
\* that error only after a panic, or when the signal came before it listened.
StopIsNotAFailure == "engine" \in runErr => panicked \/ earlyStop

\* Whatever stops first, the signal, the server or the engine, the process
\* exits, even if the engine or a delivery hangs.
ProcessExits ==
  cancelled \/ serverFailed \/ engine = "done" ~> main = "exited"

\* Queued alerts are taken for delivery, unless a request hangs or the process
\* exits first.
QueueIsFlushed ==
  alertBatch # {} /\ ~hangs ~> alertBatch = {} \/ main = "exited"
=============================================================================
