--------------------------- MODULE ServerProcess ----------------------------
(***************************************************************************)
(* The life of one packmon-server process (cmd/packmon-server/main.go,     *)
(* background.go, audit_retention.go, startup_repairs.go and               *)
(* internal/server/server.go): start-up checks, background services, the   *)
(* HTTP servers, a signal or a listener error, and the shutdown with its   *)
(* three clocks -- the HTTP drain, the bounded wait for the background     *)
(* services, and the hard exit armed when the root context is cancelled.   *)
(*                                                                         *)
(* Tasks are the goroutines that use the store.  Those of Stuck may ignore *)
(* the cancelled context for ever (a stuck git clone, a blocked write).    *)
(* A manual feed sync is a goroutine an admin request leaves behind; it    *)
(* passes the gate of beginManualSyncTask before it uses the store.  Two   *)
(* kinds of goroutine are joined by nobody: the workers of the API-key     *)
(* last-used updater (middleware/auth.go) and the ReversingLabs scheduling *)
(* a check request leaves behind (reputation/scheduler.go); both run on    *)
(* the root context.                                                       *)
(***************************************************************************)
EXTENDS Naturals, FiniteSets

CONSTANTS Services,         \* feed manager, queue processors, retention worker, start-up tasks
          Syncs,            \* manual syncs admins ask for
          Requests,         \* other HTTP requests
          Detached,         \* goroutines no wait knows: the last-used updater, schedulings
          Stuck,            \* the tasks that may never react to cancellation
          ShutdownTimeout,  \* cfg.Server.ShutdownTimeout
          HardExitDefault,  \* defaultHardExitDelay
          Prunes,           \* prunes of one retention pass
          HardExitBuffer    \* the five seconds added to the timeout

VARIABLES phase,    \* where run() is
          dev,      \* development mode
          root,     \* the root context is cancelled
          ready,    \* /readyz answers 200
          task,     \* task -> "none", "asked", "running" or "ended"
          gate,     \* b.manualClosed
          store,    \* "none", "open" or "closed"
          clock,    \* time since the shutdown began
          armed,    \* clock at which the root context was cancelled
          began,    \* clock at which the current bounded wait began
          waiting,  \* the services the goroutine of Wait still waits for
          late,     \* the bounded waits that ended at their deadline
          prune,    \* the retention prune under way, 0 between passes
          result    \* how the process ended
vars == <<phase, dev, root, ready, task, gate, store, clock, armed, began, waiting, late, prune, result>>

Tasks == Services \cup Syncs \cup Requests \cup Detached
MaxClock == 3 * ShutdownTimeout + HardExitBuffer + HardExitDefault

Init == /\ phase = "config" /\ dev \in BOOLEAN
        /\ root = FALSE /\ ready = FALSE /\ gate = FALSE
        /\ task = [t \in Tasks |-> "none"]
        /\ store = "none" /\ clock = 0 /\ armed = 0 /\ began = 0
        /\ waiting = {} /\ late = {} /\ prune = 0
        /\ result = "alive"

Exit(how) == phase' = "exited" /\ result' = how
Running(ts) == {t \in ts : task[t] = "running"}

-----------------------------------------------------------------------------
(* Start-up: every step returns an error to main, which exits with 1.      *)

\* Configuration, transport and metrics checks, then the required secrets.
loadAndValidateRuntimeConfig ==
    /\ phase = "config"
    /\ \/ phase' = "schema" /\ UNCHANGED result
       \/ Exit("failed")
    /\ UNCHANGED <<dev, root, ready, task, gate, store, clock, armed, began, waiting, late, prune>>

\* Development skips the schema check; otherwise it must pass (see
\* SchemaMigrations) before the store is opened.
bootstrapRuntimeDatabase ==
    /\ phase = "schema"
    /\ \/ phase' = "open" /\ UNCHANGED result
       \/ ~dev /\ Exit("failed")
    /\ UNCHANGED <<dev, root, ready, task, gate, store, clock, armed, began, waiting, late, prune>>

\* Encryptor, audit key and pool; a pool that cannot connect is not kept.
openRuntimeStore ==
    /\ phase = "open"
    /\ \/ store' = "open" /\ phase' = "state" /\ UNCHANGED result
       \/ UNCHANGED store /\ Exit("failed")
    /\ UNCHANGED <<dev, root, ready, task, gate, clock, armed, began, waiting, late, prune>>

\* Admin bootstrap, feed overrides, system settings; a failure closes the store.
applyStoredRuntimeState ==
    /\ phase = "state"
    /\ \/ phase' = "build" /\ UNCHANGED <<store, result>>
       \/ store' = "closed" /\ Exit("failed")
    /\ UNCHANGED <<dev, root, ready, task, gate, clock, armed, began, waiting, late, prune>>

\* The root context, then the services: only the start-up repair in
\* development.  A queue processor that cannot start cancels the root
\* context and fails the start.  Building the HTTP server starts the
\* last-used updater.
startBackgroundServices ==
    /\ phase = "build"
    /\ \/ /\ phase' = "serve" /\ ready' = TRUE
          /\ task' = [t \in Tasks |-> IF \/ t = "last-used"
                                         \/ t \in Services /\ (~dev \/ t = "repairs")
                                      THEN "running" ELSE "none"]
          /\ UNCHANGED <<root, result>>
       \/ /\ ~dev /\ root' = TRUE /\ Exit("failed")
          /\ UNCHANGED <<ready, task>>
    /\ UNCHANGED <<dev, gate, store, clock, armed, began, waiting, late, prune>>

-----------------------------------------------------------------------------
(* Serving.                                                                *)

Serving == phase \in {"serve", "drain"}

\* An HTTP request uses the store until its handler returns; new ones are
\* accepted until the listener is shut.
Arrives(t) == /\ phase = "serve" /\ t \in Requests /\ task[t] = "none"
              /\ task' = [task EXCEPT ![t] = "running"]
              /\ UNCHANGED <<phase, dev, root, ready, gate, store, clock, armed, began, waiting, late, prune, result>>

\* HandleFeedSyncNow answers and leaves a goroutine that has not yet
\* reached the gate.
HandleFeedSyncNow(t) ==
    /\ Serving /\ t \in Syncs /\ task[t] = "none"
    /\ task' = [task EXCEPT ![t] = "asked"]
    /\ UNCHANGED <<phase, dev, root, ready, gate, store, clock, armed, began, waiting, late, prune, result>>

\* Mutant: the gate is not consulted.
beginManualSyncTaskAlways(t) == "running"

\* A manual sync that finds the gate closed returns context.Canceled.
beginManualSyncTask(t) == IF gate THEN "ended" ELSE "running"

RunManualFeedSync(t) ==
    /\ phase # "exited" /\ task[t] = "asked"
    /\ task' = [task EXCEPT ![t] = beginManualSyncTask(t)]
    /\ UNCHANGED <<phase, dev, root, ready, gate, store, clock, armed, began, waiting, late, prune, result>>

\* A check request left a scheduling goroutine, which uses the store once it
\* finds its context, the root context, alive; the request may be over.
ScheduleReversingLabsAsync(t) ==
    /\ phase # "exited" /\ ~root
    /\ t \in Detached \ {"last-used"} /\ task[t] = "none"
    /\ \E q \in Requests : task[q] \in {"running", "ended"}
    /\ task' = [task EXCEPT ![t] = "running"]
    /\ UNCHANGED <<phase, dev, root, ready, gate, store, clock, armed, began, waiting, late, prune, result>>

\* A task ends by itself (a request, a sync, the repairs, a scheduling) or
\* because the root context is cancelled.
Ends(t) == /\ phase # "exited" /\ task[t] = "running"
           /\ t \in (Services \ {"repairs"}) \cup {"last-used"} => root
           /\ t = "retention" => prune = 0
           /\ task' = [task EXCEPT ![t] = "ended"]
           /\ UNCHANGED <<phase, dev, root, ready, gate, store, clock, armed, began, waiting, late, prune, result>>

\* The retention worker: a tick starts a pass; each prune recovers its own
\* panic and logs its own error, and the next one starts only while the root
\* context is alive.
runAuditRetentionOnce ==
    /\ phase # "exited" /\ task["retention"] = "running"
    /\ \/ prune = 0 /\ ~root /\ prune' = 1
       \/ prune > 0 /\ prune' = IF root \/ prune = Prunes THEN 0 ELSE prune + 1
    /\ UNCHANGED <<phase, dev, root, ready, task, gate, store, clock, armed, began, waiting, late, result>>

-----------------------------------------------------------------------------
(* Shutdown.                                                               *)

\* SIGTERM or SIGINT cancels the root context; before that context exists
\* the signal ends the process.
Signal == /\ phase # "exited" /\ ~root
          /\ IF phase \in {"serve", "drain"}
             THEN root' = TRUE /\ armed' = clock /\ UNCHANGED <<phase, result>>
             ELSE Exit("killed") /\ UNCHANGED <<root, armed>>
          /\ UNCHANGED <<dev, ready, task, gate, store, clock, began, waiting, late, prune>>

\* Run leaves its select on cancellation or on a listener error, marks the
\* process not ready and shuts the HTTP servers.
Run == /\ phase = "serve"
       /\ phase' = "drain" /\ ready' = FALSE /\ began' = clock
       /\ UNCHANGED <<dev, root, task, gate, store, clock, armed, waiting, late, prune, result>>

\* http.Server.Shutdown returns when every handler has returned or at its
\* deadline; stop() then cancels the root context if a signal has not.
shutdown == /\ phase = "drain"
            /\ \/ Running(Requests) = {} /\ UNCHANGED late
               \/ clock - began >= ShutdownTimeout /\ late' = late \cup {"http"}
            /\ phase' = "wait" /\ root' = TRUE /\ began' = clock
            /\ armed' = IF root THEN armed ELSE clock
            /\ waiting' = Services
            /\ UNCHANGED <<dev, ready, task, gate, store, clock, prune, result>>

\* The goroutine of Wait: each service in turn, then the gate is closed and
\* the manual syncs are waited for, then the start-up tasks.
waitManualSyncTasks == /\ waiting \subseteq {"repairs"} /\ ~gate
                       /\ gate' = TRUE /\ UNCHANGED waiting
waitService(s) == /\ task[s] # "running"
                  /\ s = "repairs" => gate /\ Running(Syncs) = {}
                  /\ waiting' = waiting \ {s} /\ UNCHANGED gate
WaitSteps == /\ phase \in {"wait", "close"}
             /\ waitManualSyncTasks \/ \E s \in waiting : waitService(s)
             /\ UNCHANGED <<phase, dev, root, ready, task, store, clock, armed, began, late, prune, result>>

Stopped == waiting = {} /\ gate

\* Wait returns when that goroutine is done or at the shutdown timeout.
Wait == /\ phase = "wait"
        /\ \/ Stopped /\ UNCHANGED late
           \/ clock - began >= ShutdownTimeout /\ late' = late \cup {"background"}
        /\ phase' = "close"
        /\ UNCHANGED <<dev, root, ready, task, gate, store, clock, armed, began, waiting, prune, result>>

\* The pool is closed and main returns.  Close has no deadline: it blocks as
\* long as a task holds a connection.
shutdownRuntime == /\ phase = "close"
                   /\ store' = "closed" /\ Exit("returned")
                   /\ UNCHANGED <<dev, root, ready, task, gate, clock, armed, began, waiting, late, prune>>

effectiveHardExitDelay ==
    IF ShutdownTimeout + HardExitBuffer > HardExitDefault
    THEN ShutdownTimeout + HardExitBuffer ELSE HardExitDefault

\* The goroutine armed at the start: os.Exit(1) once the delay has passed.
armHardExitDeadline == /\ phase # "exited" /\ root /\ clock - armed >= effectiveHardExitDelay
                       /\ Exit("forced")
                       /\ UNCHANGED <<dev, root, ready, task, gate, store, clock, armed, began, waiting, late, prune>>

\* Time passes; a deadline that has been reached is acted on before it does.
Tick == /\ root \/ phase = "drain"
        /\ phase # "exited" /\ clock < MaxClock
        /\ root => clock - armed < effectiveHardExitDelay
        /\ phase \in {"drain", "wait"} => clock - began < ShutdownTimeout
        /\ phase = "close" => Running(Tasks) # {}
        /\ clock' = clock + 1
        /\ UNCHANGED <<phase, dev, root, ready, task, gate, store, armed, began, waiting, late, prune, result>>

Next == \/ loadAndValidateRuntimeConfig \/ bootstrapRuntimeDatabase \/ openRuntimeStore
        \/ applyStoredRuntimeState \/ startBackgroundServices
        \/ \E t \in Tasks : Arrives(t) \/ HandleFeedSyncNow(t) \/ RunManualFeedSync(t) \/ Ends(t)
                         \/ ScheduleReversingLabsAsync(t)
        \/ runAuditRetentionOnce
        \/ Signal \/ Run \/ shutdown \/ WaitSteps \/ Wait \/ shutdownRuntime
        \/ armHardExitDeadline \/ Tick

\* The runtime schedules every goroutine that can run; the tasks of Stuck
\* need not end, and nobody need send a signal.
Fairness == /\ WF_vars(Tick) /\ WF_vars(runAuditRetentionOnce) /\ WF_vars(armHardExitDeadline)
            /\ WF_vars(root /\ Run) /\ WF_vars(shutdown)
            /\ WF_vars(WaitSteps) /\ WF_vars(Wait) /\ WF_vars(Running(Tasks) = {} /\ shutdownRuntime)
            /\ \A t \in Tasks \ Stuck : WF_vars(Ends(t))
Spec == Init /\ [][Next]_vars /\ Fairness

-----------------------------------------------------------------------------
\* Phases, tasks and clocks stay in range; the store is open while serving.
TypeOK == /\ task \in [Tasks -> {"none", "asked", "running", "ended"}]
          /\ phase \in {"serve", "drain", "wait", "close"} => store = "open"
          /\ began <= clock /\ armed <= clock /\ clock <= MaxClock
          /\ waiting \subseteq Services /\ late \subseteq {"http", "background"}

\* What the orderly end closes the database pool under: a request is still
\* running only if the HTTP drain missed its deadline, a service or a manual
\* sync only if the wait for the background services missed its own.  The
\* last-used updater and a scheduling may be running, for no wait knows them,
\* but only on a cancelled context.
CloseAwaitsUsers ==
    result = "returned" =>
        /\ Running(Requests) # {} => "http" \in late
        /\ Running(Services \cup Syncs) # {} => "background" \in late
        /\ Running(Detached) # {} => root

\* After a signal the process ends, even when tasks ignore the cancelled
\* context for ever.
ProcessEnds == root ~> (phase = "exited")

\* What effectiveHardExitDelay says of its value: it exceeds the graceful
\* shutdown, so that the hard exit never cuts a bounded wait short.
\* Not so, and in no run: two waits of ShutdownTimeout each follow the signal
\* that arms the deadline.
HardExitAfterGrace == [][result' = "forced" /\ result # "forced" => phase = "close"]_vars
=============================================================================
