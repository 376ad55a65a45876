----------------------------- MODULE QueueRestart -----------------------------
(***************************************************************************)
(* How backgroundServices (cmd/packmon-server/background.go) replaces the  *)
(* queue processor when the settings of an async feed change, and stops it *)
(* on shutdown.  A restart waits for the old processor while it holds      *)
(* queueMu; if the processor misses the deadline, a continuation goroutine *)
(* starts the replacement later.  Saves and resets run in the feed config  *)
(* slot of the admin handlers, so at most one of them is in progress.      *)
(***************************************************************************)
EXTENDS Naturals

CONSTANTS
    Configs,     \* settings of the async feeds
    Enabled,     \* the settings with at least one worker to run
    MaxApplies,  \* bound on the number of configuration changes
    None

ASSUME RestartAssumption ==
    /\ Enabled \subseteq Configs
    /\ MaxApplies \in Nat
    /\ None \notin Nat

VARIABLES
    config,         \* b.cfg: the current settings
    rootCancelled,  \* rootCtx
    chans,          \* the channels made so far are 1..chans
    procs,          \* processors whose Run has not returned
    full,           \* channels that hold an exit result
    held,           \* queueMu is held across the wait of a restart
    queueCancel,    \* the processor that queueCancel cancels, by its channel
    queueDone, queueDones, queueDeferred,
    conts,          \* the goroutines of finishDeferredQueueRestart
    apply,          \* the ApplyFeedConfig call: pc and oldDone
    applies,        \* number of changes so far
    shutdown        \* Wait: pc and the channels still to receive from

queue == <<held, queueCancel, queueDone, queueDones, queueDeferred>>
vars == <<config, rootCancelled, chans, procs, full, held, queueCancel, queueDone,
          queueDones, queueDeferred, conts, apply, applies, shutdown>>

Processor(done) == [done |-> done, config |-> config, cancelled |-> FALSE]
Idle == [pc |-> "idle", oldDone |-> None]

\* startBackgroundServices has started the first processor.
Init ==
    /\ config \in Enabled
    /\ rootCancelled = FALSE
    /\ chans = 1
    /\ procs = {Processor(1)}
    /\ full = {}
    /\ held = FALSE
    /\ queueCancel = 1
    /\ queueDone = 1
    /\ queueDones = {1}
    /\ queueDeferred = None
    /\ conts = {}
    /\ apply = Idle
    /\ applies = 0
    /\ shutdown = [pc |-> "run", waits |-> {}]

-----------------------------------------------------------------------------
(* Helpers that run with queueMu held.                                      *)

\* stopQueueProcessorLocked calls queueCancel; its caller clears the fields.
Stopped == {[p EXCEPT !.cancelled = @ \/ p.done = queueCancel] : p \in procs}

\* startQueueProcessorLocked, from the processors and tracked channels its
\* caller leaves; queueCancel and queueDone are nil when it is called.
StartQueueProcessorLocked(ps, dones) ==
    IF rootCancelled \/ config \notin Enabled
    THEN /\ queueCancel' = None
         /\ queueDone' = None
         /\ queueDones' = dones
         /\ procs' = ps
         /\ UNCHANGED chans
    ELSE /\ chans' = chans + 1
         /\ queueCancel' = chans + 1
         /\ queueDone' = chans + 1
         /\ queueDones' = dones \cup {chans + 1}
         /\ procs' = ps \cup {Processor(chans + 1)}

-----------------------------------------------------------------------------
(* A processor and the feed settings.                                       *)

\* Run returns after its context is cancelled (see QueueProcessor).
ProcessorExit(p) ==
    /\ p \in procs
    /\ p.cancelled \/ rootCancelled
    /\ procs' = procs \ {p}
    /\ full' = full \cup {p.done}
    /\ UNCHANGED <<config, rootCancelled, chans, queue, conts, apply, applies, shutdown>>

\* ApplyFeedConfig returns at once when the effective settings do not change.
ApplyFeedConfig(c) ==
    /\ apply.pc = "idle"
    /\ applies < MaxApplies
    /\ c # config
    /\ config' = c
    /\ apply' = [apply EXCEPT !.pc = "restart"]
    /\ applies' = applies + 1
    /\ UNCHANGED <<rootCancelled, chans, procs, full, queue, conts, shutdown>>

-----------------------------------------------------------------------------
(* restartQueueProcessor                                                    *)

\* Mutant: the restart does not wait for the old processor.
RestartBeginNoWait ==
    /\ apply.pc = "restart"
    /\ ~held
    /\ StartQueueProcessorLocked(Stopped, queueDones)
    /\ apply' = Idle
    /\ UNCHANGED <<config, rootCancelled, full, held, queueDeferred, conts, applies, shutdown>>

RestartBegin ==
    /\ apply.pc = "restart"
    /\ ~held
    /\ \/ /\ queueDone = None
          /\ StartQueueProcessorLocked(Stopped, queueDones)
          /\ apply' = Idle
          /\ UNCHANGED held
       \/ /\ queueDone # None
          /\ procs' = Stopped
          /\ queueCancel' = None
          /\ queueDone' = None
          /\ apply' = [pc |-> "wait", oldDone |-> queueDone]
          /\ held' = TRUE
          /\ UNCHANGED <<chans, queueDones>>
    /\ UNCHANGED <<config, rootCancelled, full, queueDeferred, conts, applies, shutdown>>

\* Mutant: the channel stays tracked after its result was received.
RestartReceiveKeepsDone ==
    /\ apply.pc = "wait"
    /\ apply.oldDone \in full
    /\ full' = full \ {apply.oldDone}
    /\ queueDeferred' = IF queueDeferred = apply.oldDone THEN None ELSE queueDeferred
    /\ StartQueueProcessorLocked(procs, queueDones)
    /\ apply' = Idle
    /\ held' = FALSE
    /\ UNCHANGED <<config, rootCancelled, conts, applies, shutdown>>

\* waitForQueueProcessor receives the exit.
RestartReceive ==
    /\ apply.pc = "wait"
    /\ apply.oldDone \in full
    /\ full' = full \ {apply.oldDone}
    /\ queueDeferred' = IF queueDeferred = apply.oldDone THEN None ELSE queueDeferred
    /\ StartQueueProcessorLocked(procs, queueDones \ {apply.oldDone})
    /\ apply' = Idle
    /\ held' = FALSE
    /\ UNCHANGED <<config, rootCancelled, conts, applies, shutdown>>

\* Mutant: the continuation's channel is not tracked for shutdown.
RestartTimeoutUntracked ==
    /\ apply.pc = "wait"
    /\ \/ /\ queueDeferred = apply.oldDone
          /\ queueDone' = apply.oldDone
          /\ UNCHANGED <<chans, queueDones, queueDeferred, conts>>
       \/ /\ queueDeferred # apply.oldDone
          /\ chans' = chans + 1
          /\ queueDones' = queueDones \ {apply.oldDone}
          /\ queueDone' = chans + 1
          /\ queueDeferred' = chans + 1
          /\ conts' = conts \cup {[old |-> apply.oldDone, forward |-> chans + 1, sent |-> FALSE]}
    /\ apply' = Idle
    /\ held' = FALSE
    /\ UNCHANGED <<config, rootCancelled, procs, full, queueCancel, applies, shutdown>>

\* Mutant: the restart gives up when the processor misses the deadline.
RestartTimeoutGivesUp ==
    /\ apply.pc = "wait"
    /\ apply' = Idle
    /\ held' = FALSE
    /\ UNCHANGED <<config, rootCancelled, chans, procs, full, queueCancel, queueDone,
                   queueDones, queueDeferred, conts, applies, shutdown>>

\* waitForQueueProcessor misses the deadline: deferQueueRestartLocked.
RestartTimeout ==
    /\ apply.pc = "wait"
    /\ \/ /\ queueDeferred = apply.oldDone
          /\ queueDone' = apply.oldDone
          /\ UNCHANGED <<chans, queueDones, queueDeferred, conts>>
       \/ /\ queueDeferred # apply.oldDone
          /\ chans' = chans + 1
          /\ queueDones' = (queueDones \ {apply.oldDone}) \cup {chans + 1}
          /\ queueDone' = chans + 1
          /\ queueDeferred' = chans + 1
          /\ conts' = conts \cup {[old |-> apply.oldDone, forward |-> chans + 1, sent |-> FALSE]}
    /\ apply' = Idle
    /\ held' = FALSE
    /\ UNCHANGED <<config, rootCancelled, procs, full, queueCancel, applies, shutdown>>

-----------------------------------------------------------------------------
(* finishDeferredQueueRestart                                               *)

\* err := <-oldDone; forward <- err.  Nobody else reads oldDone by now, and
\* forward has a free slot, so the two are one step.
ContinuationForward(k) ==
    /\ k \in conts
    /\ ~k.sent
    /\ k.old \in full
    /\ full' = (full \ {k.old}) \cup {k.forward}
    /\ conts' = (conts \ {k}) \cup {[k EXCEPT !.sent = TRUE]}
    /\ UNCHANGED <<config, rootCancelled, chans, procs, queue, apply, applies, shutdown>>

\* Mutant: the continuation takes the exit although a later restart or the
\* shutdown has taken over.
ContinuationFinishAlways(k) ==
    /\ k \in conts
    /\ k.sent
    /\ ~held
    /\ conts' = conts \ {k}
    /\ queueDeferred' = IF queueDeferred = k.forward THEN None ELSE queueDeferred
    /\ k.forward \in full
    /\ full' = full \ {k.forward}
    /\ StartQueueProcessorLocked(procs, queueDones \ {k.forward})
    /\ UNCHANGED <<config, rootCancelled, held, apply, applies, shutdown>>

\* The rest, with queueMu held; receiving from forward must not block.
ContinuationFinish(k) ==
    /\ k \in conts
    /\ k.sent
    /\ ~held
    /\ conts' = conts \ {k}
    /\ queueDeferred' = IF queueDeferred = k.forward THEN None ELSE queueDeferred
    /\ \/ /\ queueDone # k.forward
          /\ UNCHANGED <<full, chans, procs, queueCancel, queueDone, queueDones>>
       \/ /\ queueDone = k.forward
          /\ k.forward \in full
          /\ full' = full \ {k.forward}
          /\ StartQueueProcessorLocked(procs, queueDones \ {k.forward})
    /\ UNCHANGED <<config, rootCancelled, held, apply, applies, shutdown>>

-----------------------------------------------------------------------------
(* Shutdown                                                                 *)

\* SIGTERM cancels rootCtx.
Signal ==
    /\ ~rootCancelled
    /\ rootCancelled' = TRUE
    /\ UNCHANGED <<config, chans, procs, full, queue, conts, apply, applies, shutdown>>

\* stopAndWaitQueueProcessors, up to the unlock.
StopAndWaitQueueProcessors ==
    /\ rootCancelled
    /\ shutdown.pc = "run"
    /\ ~held
    /\ procs' = Stopped
    /\ queueCancel' = None
    /\ queueDone' = None
    /\ shutdown' = [pc |-> "wait", waits |-> queueDones]
    /\ UNCHANGED <<config, rootCancelled, chans, full, held, queueDones, queueDeferred,
                   conts, apply, applies>>

ShutdownReceive(d) ==
    /\ shutdown.pc = "wait"
    /\ d \in shutdown.waits
    /\ d \in full
    /\ full' = full \ {d}
    /\ shutdown' = [shutdown EXCEPT !.waits = @ \ {d}]
    /\ UNCHANGED <<config, rootCancelled, chans, procs, queue, conts, apply, applies>>

ShutdownDone ==
    /\ shutdown.pc = "wait"
    /\ shutdown.waits = {}
    /\ shutdown' = [shutdown EXCEPT !.pc = "done"]
    /\ UNCHANGED <<config, rootCancelled, chans, procs, full, queue, conts, apply, applies>>

\* Wait gives up after shutdownWait, and the process exits.
WaitTimeout ==
    /\ rootCancelled
    /\ shutdown.pc \in {"run", "wait"}
    /\ shutdown' = [shutdown EXCEPT !.pc = "abandoned"]
    /\ UNCHANGED <<config, rootCancelled, chans, procs, full, queue, conts, apply, applies>>

Ended ==
    /\ shutdown.pc \in {"done", "abandoned"}
    /\ UNCHANGED vars

Continuation(k) == ContinuationForward(k) \/ ContinuationFinish(k)

Next ==
    \/ \E p \in procs : ProcessorExit(p)
    \/ \E c \in Configs : ApplyFeedConfig(c)
    \/ RestartBegin
    \/ RestartReceive
    \/ RestartTimeout
    \/ \E k \in conts : Continuation(k)
    \/ Signal
    \/ StopAndWaitQueueProcessors
    \/ \E d \in shutdown.waits : ShutdownReceive(d)
    \/ ShutdownDone
    \/ WaitTimeout
    \/ Ended

Spec == Init /\ [][Next]_vars

-----------------------------------------------------------------------------
Channel == Nat \ {0}

\* The state keeps its types; only settings with a worker run.
TypeOK ==
    /\ config \in Configs
    /\ rootCancelled \in BOOLEAN
    /\ chans \in Nat
    /\ procs \subseteq [done : Channel, config : Enabled, cancelled : BOOLEAN]
    /\ full \subseteq Channel
    /\ held \in BOOLEAN
    /\ queueCancel \in Channel \cup {None}
    /\ queueDone \in Channel \cup {None}
    /\ queueDeferred \in Channel \cup {None}
    /\ queueDones \subseteq Channel
    /\ conts \subseteq [old : Channel, forward : Channel, sent : BOOLEAN]
    /\ apply \in [pc : {"idle", "restart", "wait"}, oldDone : Channel \cup {None}]
    /\ applies \in 0..MaxApplies
    /\ shutdown \in [pc : {"run", "wait", "done", "abandoned"}, waits : SUBSET Channel]

\* Two processors never run at once, so no job is handled under two settings
\* and the shared rate limits are not used by two sets of workers: restarts
\* and continuations start a processor only after the exit of the last one.
OneProcessor == \A p, q \in procs : p = q

\* A settled server runs the current settings: when no restart is in progress
\* and no continuation is pending, the processor that runs was started with
\* the settings the admin saved last, and none runs when they need no worker.
SettledOnCurrentSettings ==
    (apply.pc = "idle" /\ conts = {} /\ ~rootCancelled) =>
        {<<p.config, p.cancelled>> : p \in procs} = {<<c, FALSE>> : c \in Enabled \cap {config}}

\* Shutdown does not end before every processor has, also one that a restart
\* gave up waiting for.
ShutdownAwaitsAll == shutdown.pc = "done" => procs = {}

\* An exit result is read once: finishDeferredQueueRestart never waits for
\* forward with queueMu held, and shutdown never waits for a result that a
\* restart or a continuation has taken.
ExitResultAwaited ==
    /\ \A k \in conts : (k.sent /\ queueDone = k.forward) => k.forward \in full
    /\ \A d \in shutdown.waits :
         d \in full \/ (\E p \in procs : p.done = d) \/ (\E k \in conts : k.forward = d /\ ~k.sent)

\* Nobody waits for a result that will not come, and nothing is left behind
\* when shutdown has ended.
ExitsAwaited == ShutdownAwaitsAll /\ ExitResultAwaited

\* Scheduling: a cancelled processor ends (shown for QueueProcessor), the wait
\* of a restart has a deadline, and a goroutine that wants queueMu gets it.
Fairness ==
    /\ WF_vars(\E p \in procs : ProcessorExit(p))
    /\ SF_vars(RestartBegin)
    /\ WF_vars(RestartReceive \/ RestartTimeout)
    /\ SF_vars(\E k \in conts : Continuation(k))
    /\ SF_vars(StopAndWaitQueueProcessors)
    /\ WF_vars(\E d \in shutdown.waits : ShutdownReceive(d))
    /\ WF_vars(ShutdownDone)

FairSpec == Spec /\ Fairness

\* Saved settings take effect without a further save, also when the old
\* processor missed the restart deadline (comment of deferQueueRestartLocked).
SettingsTakeEffect ==
    \A c \in Enabled :
        config = c ~> (config # c \/ rootCancelled \/ \E p \in procs : p.config = c /\ ~p.cancelled)

\* The wait of shutdown for the queue processors ends, unless it is abandoned;
\* nothing relies on the deadline of Wait.
ShutdownEnds == rootCancelled ~> shutdown.pc \in {"done", "abandoned"}
=============================================================================
