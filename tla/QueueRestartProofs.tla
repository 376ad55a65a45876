-------------------------- MODULE QueueRestartProofs --------------------------
(***************************************************************************)
(* OneProcessor, SettledOnCurrentSettings and ExitsAwaited hold for any    *)
(* settings and any number of changes.  There is one exit still to be      *)
(* awaited at a time, and it is found from the channel that the next       *)
(* restart, or shutdown, waits for.                                        *)
(***************************************************************************)
EXTENDS QueueRestart, TLAPS

\* The channel that a restart waits for now, or would wait for next.
Cur == IF apply.pc = "wait" THEN apply.oldDone ELSE queueDone

\* The channels somebody waits for: a restart or, once it has begun, shutdown.
Awaited == shutdown.waits \cup ({Cur} \ {None})

Unsent == {k \in conts : ~k.sent}

\* A continuation that has not forwarded the exit leads to the awaited channel;
\* there is one.
ContInv ==
    /\ \A k \in Unsent : k.forward \in Awaited
    /\ \A k, l \in Unsent : k = l
    /\ \A k \in conts : k.forward = Cur => queueDeferred = k.forward
    /\ \A k \in conts : (k.sent /\ k.forward \in Awaited) => k.forward \in full
    /\ \A k \in conts : k.old < k.forward
    /\ queueDeferred # None => \E k \in conts : k.forward = queueDeferred

\* The channels the exit is, or will be, sent to.
Leads == IF Unsent = {} THEN Awaited ELSE {k.old : k \in Unsent}

\* One exit is outstanding: as a processor or as a result in a channel.
TokenInv ==
    /\ \A c, d \in Awaited : c = d
    /\ \A p \in procs : p.done \in Leads /\ full = {}
    /\ full \subseteq Leads
    /\ Awaited # {} => (procs # {} \/ full # {})

\* What shutdown finds in queueDones is the awaited channel, and from then on
\* no restart waits.
ShutdownInv ==
    /\ shutdown.pc = "run" => shutdown.waits = {} /\ queueDones = {Cur} \ {None}
    /\ shutdown.pc \in {"wait", "done"} => Cur = None
    /\ shutdown.pc = "done" => shutdown.waits = {}
    /\ shutdown.waits # {} => Cur = None
    /\ shutdown.pc # "run" => rootCancelled

\* The mutex is held exactly during the wait of a restart.
WaitInv ==
    /\ held <=> apply.pc = "wait"
    /\ apply.pc = "wait" => queueDone = None /\ apply.oldDone # None

\* Outside of a restart, a channel that no continuation owns belongs to a
\* running processor with the current settings.
SettledInv ==
    apply.pc = "idle" =>
        /\ queueDone = None => config \notin Enabled
        /\ (queueDone # None /\ \A k \in conts : k.forward # queueDone) =>
              \E p \in procs : p.config = config /\ ~p.cancelled

\* New channels differ from all that are in use.
Fresh ==
    /\ \A p \in procs : p.done <= chans
    /\ \A d \in full : d <= chans
    /\ \A k \in conts : k.forward <= chans
    /\ queueDone # None => queueDone <= chans
    /\ queueCancel # None => queueCancel <= chans
    /\ apply.oldDone # None => apply.oldDone <= chans

Chain == ContInv /\ TokenInv /\ ShutdownInv /\ OneProcessor /\ (rootCancelled \/ SettledInv)

IInv == TypeOK /\ WaitInv /\ Fresh /\ Chain
-----------------------------------------------------------------------------
USE RestartAssumption

\* The variables keep their types, whatever an action does.
LEMMA TypeStep == TypeOK /\ WaitInv /\ [Next]_vars => TypeOK'
<1> SUFFICES ASSUME TypeOK, WaitInv, [Next]_vars PROVE TypeOK'
    OBVIOUS
<1> USE DEF TypeOK, Channel, queue
<1> DEFINE P == [done : Channel, config : Enabled, cancelled : BOOLEAN]
<1>a. Stopped \subseteq P
    <2> SUFFICES ASSUME NEW p \in procs
                 PROVE [p EXCEPT !.cancelled = @ \/ p.done = queueCancel] \in P
        BY DEF Stopped
    <2>1. p \in P /\ (p.cancelled \/ p.done = queueCancel) \in BOOLEAN
        OBVIOUS
    <2>2. QED
        BY Zenon, <2>1
<1>b. ~(rootCancelled \/ config \notin Enabled) => Processor(chans + 1) \in P
    BY DEF Processor
<1>c. Idle \in [pc : {"idle", "restart", "wait"}, oldDone : Channel \cup {None}]
    BY Zenon DEF Idle
<1>d. ASSUME NEW ps, NEW dones, ps \subseteq P, dones \subseteq Channel, StartQueueProcessorLocked(ps, dones)
      PROVE  /\ chans' \in Nat /\ procs' \subseteq P /\ queueDones' \subseteq Channel
             /\ queueCancel' \in Channel \cup {None} /\ queueDone' \in Channel \cup {None}
    <2>1. CASE rootCancelled \/ config \notin Enabled
        BY Zenon, <1>d, <2>1 DEF StartQueueProcessorLocked
    <2>2. CASE ~(rootCancelled \/ config \notin Enabled)
        <3> HIDE DEF P
        <3>1. procs' = ps \cup {Processor(chans + 1)}
            BY Zenon, <1>d, <2>2 DEF StartQueueProcessorLocked
        <3>2. procs' \subseteq P
            BY Zenon, <1>d, <1>b, <2>2, <3>1
        <3>3. chans + 1 \in Channel /\ chans + 1 \in Nat
            OBVIOUS
        <3> HIDE DEF TypeOK, Channel
        <3>4. QED
            BY <1>d, <2>2, <3>2, <3>3 DEF StartQueueProcessorLocked
    <2>3. QED
        BY Zenon, <2>1, <2>2
<1>1. ASSUME NEW p \in procs, ProcessorExit(p) PROVE TypeOK'
    BY ZenonT(60), <1>1 DEF ProcessorExit
<1>2. ASSUME NEW c \in Configs, ApplyFeedConfig(c) PROVE TypeOK'
    BY <1>2 DEF ApplyFeedConfig
<1>3. CASE RestartBegin
    <2>1. CASE queueDone = None
        <3>1. StartQueueProcessorLocked(Stopped, queueDones)
            BY Zenon, <1>3, <2>1 DEF RestartBegin
        <3>2. QED
            BY Zenon, <1>3, <2>1, <3>1, <1>a, <1>c, <1>d DEF RestartBegin
    <2>2. CASE queueDone # None
        <3>1. [pc |-> "wait", oldDone |-> queueDone]
                \in [pc : {"idle", "restart", "wait"}, oldDone : Channel \cup {None}]
            OBVIOUS
        <3>2. QED
            BY Zenon, <1>3, <2>2, <1>a, <3>1 DEF RestartBegin
    <2>3. QED
        BY Zenon, <2>1, <2>2
<1>4. CASE RestartReceive
    BY Zenon, <1>4, <1>c, <1>d DEF RestartReceive
<1>5. CASE RestartTimeout
    <2>1. apply.oldDone \in Channel
        BY Zenon, <1>5 DEF RestartTimeout, WaitInv
    <2>2. CASE queueDeferred = apply.oldDone
        BY Zenon, <1>5, <1>c, <2>1, <2>2 DEF RestartTimeout
    <2>3. CASE queueDeferred # apply.oldDone
        <3>1. [old |-> apply.oldDone, forward |-> chans + 1, sent |-> FALSE]
                \in [old : Channel, forward : Channel, sent : BOOLEAN]
            BY <2>1
        <3>2. QED
            BY ZenonT(60), <1>5, <1>c, <2>1, <2>3, <3>1 DEF RestartTimeout
    <2>4. QED
        BY Zenon, <2>2, <2>3
<1>6. ASSUME NEW k \in conts, ContinuationForward(k) PROVE TypeOK'
    BY ZenonT(60), <1>6 DEF ContinuationForward
<1>7. ASSUME NEW k \in conts, ContinuationFinish(k) PROVE TypeOK'
    BY ZenonT(60), <1>7, <1>d DEF ContinuationFinish
<1>8. CASE Signal
    BY <1>8 DEF Signal
<1>9. CASE StopAndWaitQueueProcessors
    BY Zenon, <1>9, <1>a DEF StopAndWaitQueueProcessors
<1>10. ASSUME NEW d \in shutdown.waits, ShutdownReceive(d) PROVE TypeOK'
    BY Zenon, <1>10 DEF ShutdownReceive
<1>11. CASE ShutdownDone
    BY Zenon, <1>11 DEF ShutdownDone
<1>12. CASE WaitTimeout
    BY Zenon, <1>12 DEF WaitTimeout
<1>13. CASE UNCHANGED vars
    BY <1>13 DEF vars
<1>14. QED
    BY Zenon, <1>1, <1>2, <1>3, <1>4, <1>5, <1>6, <1>7, <1>8, <1>9, <1>10, <1>11, <1>12, <1>13
       DEF Next, Continuation, Ended
\* Cancelling keeps the channels and the number of the processors.
LEMMA StoppedFacts ==
    ASSUME TypeOK
    PROVE  /\ \A q \in Stopped : \E p \in procs : q.done = p.done
           /\ OneProcessor => \A q, r \in Stopped : q = r
           /\ procs # {} => Stopped # {}
<1>1. \A p \in procs : [p EXCEPT !.cancelled = @ \/ p.done = queueCancel].done = p.done
    BY Zenon DEF TypeOK
<1>2. \A q \in Stopped : \E p \in procs : q.done = p.done
    BY Zenon, <1>1 DEF Stopped
<1>3. OneProcessor => \A q, r \in Stopped : q = r
    <2> DEFINE S(p) == [p EXCEPT !.cancelled = @ \/ p.done = queueCancel]
    <2>1. Stopped = {S(p) : p \in procs}
        BY Zenon DEF Stopped
    <2> HIDE DEF S
    <2>2. QED
        BY Zenon, <2>1 DEF OneProcessor
<1>4. procs # {} => Stopped # {}
    BY Zenon DEF Stopped
<1>5. QED
    BY Zenon, <1>2, <1>3, <1>4

\* The mutex is held exactly while a restart waits.
LEMMA WaitStep == TypeOK /\ WaitInv /\ [Next]_vars => WaitInv'
<1> SUFFICES ASSUME TypeOK, WaitInv, [Next]_vars PROVE WaitInv'
    OBVIOUS
<1> USE DEF WaitInv, queue
<1>1. ASSUME NEW p \in procs, ProcessorExit(p) PROVE WaitInv'
    BY Zenon, <1>1 DEF ProcessorExit
<1>2. ASSUME NEW c \in Configs, ApplyFeedConfig(c) PROVE WaitInv'
    BY Zenon, <1>2 DEF ApplyFeedConfig, TypeOK
<1>3. CASE RestartBegin
    BY <1>3 DEF RestartBegin, Idle
<1>4. CASE RestartReceive
    BY Zenon, <1>4 DEF RestartReceive, Idle
<1>5. CASE RestartTimeout
    BY Zenon, <1>5 DEF RestartTimeout, Idle
<1>6. ASSUME NEW k \in conts, ContinuationForward(k) PROVE WaitInv'
    BY Zenon, <1>6 DEF ContinuationForward
<1>7. ASSUME NEW k \in conts, ContinuationFinish(k) PROVE WaitInv'
    BY Zenon, <1>7 DEF ContinuationFinish, StartQueueProcessorLocked
<1>8. CASE Signal
    BY Zenon, <1>8 DEF Signal
<1>9. CASE StopAndWaitQueueProcessors
    BY Zenon, <1>9 DEF StopAndWaitQueueProcessors
<1>10. ASSUME NEW d \in shutdown.waits, ShutdownReceive(d) PROVE WaitInv'
    BY Zenon, <1>10 DEF ShutdownReceive
<1>11. CASE ShutdownDone
    BY Zenon, <1>11 DEF ShutdownDone
<1>12. CASE WaitTimeout
    BY Zenon, <1>12 DEF WaitTimeout
<1>13. CASE UNCHANGED vars
    BY Zenon, <1>13 DEF vars
<1>14. QED
    BY Zenon, <1>1, <1>2, <1>3, <1>4, <1>5, <1>6, <1>7, <1>8, <1>9, <1>10, <1>11, <1>12, <1>13
       DEF Next, Continuation, Ended

\* Channels in use have been made before.
LEMMA FreshStep == TypeOK /\ WaitInv /\ Fresh /\ [Next]_vars => Fresh'
<1> SUFFICES ASSUME TypeOK, WaitInv, Fresh, [Next]_vars PROVE Fresh'
    OBVIOUS
<1> USE DEF Fresh, queue
<1>a. chans \in Nat /\ chans + 1 > chans
    BY DEF TypeOK
<1>b. \A n \in Channel : n <= chans => n <= chans + 1
    BY <1>a DEF Channel
<1>c. /\ \A p \in procs : p.done \in Channel
      /\ \A d \in full : d \in Channel
      /\ \A k \in conts : k.forward \in Channel
      /\ apply.oldDone # None => apply.oldDone \in Channel
      /\ queueDone # None => queueDone \in Channel
      /\ queueCancel # None => queueCancel \in Channel
    BY Zenon DEF TypeOK
<1>d. Processor(chans + 1).done = chans + 1 /\ Idle.oldDone = None
    BY Zenon DEF Processor, Idle
<1>e. \A q \in Stopped : q.done <= chans /\ q.done \in Channel
    BY Zenon, <1>c, StoppedFacts
<1>1. ASSUME NEW p \in procs, ProcessorExit(p) PROVE Fresh'
    BY Zenon, <1>1 DEF ProcessorExit
<1>2. ASSUME NEW c \in Configs, ApplyFeedConfig(c) PROVE Fresh'
    <2>1. apply'.oldDone = apply.oldDone
        BY Zenon, <1>2 DEF ApplyFeedConfig, TypeOK
    <2>2. QED
        BY Zenon, <1>2, <2>1 DEF ApplyFeedConfig
<1>3. CASE RestartBegin
    <2>1. CASE queueDone = None
        BY <1>3, <2>1, <1>a, <1>b, <1>c, <1>d, <1>e
           DEF RestartBegin, StartQueueProcessorLocked
    <2>2. CASE queueDone # None
        BY <1>3, <2>2, <1>a, <1>b, <1>c, <1>d, <1>e DEF RestartBegin
    <2>3. QED
        BY Zenon, <2>1, <2>2
<1>4. CASE RestartReceive
    BY <1>4, <1>a, <1>b, <1>c, <1>d DEF RestartReceive, StartQueueProcessorLocked
<1>5. CASE RestartTimeout
    BY <1>5, <1>a, <1>b, <1>c, <1>d DEF RestartTimeout, WaitInv
<1>6. ASSUME NEW k \in conts, ContinuationForward(k) PROVE Fresh'
    <2>1. [k EXCEPT !.sent = TRUE].forward = k.forward
        BY Zenon DEF TypeOK
    <2>2. QED
        BY Zenon, <1>6, <2>1 DEF ContinuationForward
<1>7. ASSUME NEW k \in conts, ContinuationFinish(k) PROVE Fresh'
    BY <1>7, <1>a, <1>b, <1>c, <1>d DEF ContinuationFinish, StartQueueProcessorLocked
<1>8. CASE Signal
    BY Zenon, <1>8 DEF Signal
<1>9. CASE StopAndWaitQueueProcessors
    BY Zenon, <1>9, <1>e DEF StopAndWaitQueueProcessors
<1>10. ASSUME NEW d \in shutdown.waits, ShutdownReceive(d) PROVE Fresh'
    BY Zenon, <1>10 DEF ShutdownReceive
<1>11. CASE ShutdownDone
    BY Zenon, <1>11 DEF ShutdownDone
<1>12. CASE WaitTimeout
    BY Zenon, <1>12 DEF WaitTimeout
<1>13. CASE UNCHANGED vars
    BY Zenon, <1>13 DEF vars
<1>14. QED
    BY Zenon, <1>1, <1>2, <1>3, <1>4, <1>5, <1>6, <1>7, <1>8, <1>9, <1>10, <1>11, <1>12, <1>13
       DEF Next, Continuation, Ended

-----------------------------------------------------------------------------
\* Starting a processor when no exit is outstanding and every continuation has
\* forwarded re-establishes the chain; after the root context is cancelled
\* nothing is started, and nothing is awaited.
LEMMA StartKeeps ==
    ASSUME TypeOK, Fresh, Chain, UNCHANGED <<config, rootCancelled, shutdown>>,
           NEW dones, StartQueueProcessorLocked({}, dones), shutdown.pc = "run" => dones = {},
           full' = {}, conts' \subseteq conts, Unsent = {}, shutdown.waits = {}, apply'.pc # "wait",
           queueDeferred' # None => \E k \in conts' : k.forward = queueDeferred'
    PROVE  Chain'
<1>0. ContInv /\ ShutdownInv
    BY Zenon DEF Chain
<1>1. Cur' = queueDone' /\ Awaited' = {queueDone'} \ {None}
    BY Zenon DEF Cur, Awaited
<1>2. \A k \in conts' : k.forward # queueDone' /\ k.forward \notin Awaited'
    BY <1>1 DEF StartQueueProcessorLocked, Fresh, TypeOK, Channel
<1>3. Unsent' = {}
    BY Zenon DEF Unsent
<1>4. ContInv'
    BY Zenon, <1>0, <1>1, <1>2, <1>3 DEF ContInv
<1>5. CASE rootCancelled \/ config \notin Enabled
    <2>1. procs' = {} /\ queueDone' = None /\ queueDones' = dones
        BY Zenon, <1>5 DEF StartQueueProcessorLocked
    <2>2. TokenInv' /\ OneProcessor'
        BY Zenon, <1>1, <1>3, <2>1 DEF TokenInv, OneProcessor
    <2>3. ShutdownInv'
        BY Zenon, <1>0, <1>1, <2>1 DEF ShutdownInv
    <2>4. rootCancelled' \/ SettledInv'
        BY Zenon, <1>5, <2>1 DEF SettledInv
    <2>5. QED
        BY Zenon, <1>4, <2>2, <2>3, <2>4 DEF Chain
<1>6. CASE ~rootCancelled /\ config \in Enabled
    <2>1. procs' = {Processor(chans + 1)} /\ queueDone' = chans + 1 /\ queueDones' = dones \cup {chans + 1}
        BY Zenon, <1>6 DEF StartQueueProcessorLocked
    <2>2. /\ Processor(chans + 1).done = chans + 1
          /\ Processor(chans + 1).config = config
          /\ ~Processor(chans + 1).cancelled
        BY Zenon DEF Processor
    <2>3. chans + 1 # None
        BY DEF TypeOK
    <2>4. TokenInv'
        BY Zenon, <1>1, <1>3, <2>1, <2>2, <2>3 DEF TokenInv, Leads
    <2>5. SettledInv' /\ OneProcessor'
        BY Zenon, <1>6, <2>1, <2>2, <2>3 DEF SettledInv, OneProcessor
    <2>6. ShutdownInv'
        BY Zenon, <1>0, <1>1, <1>6, <2>1, <2>3 DEF ShutdownInv
    <2>7. QED
        BY Zenon, <1>4, <2>4, <2>5, <2>6 DEF Chain
<1>7. QED
    BY Zenon, <1>5, <1>6

\* Steps that leave the processors and the channels of a restart alone.
LEMMA NothingMoved ==
    ASSUME Chain, UNCHANGED <<config, procs, full, queueDone, queueDones, queueDeferred, conts>>,
           UNCHANGED <<apply, shutdown>>, rootCancelled => rootCancelled'
    PROVE  Chain'
<1>1. UNCHANGED <<Cur, Awaited, Unsent, Leads>>
    BY Zenon DEF Cur, Awaited, Unsent, Leads
<1>2. ContInv' /\ TokenInv' /\ ShutdownInv' /\ OneProcessor'
    BY Zenon, <1>1 DEF Chain, ContInv, TokenInv, ShutdownInv, OneProcessor
<1>3. SettledInv => SettledInv'
    BY Zenon DEF SettledInv
<1>4. QED
    BY Zenon, <1>2, <1>3 DEF Chain

\* Every step keeps the chain.
LEMMA ChainStep ==
    ASSUME IInv, [Next]_vars
    PROVE  Chain'
<1> USE DEF queue
<1>a. /\ TypeOK /\ WaitInv /\ Fresh /\ OneProcessor /\ ContInv /\ TokenInv /\ ShutdownInv
      /\ Chain /\ (rootCancelled \/ SettledInv)
    BY Zenon DEF IInv, Chain
<1>b. /\ \A p \in procs : p.done \in Channel
      /\ \A d \in full : d \in Channel
      /\ \A k \in conts : k.forward \in Channel /\ k.old \in Channel
      /\ None \notin Channel
    BY Zenon, <1>a DEF TypeOK, Channel
<1>c. ASSUME NEW d \in Awaited, d \in full PROVE procs = {} /\ full = {d} /\ Unsent = {} /\ Awaited = {d}
    <2>1. procs = {} /\ Awaited = {d}
        BY Zenon, <1>a, <1>c DEF TokenInv
    <2>2. Unsent = {}
        <3>1. ASSUME NEW k \in Unsent PROVE FALSE
            <4>1. k.forward = d /\ k.old = d /\ k \in conts
                BY Zenon, <1>a, <1>c, <2>1, <3>1 DEF TokenInv, Leads, ContInv, Unsent
            <4>2. k.old < k.forward /\ k.old \in Nat
                BY Zenon, <1>a, <1>b, <4>1 DEF ContInv, Channel
            <4>3. QED
                BY <4>1, <4>2
        <3>2. QED
            BY Zenon, <3>1
    <2>3. QED
        BY Zenon, <1>a, <1>c, <2>1, <2>2 DEF TokenInv, Leads
<1>d. Cur # None => Awaited = {Cur} /\ shutdown.waits = {} /\ shutdown.pc \notin {"wait", "done"}
    BY Zenon, <1>a DEF ShutdownInv, Awaited
<1>e. Cur = None => Awaited = shutdown.waits
    BY Zenon DEF Awaited
<1>1. ASSUME NEW p \in procs, ProcessorExit(p) PROVE Chain'
    <2>1. procs' = {} /\ full' = {p.done} /\ (p.cancelled \/ rootCancelled)
        BY Zenon, <1>1, <1>a DEF ProcessorExit, OneProcessor, TokenInv
    <2>2. UNCHANGED <<config, rootCancelled, queueDone, queueDones, queueDeferred, conts, apply, shutdown>>
        BY Zenon, <1>1 DEF ProcessorExit
    <2>3. UNCHANGED <<Cur, Awaited, Unsent, Leads>>
        BY Zenon, <2>2 DEF Cur, Awaited, Unsent, Leads
    <2>4. ContInv'
        <3>1. full = {}
            BY Zenon, <1>a DEF TokenInv
        <3>2. QED
            BY Zenon, <1>a, <2>2, <2>3, <3>1 DEF ContInv
    <2>5. TokenInv'
        BY Zenon, <1>a, <2>1, <2>3 DEF TokenInv
    <2>6. rootCancelled' \/ SettledInv'
        BY Zenon, <1>a, <2>1, <2>2 DEF SettledInv, OneProcessor
    <2>7. ShutdownInv' /\ OneProcessor'
        BY Zenon, <1>a, <2>1, <2>2, <2>3 DEF ShutdownInv, OneProcessor
    <2>8. QED
        BY Zenon, <2>4, <2>5, <2>6, <2>7 DEF Chain
<1>2. ASSUME NEW c \in Configs, ApplyFeedConfig(c) PROVE Chain'
    <2>1. apply'.pc = "restart" /\ apply.pc = "idle"
        BY Zenon, <1>2, <1>a DEF ApplyFeedConfig, TypeOK
    <2>2. UNCHANGED <<rootCancelled, procs, full, queueDone, queueDones, queueDeferred, conts, shutdown>>
        BY Zenon, <1>2 DEF ApplyFeedConfig
    <2>3. UNCHANGED <<Cur, Awaited, Unsent, Leads>>
        BY Zenon, <2>1, <2>2 DEF Cur, Awaited, Unsent, Leads
    <2>4. ContInv' /\ TokenInv' /\ ShutdownInv' /\ OneProcessor'
        BY Zenon, <1>a, <2>2, <2>3 DEF ContInv, TokenInv, ShutdownInv, OneProcessor
    <2>5. SettledInv'
        BY Zenon, <2>1 DEF SettledInv
    <2>6. QED
        BY Zenon, <2>4, <2>5 DEF Chain
<1>3. CASE RestartBegin
    <2>1. CASE queueDone = None
        <3>1. Cur = None /\ apply.pc = "restart"
            BY Zenon, <1>3, <2>1 DEF RestartBegin, Cur
        <3>2. apply' = Idle /\ Idle.pc = "idle"
            BY Zenon, <1>3, <2>1 DEF RestartBegin, Idle
        <3>3. UNCHANGED <<config, rootCancelled, full, queueDeferred, conts, shutdown>>
            BY Zenon, <1>3, <2>1 DEF RestartBegin
        <3>4. StartQueueProcessorLocked(Stopped, queueDones)
            BY Zenon, <1>3, <2>1 DEF RestartBegin
        <3>5. CASE rootCancelled
            <4>1. procs' = Stopped /\ queueDone' = None /\ queueDones' = queueDones
                BY Zenon, <3>4, <3>5 DEF StartQueueProcessorLocked
            <4>2. UNCHANGED <<Cur, Awaited, Unsent, Leads>>
                BY Zenon, <3>1, <3>2, <3>3, <4>1 DEF Cur, Awaited, Unsent, Leads
            <4>3. ContInv' /\ ShutdownInv'
                BY Zenon, <1>a, <3>3, <4>1, <4>2 DEF ContInv, ShutdownInv
            <4>4. TokenInv' /\ OneProcessor'
                BY Zenon, <1>a, <3>3, <4>1, <4>2, StoppedFacts DEF TokenInv, OneProcessor
            <4>5. QED
                BY Zenon, <3>3, <3>5, <4>3, <4>4 DEF Chain
        <3>6. CASE ~rootCancelled
            <4>1. shutdown.pc = "run" /\ shutdown.waits = {} /\ queueDones = {}
                BY Zenon, <1>a, <3>1, <3>6 DEF ShutdownInv
            <4>2. procs = {} /\ full = {} /\ Unsent = {}
                BY Zenon, <1>a, <1>e, <3>1, <4>1 DEF TokenInv, Leads, ContInv
            <4>3. Stopped = {}
                BY Zenon, <4>2 DEF Stopped
            <4>4. queueDeferred' # None => \E k \in conts' : k.forward = queueDeferred'
                BY Zenon, <1>a, <3>3 DEF ContInv
            <4>5. QED
                BY Zenon, <1>a, <3>2, <3>3, <3>4, <4>1, <4>2, <4>3, <4>4, StartKeeps
        <3>7. QED
            BY Zenon, <3>5, <3>6
    <2>2. CASE queueDone # None
        <3>1. /\ apply'.pc = "wait" /\ Cur' = queueDone /\ Cur = queueDone
              /\ procs' = Stopped
              /\ UNCHANGED <<config, rootCancelled, full, queueDones, queueDeferred, conts, shutdown>>
            BY <1>3, <2>2 DEF RestartBegin, Cur
        <3>2. UNCHANGED <<Cur, Awaited, Unsent, Leads>>
            BY Zenon, <3>1 DEF Awaited, Unsent, Leads
        <3>3. ContInv' /\ ShutdownInv'
            BY Zenon, <1>a, <3>1, <3>2 DEF ContInv, ShutdownInv
        <3>4. TokenInv'
            BY Zenon, <1>a, <3>1, <3>2, StoppedFacts DEF TokenInv
        <3>5. OneProcessor' /\ SettledInv'
            BY Zenon, <1>a, <3>1, StoppedFacts DEF SettledInv, OneProcessor
        <3>6. QED
            BY Zenon, <3>3, <3>4, <3>5 DEF Chain
    <2>3. QED
        BY Zenon, <2>1, <2>2
<1>4. CASE RestartReceive
    <2>1. Cur = apply.oldDone /\ Cur \in full /\ Cur # None
        BY Zenon, <1>4, <1>a DEF RestartReceive, Cur, WaitInv
    <2>2. procs = {} /\ full = {Cur} /\ Unsent = {}
        BY Zenon, <1>c, <1>d, <2>1
    <2>3. full' = {} /\ apply'.pc # "wait"
        BY Zenon, <1>4, <2>1, <2>2 DEF RestartReceive, Idle
    <2>4. StartQueueProcessorLocked({}, queueDones \ {Cur})
        BY Zenon, <1>4, <2>1, <2>2 DEF RestartReceive
    <2>5. queueDeferred' # None => \E k \in conts' : k.forward = queueDeferred'
        BY Zenon, <1>4, <1>a DEF RestartReceive, ContInv
    <2>6. shutdown.pc = "run" => queueDones \ {Cur} = {}
        BY Zenon, <1>a DEF ShutdownInv
    <2>7. UNCHANGED <<config, rootCancelled, conts, shutdown>>
        BY Zenon, <1>4 DEF RestartReceive
    <2>8. QED
        BY Zenon, <1>a, <1>d, <2>1, <2>2, <2>3, <2>4, <2>5, <2>6, <2>7, StartKeeps
<1>5. CASE RestartTimeout
    <2>1. Cur = apply.oldDone /\ Cur # None /\ Idle.pc = "idle" /\ apply' = Idle
        BY Zenon, <1>5, <1>a DEF RestartTimeout, Cur, WaitInv, Idle
    <2>2. CASE queueDeferred = apply.oldDone
        <3>1. /\ Cur' = Cur /\ queueDone' = Cur
              /\ UNCHANGED <<config, rootCancelled, procs, full, queueDones, queueDeferred, conts, shutdown>>
            BY Zenon, <1>5, <2>1, <2>2 DEF RestartTimeout, Cur
        <3>2. UNCHANGED <<Awaited, Unsent, Leads>>
            BY Zenon, <3>1 DEF Awaited, Unsent, Leads
        <3>3. ContInv' /\ TokenInv' /\ ShutdownInv' /\ OneProcessor'
            BY Zenon, <1>a, <3>1, <3>2 DEF ContInv, TokenInv, ShutdownInv, OneProcessor
        <3>4. \E k \in conts' : k.forward = queueDone'
            BY Zenon, <1>a, <2>1, <2>2, <3>1 DEF ContInv
        <3>5. SettledInv'
            BY Zenon, <2>1, <3>1, <3>4 DEF SettledInv
        <3>6. QED
            BY Zenon, <3>3, <3>5 DEF Chain
    <2>3. CASE queueDeferred # apply.oldDone
        <3> DEFINE new == [old |-> apply.oldDone, forward |-> chans + 1, sent |-> FALSE]
        <3>1. /\ Cur' = chans + 1 /\ queueDone' = chans + 1 /\ queueDeferred' = chans + 1
              /\ conts' = conts \cup {new} /\ queueDones' = (queueDones \ {Cur}) \cup {chans + 1}
              /\ UNCHANGED <<config, rootCancelled, procs, full, shutdown>>
            BY Zenon, <1>5, <2>1, <2>3 DEF RestartTimeout, Cur
        <3>2. Unsent = {} /\ Awaited = {Cur} /\ Leads = {Cur}
            BY Zenon, <1>a, <1>d, <2>1, <2>3 DEF ContInv, Unsent, Leads
        <3>3. new.old = Cur /\ new.forward = chans + 1 /\ ~new.sent
            BY Zenon, <2>1
        <3> HIDE DEF new
        <3>4. Unsent' = {new}
            BY Zenon, <3>1, <3>2, <3>3 DEF Unsent
        <3>5. \A k \in conts : k.forward # chans + 1
            BY <1>a, <1>b DEF Fresh, Channel, TypeOK
        <3>6. Cur < chans + 1 /\ chans + 1 # None
            BY SMTT(60), <1>a, <2>1 DEF Fresh, TypeOK, Channel
        <3>7. Awaited' = {chans + 1} /\ Leads' = {Cur}
            BY Zenon, <1>d, <2>1, <3>1, <3>3, <3>4, <3>6 DEF Awaited, Leads
        <3>8. ContInv'
            BY Zenon, <1>a, <3>1, <3>3, <3>4, <3>5, <3>6, <3>7 DEF ContInv
        <3>9. TokenInv'
            BY Zenon, <1>a, <3>1, <3>2, <3>7 DEF TokenInv
        <3>10. SettledInv' /\ OneProcessor'
            BY Zenon, <1>a, <2>1, <3>1, <3>3, <3>6 DEF SettledInv, OneProcessor
        <3>11. ShutdownInv'
            BY Zenon, <1>a, <1>d, <2>1, <3>1, <3>6 DEF ShutdownInv
        <3>12. QED
            BY Zenon, <3>8, <3>9, <3>10, <3>11 DEF Chain
    <2>4. QED
        BY Zenon, <2>2, <2>3
<1>6. ASSUME NEW k \in conts, ContinuationForward(k) PROVE Chain'
    <2> DEFINE s == [k EXCEPT !.sent = TRUE]
    <2>1. s.forward = k.forward /\ s.old = k.old /\ s.sent
        BY Zenon, <1>a DEF TypeOK
    <2>2. k \in Unsent /\ k.forward \in Awaited /\ k.old \in full
        BY Zenon, <1>6, <1>a DEF ContinuationForward, Unsent, ContInv
    <2>3. Unsent = {k} /\ Leads = {k.old} /\ Awaited = {k.forward}
        BY Zenon, <1>a, <2>2 DEF ContInv, Leads, TokenInv
    <2>4. procs = {} /\ full = {k.old}
        BY Zenon, <1>a, <2>2, <2>3 DEF TokenInv
    <2> HIDE DEF s
    <2>5. /\ full' = {k.forward} /\ conts' = (conts \ {k}) \cup {s}
          /\ UNCHANGED <<config, rootCancelled, procs, queueDone, queueDones, queueDeferred, apply, shutdown>>
        BY Zenon, <1>6, <2>4 DEF ContinuationForward, s
    <2>6. Unsent' = {} /\ Cur' = Cur /\ Awaited' = Awaited /\ Leads' = Awaited
        BY SMTT(60), <2>1, <2>3, <2>5 DEF Unsent, Cur, Awaited, Leads
    <2>7. ContInv'
        BY Zenon, <1>a, <2>1, <2>2, <2>3, <2>5, <2>6 DEF ContInv
    <2>8. TokenInv' /\ ShutdownInv' /\ OneProcessor'
        BY Zenon, <1>a, <2>3, <2>4, <2>5, <2>6 DEF TokenInv, ShutdownInv, OneProcessor
    <2>9. rootCancelled' \/ SettledInv'
        <3>1. (\A l \in conts' : l.forward # queueDone') => \A l \in conts : l.forward # queueDone
            BY Zenon, <2>1, <2>5
        <3>2. QED
            BY Zenon, <1>a, <2>5, <3>1 DEF SettledInv
    <2>10. QED
        BY Zenon, <2>7, <2>8, <2>9 DEF Chain
<1>7. ASSUME NEW k \in conts, ContinuationFinish(k) PROVE Chain'
    <2>1. Cur = queueDone /\ Cur' = queueDone' /\ apply'.pc # "wait" /\ k.sent
        BY Zenon, <1>7, <1>a DEF ContinuationFinish, Cur, WaitInv
    <2>2. queueDeferred' # None => \E l \in conts' : l.forward = queueDeferred'
        BY Zenon, <1>7, <1>a DEF ContinuationFinish, ContInv
    <2>3. CASE queueDone = k.forward
        <3>1. Cur \in full /\ Cur # None /\ full' = full \ {Cur} /\ conts' \subseteq conts
            BY Zenon, <1>7, <1>b, <2>1, <2>3 DEF ContinuationFinish
        <3>2. procs = {} /\ full' = {} /\ Unsent = {}
            BY Zenon, <1>c, <1>d, <3>1
        <3>3. StartQueueProcessorLocked({}, queueDones \ {Cur})
            BY Zenon, <1>7, <2>1, <2>3, <3>2 DEF ContinuationFinish
        <3>4. shutdown.pc = "run" => queueDones \ {Cur} = {}
            BY Zenon, <1>a DEF ShutdownInv
        <3>5. UNCHANGED <<config, rootCancelled, shutdown>>
            BY Zenon, <1>7 DEF ContinuationFinish
        <3>6. QED
            BY Zenon, <1>a, <1>d, <2>1, <2>2, <3>1, <3>2, <3>3, <3>4, <3>5, StartKeeps
    <2>4. CASE queueDone # k.forward
        <3>1. /\ conts' = conts \ {k}
              /\ UNCHANGED <<config, rootCancelled, full, procs, queueDone, queueDones, apply, shutdown>>
            BY Zenon, <1>7, <2>4 DEF ContinuationFinish
        <3>a. Unsent' = Unsent
            BY Zenon, <2>1, <3>1 DEF Unsent
        <3>b. Cur' = Cur /\ Awaited' = Awaited
            BY Zenon, <2>1, <3>1 DEF Awaited
        <3>2. UNCHANGED <<Cur, Awaited, Unsent, Leads>>
            BY Zenon, <3>a, <3>b DEF Leads
        <3>3. ContInv'
            BY Zenon, <1>7, <1>a, <2>1, <2>2, <2>4, <3>1, <3>2 DEF ContinuationFinish, ContInv
        <3>4. TokenInv' /\ ShutdownInv' /\ OneProcessor'
            BY Zenon, <1>a, <3>1, <3>2 DEF TokenInv, ShutdownInv, OneProcessor
        <3>5. rootCancelled' \/ SettledInv'
            BY Zenon, <1>a, <2>4, <3>1 DEF SettledInv
        <3>6. QED
            BY Zenon, <3>3, <3>4, <3>5 DEF Chain
    <2>5. QED
        BY Zenon, <2>3, <2>4
<1>8. CASE Signal
    BY Zenon, <1>8, <1>a, NothingMoved DEF Signal
<1>9. CASE StopAndWaitQueueProcessors
    <2>1. Cur = queueDone /\ Cur' = None /\ shutdown.pc = "run" /\ rootCancelled
        BY Zenon, <1>9, <1>a DEF StopAndWaitQueueProcessors, Cur, WaitInv
    <2>2. /\ shutdown'.pc = "wait" /\ shutdown'.waits = queueDones /\ procs' = Stopped
          /\ UNCHANGED <<config, rootCancelled, full, queueDones, queueDeferred, conts>>
        BY Zenon, <1>9 DEF StopAndWaitQueueProcessors
    <2>3. Awaited' = Awaited /\ Unsent' = Unsent /\ Leads' = Leads
        BY Zenon, <1>a, <2>1, <2>2 DEF ShutdownInv, Awaited, Unsent, Leads
    <2>4. ContInv'
        BY Zenon, <1>a, <1>b, <2>1, <2>2, <2>3 DEF ContInv
    <2>5. TokenInv' /\ OneProcessor'
        BY Zenon, <1>a, <2>2, <2>3, StoppedFacts DEF TokenInv, OneProcessor
    <2>6. ShutdownInv'
        BY Zenon, <2>1, <2>2 DEF ShutdownInv
    <2>7. QED
        BY Zenon, <2>1, <2>2, <2>4, <2>5, <2>6 DEF Chain
<1>10. ASSUME NEW d \in shutdown.waits, ShutdownReceive(d) PROVE Chain'
    <2>1. d \in Awaited /\ d \in full
        BY Zenon, <1>10 DEF ShutdownReceive, Awaited
    <2>2. procs = {} /\ full = {d} /\ Unsent = {} /\ Awaited = {d} /\ Cur = None /\ rootCancelled
        BY Zenon, <1>a, <1>c, <1>10, <2>1 DEF ShutdownInv, ShutdownReceive
    <2>3. /\ full' = {} /\ shutdown'.waits = shutdown.waits \ {d} /\ shutdown'.pc = "wait"
          /\ UNCHANGED <<rootCancelled, procs, queueDone, queueDones, queueDeferred, conts, apply>>
        BY Zenon, <1>10, <1>a, <2>2 DEF ShutdownReceive, TypeOK
    <2>4. Cur' = None /\ Unsent' = {} /\ Awaited' = {}
        BY Zenon, <2>2, <2>3 DEF Cur, Unsent, Awaited
    <2>5. ContInv'
        BY Zenon, <1>a, <1>b, <2>3, <2>4 DEF ContInv
    <2>6. TokenInv' /\ OneProcessor' /\ ShutdownInv'
        BY Zenon, <2>2, <2>3, <2>4 DEF TokenInv, Leads, OneProcessor, ShutdownInv
    <2>7. QED
        BY Zenon, <2>2, <2>3, <2>5, <2>6 DEF Chain
<1>11. ASSUME ShutdownDone \/ WaitTimeout PROVE Chain'
    <2>1. /\ shutdown'.waits = shutdown.waits /\ shutdown'.pc \in {"done", "abandoned"} /\ rootCancelled
          /\ UNCHANGED <<config, rootCancelled, procs, full, queueDone, queueDones, queueDeferred, conts, apply>>
          /\ shutdown'.pc = "done" => shutdown.waits = {} /\ shutdown.pc = "wait"
        BY Zenon, <1>11, <1>a DEF ShutdownDone, WaitTimeout, TypeOK, ShutdownInv
    <2>2. UNCHANGED <<Cur, Awaited, Unsent, Leads>>
        BY Zenon, <2>1 DEF Cur, Awaited, Unsent, Leads
    <2>3. ContInv' /\ TokenInv' /\ OneProcessor'
        BY Zenon, <1>a, <2>1, <2>2 DEF ContInv, TokenInv, OneProcessor
    <2>4. ShutdownInv'
        BY Zenon, <1>a, <2>1, <2>2 DEF ShutdownInv
    <2>5. QED
        BY Zenon, <2>1, <2>3, <2>4 DEF Chain
<1>12. CASE UNCHANGED vars
    BY Zenon, <1>12, <1>a, NothingMoved DEF vars
<1>13. QED
    BY Zenon, <1>1, <1>2, <1>3, <1>4, <1>5, <1>6, <1>7, <1>8, <1>9, <1>10, <1>11, <1>12
       DEF Next, Continuation, Ended

-----------------------------------------------------------------------------
\* IInv is an inductive invariant.
LEMMA InvInit == Init => IInv
<1> SUFFICES ASSUME Init PROVE IInv
    BY Zenon
<1>1. /\ Processor(1) = [done |-> 1, config |-> config, cancelled |-> FALSE]
      /\ Idle.pc = "idle" /\ Idle.oldDone = None /\ apply = Idle
      /\ procs = {Processor(1)} /\ queueDone = 1 /\ conts = {} /\ full = {} /\ chans = 1
      /\ config \in Enabled /\ 1 # None
    BY DEF Init, Processor, Idle
<1>2. TypeOK
    <2>0. 1 \in Channel
        BY DEF Channel
    <2>1. Processor(1) \in [done : Channel, config : Enabled, cancelled : BOOLEAN]
        <3>1. [done |-> 1, config |-> config, cancelled |-> FALSE]
                \in [done : Channel, config : Enabled, cancelled : BOOLEAN]
            BY Zenon, <1>1, <2>0
        <3>2. QED
            BY Zenon, <1>1, <3>1
    <2>2. apply \in [pc : {"idle", "restart", "wait"}, oldDone : Channel \cup {None}]
        BY Zenon, <1>1 DEF Idle
    <2>3. shutdown \in [pc : {"run", "wait", "done", "abandoned"}, waits : SUBSET Channel]
        BY Zenon DEF Init
    <2>4. procs \subseteq [done : Channel, config : Enabled, cancelled : BOOLEAN]
        BY Zenon, <1>1, <2>1
    <2>5. config \in Configs /\ applies \in 0..MaxApplies /\ queueDones \subseteq Channel
        BY <2>0 DEF Init
    <2>6. /\ rootCancelled \in BOOLEAN /\ held \in BOOLEAN /\ chans \in Nat
          /\ full \subseteq Channel /\ conts \subseteq [old : Channel, forward : Channel, sent : BOOLEAN]
        BY Zenon DEF Init
    <2>7. /\ queueCancel \in Channel \cup {None} /\ queueDone \in Channel \cup {None}
          /\ queueDeferred \in Channel \cup {None}
        BY Zenon, <2>0 DEF Init
    <2>8. QED
        BY Zenon, <2>2, <2>3, <2>4, <2>5, <2>6, <2>7 DEF TypeOK
<1>3. WaitInv /\ Fresh /\ OneProcessor
    BY <1>1 DEF Init, WaitInv, Fresh, OneProcessor
<1>4. Cur = 1 /\ Unsent = {} /\ Awaited = {1} /\ Leads = {1}
    BY Zenon, <1>1 DEF Init, Cur, Unsent, Awaited, Leads
<1>5. ContInv /\ TokenInv /\ SettledInv /\ ShutdownInv
    BY <1>1, <1>4 DEF Init, ContInv, TokenInv, SettledInv, ShutdownInv
<1>6. QED
    BY Zenon, <1>2, <1>3, <1>5 DEF IInv, Chain

LEMMA InvStep == IInv /\ [Next]_vars => IInv'
BY Zenon, TypeStep, WaitStep, FreshStep, ChainStep DEF IInv

LEMMA Invariant == Spec => []IInv
<1>1. QED
    BY InvInit, InvStep, PTL DEF Spec

\* The variables keep their types for any settings and number of changes.
THEOREM TypeCorrect == Spec => []TypeOK
<1>1. IInv => TypeOK
    BY Zenon DEF IInv
<1>2. QED
    BY <1>1, Invariant, PTL

\* Restarts, continuations and shutdown never let two processors run at once.
THEOREM NeverTwoProcessors == Spec => []OneProcessor
<1>1. IInv => OneProcessor
    BY Zenon DEF IInv, Chain
<1>2. QED
    BY <1>1, Invariant, PTL

\* A settled server runs the processor of the settings saved last, and none
\* when those settings need none.
THEOREM SettlesOnCurrentSettings == Spec => []SettledOnCurrentSettings
<1>1. IInv => SettledOnCurrentSettings
    <2> SUFFICES ASSUME IInv, apply.pc = "idle", conts = {}, ~rootCancelled
                 PROVE {<<p.config, p.cancelled>> : p \in procs} = {<<c, FALSE>> : c \in Enabled \cap {config}}
        BY Zenon DEF SettledOnCurrentSettings
    <2>1. OneProcessor /\ TokenInv /\ ShutdownInv /\ SettledInv /\ TypeOK
        BY Zenon DEF IInv, Chain
    <2>2. Cur = queueDone /\ Unsent = {}
        BY Zenon DEF Cur, Unsent
    <2>3. CASE queueDone = None
        <3>1. procs = {}
            BY Zenon, <2>1, <2>2, <2>3 DEF TokenInv, ShutdownInv, Leads, Awaited
        <3>2. config \notin Enabled
            BY Zenon, <2>1, <2>3 DEF SettledInv
        <3>3. QED
            BY Zenon, <3>1, <3>2
    <2>4. CASE queueDone # None
        <3>1. PICK p \in procs : p.config = config /\ ~p.cancelled
            BY Zenon, <2>1, <2>4 DEF SettledInv
        <3>2. procs = {p}
            BY Zenon, <2>1 DEF OneProcessor
        <3>3. p.cancelled = FALSE /\ p.config \in Enabled
            BY Zenon, <2>1, <3>1 DEF TypeOK
        <3>4. QED
            BY Zenon, <3>1, <3>2, <3>3
    <2>5. QED
        BY Zenon, <2>3, <2>4
<1>2. QED
    BY <1>1, Invariant, PTL

\* When shutdown has ended no processor is left, also none that a restart gave up
\* waiting for, and neither a continuation with queueMu held nor shutdown waits
\* for an exit result that another goroutine has taken.
THEOREM EveryExitAwaited == Spec => []ExitsAwaited
<1>1. IInv => ExitsAwaited
    <2> SUFFICES ASSUME IInv PROVE ExitsAwaited
        OBVIOUS
    <2>1. ContInv /\ TokenInv /\ ShutdownInv /\ TypeOK /\ WaitInv
        BY Zenon DEF IInv, Chain
    <2>2. ShutdownAwaitsAll
        <3>1. ASSUME shutdown.pc = "done" PROVE procs = {}
            <4>1. Awaited = {}
                BY Zenon, <2>1, <3>1 DEF ShutdownInv, Awaited
            <4>2. QED
                BY Zenon, <2>1, <4>1 DEF TokenInv, ContInv, Leads
        <3>2. QED
            BY Zenon, <3>1 DEF ShutdownAwaitsAll
    <2>3. \A k \in conts : (k.sent /\ queueDone = k.forward) => k.forward \in full
        <3>1. ASSUME NEW k \in conts, k.sent, queueDone = k.forward PROVE k.forward \in full
            <4>1. queueDone # None
                BY Zenon, <2>1, <3>1 DEF TypeOK, Channel
            <4>2. Cur = queueDone
                BY Zenon, <2>1, <4>1 DEF Cur, WaitInv
            <4>3. QED
                BY Zenon, <2>1, <3>1, <4>1, <4>2 DEF ContInv, Awaited
        <3>2. QED
            BY Zenon, <3>1
    <2>4. ASSUME NEW d \in shutdown.waits
          PROVE  d \in full \/ (\E p \in procs : p.done = d) \/ (\E k \in conts : k.forward = d /\ ~k.sent)
        <3>1. Awaited = {d}
            BY Zenon, <2>1 DEF TokenInv, Awaited
        <3>2. CASE Unsent = {}
            BY Zenon, <2>1, <3>1, <3>2 DEF TokenInv, Leads
        <3>3. CASE Unsent # {}
            BY Zenon, <2>1, <3>1, <3>3 DEF ContInv, Unsent
        <3>4. QED
            BY Zenon, <3>2, <3>3
    <2>5. QED
        BY Zenon, <2>2, <2>3, <2>4 DEF ExitsAwaited, ExitResultAwaited
<1>2. QED
    BY <1>1, Invariant, PTL
=============================================================================
