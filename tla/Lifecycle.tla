------------------------------ MODULE Lifecycle -----------------------------
(***************************************************************************)
(* The life of a receiver: the factory's table of shared instances         *)
(* (factory.go), Start and Shutdown with their sync.Once (receiver.go),    *)
(* and the flushing of the two builders by the dispatch loop and by        *)
(* Shutdown.                                                               *)
(*                                                                         *)
(* External: the Collector.  For one receiver ID it creates a receiver per *)
(* signal, starts each, and shuts each down, one call at a time; on a      *)
(* configuration reload it does so again in the same process.              *)
(***************************************************************************)
EXTENDS Integers, Sequences, FiniteSets

CONSTANTS
    Pipelines,        \* signals whose pipelines use the receiver
    Enabled,          \* signals enabled in its configuration (Metrics.Enabled, Logs.Enabled)
    MaxGenerations,   \* bound: configurations the Collector loads
    MaxItems          \* bound: items appended to the builders

Signals == {"metrics", "logs"}

ASSUME SignalsAssumption ==
    /\ Pipelines \subseteq Signals /\ Pipelines # {}
    /\ Enabled \subseteq Signals /\ Enabled # {}       \* Config.Validate
    /\ MaxGenerations \in Nat \ {0} /\ MaxItems \in Nat

VARIABLES
    receivers,    \* every canopenReceiver ever made
    shared,       \* sharedReceivers[ID]: its index, 0 when absent
    \* external: the Collector
    generation, phase, pipeline, started, stopped,
    \* the doShutdown in progress
    stopping,
    \* history: quiet has the instances of which a Shutdown has returned nil,
    \* expired those whose doShutdown has returned the context's error
    items, consumed, quiet, expired

collector == <<generation, phase, pipeline, started, stopped>>
vars == <<receivers, shared, collector, stopping, items, consumed, quiet, expired>>

Receiver == [cfg : 1 .. MaxGenerations, startOnce : BOOLEAN, startErr : BOOLEAN, shutdownOnce : BOOLEAN,
             conn : {"none", "open", "closed"}, cancelled : BOOLEAN,
             loop : {"none", "recv", "metrics", "logs", "done"}, poller : {"none", "running", "done"},
             consumers : SUBSET Signals, builder : [Signals -> Seq({"frame", "poll"})]]

\* Mutant: the builders are not created.
newReceiverWithoutBuilders(cfg) ==
    [cfg |-> cfg, startOnce |-> FALSE, startErr |-> FALSE, shutdownOnce |-> FALSE,
     conn |-> "none", cancelled |-> FALSE, loop |-> "none", poller |-> "none",
     consumers |-> {}, builder |-> << >>]

newCanopenReceiver(cfg) ==
    [cfg |-> cfg, startOnce |-> FALSE, startErr |-> FALSE, shutdownOnce |-> FALSE,
     conn |-> "none", cancelled |-> FALSE, loop |-> "none", poller |-> "none",
     consumers |-> {}, builder |-> [s \in Signals |-> << >>]]

NotStopping == [receiver |-> 0]

TypeOK ==
    /\ receivers \in Seq(Receiver) /\ shared \in 0 .. Len(receivers)
    /\ generation \in 1 .. MaxGenerations /\ phase \in {"build", "start", "run", "stop"}
    /\ pipeline \in [Pipelines -> 0 .. Len(receivers)]
    /\ started \subseteq Pipelines /\ stopped \subseteq Pipelines
    /\ stopping \in {NotStopping} \cup
         [receiver : 1 .. Len(receivers), signal : Pipelines, step : {"cancel", "close", "wait", "metrics", "logs"}]
    /\ items \in 0 .. MaxItems /\ consumed \in Nat
    /\ quiet \subseteq 1 .. Len(receivers) /\ expired \subseteq 1 .. Len(receivers)

Init ==
    /\ receivers = << >> /\ shared = 0
    /\ generation = 1 /\ phase = "build" /\ pipeline = [s \in Pipelines |-> 0]
    /\ started = {} /\ stopped = {}
    /\ stopping = NotStopping
    /\ items = 0 /\ consumed = 0 /\ quiet = {} /\ expired = {}

-----------------------------------------------------------------------------
(* The factory.                                                            *)

\* Mutant: a new instance for every signal.
alwaysCreate(cfg) ==
    [all |-> Append(receivers, newCanopenReceiver(cfg)), index |-> Len(receivers) + 1]

getOrCreateReceiver(cfg) ==
    IF shared # 0 THEN [all |-> receivers, index |-> shared]
    ELSE [all |-> Append(receivers, newCanopenReceiver(cfg)), index |-> Len(receivers) + 1]

\* createMetricsReceiver and createLogsReceiver
Create(s) ==
    LET got == getOrCreateReceiver(generation)
    IN  /\ phase = "build" /\ pipeline[s] = 0
        /\ receivers' = [got.all EXCEPT ![got.index].consumers = @ \cup {s}]
        /\ shared' = got.index
        /\ pipeline' = [pipeline EXCEPT ![s] = got.index]
        /\ phase' = IF \A p \in Pipelines \ {s} : pipeline[p] # 0 THEN "start" ELSE "build"
        /\ UNCHANGED <<generation, started, stopped, stopping, items, consumed, quiet, expired>>

-----------------------------------------------------------------------------
(* Start.                                                                  *)

\* Mutant: a failed Dial is not reported.
doStartNoError(r) == {[r EXCEPT !.conn = "open", !.loop = "recv", !.poller = "running"], r}

\* doStart: the connection and the goroutines, or Dial's error
doStart(r) == {[r EXCEPT !.conn = "open", !.loop = "recv", !.poller = "running"],
               [r EXCEPT !.startErr = TRUE]}

\* Start returns startErr, from this call or from the one that ran doStart.
Start(s) ==
    LET r == receivers[pipeline[s]]
    IN  /\ phase = "start" /\ s \notin started
        /\ \E after \in IF r.startOnce THEN {r} ELSE doStart([r EXCEPT !.startOnce = TRUE]) :
             /\ receivers' = [receivers EXCEPT ![pipeline[s]] = after]
             /\ IF after.startErr THEN phase' = "stop" /\ UNCHANGED started
                ELSE /\ started' = started \cup {s}
                     /\ phase' = IF started' = Pipelines THEN "run" ELSE "start"
        /\ UNCHANGED <<shared, generation, pipeline, stopped, stopping, items, consumed, quiet, expired>>

-----------------------------------------------------------------------------
(* The goroutines of receiver i.                                           *)

\* HandleFrame on the enabled builders, under buildersMu
Sniffed(r, origin) == [r EXCEPT !.builder = [s \in Signals |-> IF s \in Enabled THEN Append(@[s], origin) ELSE @[s]]]

\* Mutant: only metrics are flushed.
flushMetricsOnly(r, s) ==
    IF s \in r.consumers /\ r.builder[s] # << >> /\ s = "metrics"
    THEN [after |-> [r EXCEPT !.builder[s] = << >>], calls |-> 1]
    ELSE [after |-> r, calls |-> 0]

(* flushMetrics and flushLogs: nothing without a consumer or with an empty *)
(* builder; otherwise the batch is handed over and gone, an error of the   *)
(* consumer is only logged.                                                *)
flush(r, s) ==
    IF s \in r.consumers /\ r.builder[s] # << >>
    THEN [after |-> [r EXCEPT !.builder[s] = << >>], calls |-> 1]
    ELSE [after |-> r, calls |-> 0]

\* dispatchLoop: returns when the context is cancelled or the connection closed, or takes a frame
DispatchRecv(i) ==
    LET r == receivers[i]
    IN  /\ r.loop = "recv"
        /\ \/ /\ r.cancelled \/ r.conn = "closed"
              /\ receivers' = [receivers EXCEPT ![i].loop = "done"]
              /\ UNCHANGED items
           \/ /\ items < MaxItems /\ items' = items + 1
              /\ receivers' = [receivers EXCEPT ![i] = [Sniffed(r, "frame") EXCEPT !.loop = "metrics"]]
        /\ UNCHANGED <<shared, collector, stopping, consumed, quiet, expired>>

DispatchFlush(i) ==
    LET r == receivers[i]
        f == flush(r, r.loop)
    IN  /\ r.loop \in Signals
        /\ receivers' = [receivers EXCEPT ![i] =
                           [f.after EXCEPT !.loop = IF @ = "metrics" THEN "logs" ELSE "recv"]]
        /\ consumed' = consumed + f.calls
        /\ UNCHANGED <<shared, collector, stopping, items, quiet, expired>>

\* A poller goroutine: sniffs a request it sends, or returns once the context is cancelled.
PollerSend(i) ==
    LET r == receivers[i]
    IN  /\ r.poller = "running"
        /\ items < MaxItems /\ items' = items + 1
        /\ receivers' = [receivers EXCEPT ![i] = Sniffed(r, "poll")]
        /\ UNCHANGED <<shared, collector, stopping, consumed, quiet, expired>>

PollerReturn(i) ==
    /\ receivers[i].poller = "running" /\ receivers[i].cancelled
    /\ receivers' = [receivers EXCEPT ![i].poller = "done"]
    /\ UNCHANGED <<shared, collector, stopping, items, consumed, quiet, expired>>

-----------------------------------------------------------------------------
(* Shutdown.                                                               *)

\* External: the Collector begins to shut down, also after a failed start.
BeginStop == phase = "run" /\ phase' = "stop" /\ UNCHANGED <<receivers, shared, generation, pipeline, started, stopped, stopping, items, consumed, quiet, expired>>

\* Shutdown's sync.Once: later callers return nil at once, whatever the first was told.
Shutdown(s) ==
    LET i == pipeline[s]
    IN  /\ phase = "stop" /\ s \notin stopped /\ stopping = NotStopping
        /\ IF receivers[i].shutdownOnce
           THEN stopped' = stopped \cup {s} /\ quiet' = quiet \cup {i} /\ UNCHANGED <<receivers, stopping>>
           ELSE /\ receivers' = [receivers EXCEPT ![i].shutdownOnce = TRUE]
                /\ stopping' = [receiver |-> i, signal |-> s, step |-> "cancel"]
                /\ UNCHANGED <<stopped, quiet>>
        /\ UNCHANGED <<shared, generation, phase, pipeline, started, items, consumed, expired>>

step(from) == stopping # NotStopping /\ stopping.step = from

\* Mutant: the run context is not cancelled.
ShutdownKeepsContext ==
    /\ step("cancel") /\ stopping' = [stopping EXCEPT !.step = "close"]
    /\ UNCHANGED <<receivers, shared, collector, items, consumed, quiet, expired>>

\* r.cancel(), when Start got that far
ShutdownCancel ==
    /\ step("cancel") /\ stopping' = [stopping EXCEPT !.step = "close"]
    /\ receivers' = [receivers EXCEPT ![stopping.receiver].cancelled = (@ \/ receivers[stopping.receiver].conn # "none")]
    /\ UNCHANGED <<shared, collector, items, consumed, quiet, expired>>

ShutdownClose ==
    /\ step("close") /\ stopping' = [stopping EXCEPT !.step = "wait"]
    /\ receivers' = [receivers EXCEPT ![stopping.receiver].conn = IF @ = "open" THEN "closed" ELSE @]
    /\ UNCHANGED <<shared, collector, items, consumed, quiet, expired>>

notWaiting(r) == TRUE       \* mutant: wg.Wait is forgotten

wgDone(r) == r.loop \in {"none", "done"} /\ r.poller \in {"none", "done"}

\* wg.Wait returned,
ShutdownWait ==
    /\ step("wait") /\ wgDone(receivers[stopping.receiver])
    /\ stopping' = [stopping EXCEPT !.step = "metrics"]
    /\ UNCHANGED <<receivers, shared, collector, items, consumed, quiet, expired>>

\* or the caller's context expired first: its error is returned, nothing is flushed.
ShutdownExpired ==
    /\ step("wait")
    /\ stopping' = NotStopping /\ stopped' = stopped \cup {stopping.signal}
    /\ expired' = expired \cup {stopping.receiver}
    /\ UNCHANGED <<receivers, shared, generation, phase, pipeline, started, items, consumed, quiet>>

\* Mutant: nothing is flushed after the goroutines have returned.
ShutdownWithoutFlush ==
    /\ step("metrics") \/ step("logs")
    /\ IF stopping.step = "metrics"
       THEN stopping' = [stopping EXCEPT !.step = "logs"] /\ UNCHANGED <<stopped, quiet, expired>>
       ELSE /\ stopping' = NotStopping /\ stopped' = stopped \cup {stopping.signal}
            /\ quiet' = quiet \cup {stopping.receiver}
    /\ UNCHANGED <<receivers, shared, generation, phase, pipeline, started, items, consumed, expired>>

\* The final flushMetrics and flushLogs; then Shutdown returns nil.
ShutdownFlush ==
    LET i == stopping.receiver
        f == flush(receivers[i], stopping.step)
    IN  /\ step("metrics") \/ step("logs")
        /\ receivers' = [receivers EXCEPT ![i] = f.after]
        /\ consumed' = consumed + f.calls
        /\ IF stopping.step = "metrics"
           THEN stopping' = [stopping EXCEPT !.step = "logs"] /\ UNCHANGED <<stopped, quiet, expired>>
           ELSE /\ stopping' = NotStopping /\ stopped' = stopped \cup {stopping.signal}
                /\ quiet' = quiet \cup {i}
        /\ UNCHANGED <<shared, generation, phase, pipeline, started, items, expired>>

\* External: a new configuration for the same receiver ID, in the same process.
Reload ==
    /\ phase = "stop" /\ stopped = Pipelines /\ generation < MaxGenerations
    /\ generation' = generation + 1 /\ phase' = "build"
    /\ pipeline' = [s \in Pipelines |-> 0] /\ started' = {} /\ stopped' = {}
    /\ UNCHANGED <<receivers, shared, stopping, items, consumed, quiet, expired>>

\* External: the process ends with everything shut down.
Finished == phase = "stop" /\ stopped = Pipelines /\ UNCHANGED vars

GoroutineStep(i) == DispatchRecv(i) \/ DispatchFlush(i) \/ PollerReturn(i)
ShutdownStep     == ShutdownCancel \/ ShutdownClose \/ ShutdownWait \/ ShutdownFlush

Next == \/ \E s \in Pipelines : Create(s) \/ Start(s) \/ Shutdown(s)
        \/ \E i \in 1 .. Len(receivers) : GoroutineStep(i) \/ PollerSend(i)
        \/ BeginStop \/ ShutdownStep \/ ShutdownExpired \/ Reload \/ Finished

(* The goroutines and a Shutdown that has been called keep running; the    *)
(* Collector calls the second Shutdown after the first.  No frame need     *)
(* arrive, and the caller's context need not expire.                       *)
Fairness ==
    /\ \A i \in 1 .. 2 * MaxGenerations : WF_vars(i <= Len(receivers) /\ GoroutineStep(i))
    /\ WF_vars(ShutdownStep) /\ \A s \in Pipelines : WF_vars(Shutdown(s))

Spec == Init /\ [][Next]_vars /\ Fairness

-----------------------------------------------------------------------------
(* Properties.                                                             *)

open == {i \in 1 .. Len(receivers) : receivers[i].conn = "open"}

\* There is one connection; every pipeline's receiver owns it, reads it and has the loaded configuration.
running ==
    /\ Cardinality(open) = 1
    /\ \A s \in Pipelines : LET r == receivers[pipeline[s]]
                            IN  pipeline[s] \in open /\ r.loop # "done" /\ r.cfg = generation

(* Once every Start has returned nil there is exactly one connection to    *)
(* the bus, whichever signals are enabled, and the pipelines run on it     *)
(* with the configuration that was loaded (canopenReceiver, receiver.go).  *)
StartedReceiversRun == phase = "run" => running

(* The same of the first configuration a process loads: the one instance   *)
(* that both pipelines get is connected and running when all Starts have   *)
(* returned nil; a Dial error is not mistaken for a start (Start, doStart).*)
FirstStartRuns == generation = 1 /\ phase = "run" => running

(* There is never a second connection, not even while starting, stopping   *)
(* or reloading (getOrCreateReceiver and startOnce).                       *)
OneConnection == Cardinality(open) <= 1

(* When Shutdown returns nil nothing is left behind for a signal with a    *)
(* consumer: "Flush anything remaining so shutdown doesn't silently drop   *)
(* pending data" (doShutdown).                                             *)
ShutdownDropsNothing ==
    \A i \in quiet : \A s \in receivers[i].consumers : receivers[i].builder[s] = << >>

(* The same of an instance whose doShutdown was not cut short: when the    *)
(* context of the first Shutdown did not expire, nothing is left behind    *)
(* after it, nor after the Shutdown of the second pipeline or of a later   *)
(* configuration on the same instance (doShutdown, shutdownOnce).          *)
NothingIsLeftBehind ==
    \A i \in quiet \ expired : \A s \in receivers[i].consumers : receivers[i].builder[s] = << >>

(* After a Shutdown that returned nil the consumers are not called again,  *)
(* since doShutdown waits for every goroutine before its last flush.  The  *)
(* one exception is a dispatch loop that outlived the context of the       *)
(* Shutdown that ran doShutdown and is still flushing a frame.             *)
SilentAfterShutdown ==
    [][quiet # {} /\ consumed' # consumed => \E i \in expired : receivers[i].loop \in Signals]_vars

(* A decoded frame waits for nothing: when the dispatch loop is back at    *)
(* its receive, no value of a received frame is still in a builder that    *)
(* has a consumer, however a poller's own frames interleave.               *)
FramesAreFlushed ==
    \A i \in 1 .. Len(receivers) : receivers[i].loop = "recv" =>
        \A s \in receivers[i].consumers : \A k \in 1 .. Len(receivers[i].builder[s]) :
            receivers[i].builder[s][k] # "frame"

(* Shutdown returns, for every signal, though the goroutines may be in the *)
(* middle of anything.                                                     *)
ShutdownReturns == phase = "stop" ~> stopped = Pipelines
=============================================================================
