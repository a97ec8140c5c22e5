----------------------------- MODULE SdoPolling -----------------------------
(***************************************************************************)
(* Active SDO polling: the poller goroutine (sdo_poller.go), the receiver's*)
(* dispatch loop (receiver.go) and the passive observer they both feed.    *)
(* The poller only learns whether a transfer succeeded; the value itself   *)
(* reaches the builders because sendPollFrame shows every request, and the *)
(* dispatch loop every response, to the observer.                          *)
(*                                                                         *)
(* External: the CAN bus and the SDO servers.  A server may answer a       *)
(* request expedited, segmented, with an abort or not at all, at any time, *)
(* and any frame may be lost.  Timers may fire at any time.                *)
(***************************************************************************)
EXTENDS SdoTransfer

CONSTANTS
    Node,             \* node ids; a polled node has one SDO channel (SDOConfig.validate)
    Objects,          \* SDO.Poll.Objects: a sequence of [node, addr]
    Mode,             \* SDO.Poll.Mode: "once" or "interval"
    Retry,            \* SDO.Poll.Retry
    RetryLimits,      \* the values of SDO.Poll.MaxRetries to consider
    Unlimited,        \* MaxRetries == nil
    Backoff,          \* SDO.Poll.Backoff, 0 when unset
    MaxBackoff,       \* SDO.Poll.MaxBackoff, 0 when unset
    DefaultBackoff,   \* defaultSDOPollBackoff
    DefaultMaxBackoff,\* defaultSDOPollMaxBackoff
    SegmentCount,     \* external: segments of a value that is not expedited
    Lossy,            \* external: frames may be lost in either direction
    MaxSamples,       \* bound: values the servers answer with
    MaxRounds,        \* bound: rounds of interval mode
    MaxBus            \* bound: frames under way to a node, or to the receiver

ASSUME ObjectsAssumption ==
    /\ Objects \in Seq([node : Node, addr : Addr]) /\ Objects # << >>
\* SDOPollConfig.validate; an empty mode has become "once"
validate ==
    /\ Mode \in {"once", "interval"} /\ Retry \in BOOLEAN /\ RetryLimits \subseteq Nat \cup {Unlimited}
    /\ Mode = "once" /\ Retry => Unlimited \notin RetryLimits
    /\ Backoff \in Nat /\ MaxBackoff \in Nat
    /\ MaxBackoff > 0 => Backoff <= MaxBackoff
    /\ \A i, j \in 1 .. Len(Objects) : Objects[i] = Objects[j] => i = j

ASSUME ConfigAssumption == validate
ASSUME SettingsAssumption ==
    /\ Unlimited \notin Nat /\ DefaultBackoff \in Nat \ {0} /\ DefaultMaxBackoff \in Nat \ {0}
    /\ SegmentCount \in Nat \ {0} /\ Lossy \in BOOLEAN /\ MaxSamples \in Nat /\ MaxRounds \in Nat \ {0} /\ MaxBus \in Nat
\* A word of data names the value it belongs to: part k of the v-th answered value.
ASSUME WordAssumption ==
    \A v \in 0 .. MaxSamples, k \in 0 .. SegmentCount : [sample |-> v, part |-> k] \in Word
ASSUME NoAddrAssumption == NoAddr \in Addr /\ \A i \in 1 .. Len(Objects) : Objects[i].addr # NoAddr

VARIABLES
    \* the poller goroutine
    ppc, obj, attempt, backoff, round, outcome,
    active,           \* sdoPoller.active, with its result channel of capacity 1
    \* the dispatch loop
    dpc, frame,
    \* state the two share: the observer's transfers and the builders
    transfers, builder, consumed,
    \* the configured MaxRetries, the run context and the connection
    maxRetries, cancelled, closed,
    \* external: frames to the nodes, frames to the receiver, the servers
    bus, rx, server, samples,
    \* history: objects whose poll has succeeded; what was last requested of a
    \* node, NoAddr once a value of it has been emitted
    succeeded, requested

poller     == <<ppc, obj, attempt, backoff, round, outcome>>
dispatcher == <<dpc, frame>>
output     == <<builder, consumed, requested>>
context    == <<maxRetries, cancelled, closed>>
external   == <<bus, rx, server, samples>>
vars == <<poller, active, dispatcher, transfers, output, context, external, succeeded>>

Poll     == [obj : 1 .. Len(Objects), segment : BOOLEAN, toggle : BOOLEAN,
             result : {"none", "ok", "failed"}]
NoPoll   == [obj |-> 0]
BusFrame == [node : Node, dir : {ClientToServer, ServerToClient}, cmd : Byte,
             addr : Addr, word : Word, len : {sdoFrameLength}]
Upload   == [addr : Addr, next : 1 .. SegmentCount, sample : 0 .. MaxSamples]
NoUpload == [next |-> 0]
Value    == [node : Node, event : Event]

TypeOK ==
    /\ ppc \in {"poll", "sniff", "send", "wait", "clear", "backoff", "interval", "done"}
    /\ obj \in 1 .. Len(Objects) /\ attempt \in Nat /\ backoff \in Nat /\ round \in Nat
    /\ outcome \in {"none", "ok", "failed"}
    /\ active \in Poll \cup {NoPoll}
    /\ dpc \in {"top", "recv", "poll", "segmentSniff", "segmentSend", "sniff", "flush", "done"}
    /\ frame \in BusFrame \cup {NoEvent}
    /\ transfers \in [Node -> Transfer \cup {NoTransfer}]
    /\ builder \in Seq(Value) /\ consumed \in Seq(Value)
    /\ maxRetries \in RetryLimits /\ cancelled \in BOOLEAN /\ closed \in BOOLEAN
    /\ bus \in [Node -> Seq(BusFrame)] /\ rx \in Seq(BusFrame)
    /\ server \in [Node -> Upload \cup {NoUpload}] /\ samples \in Seq([node : Node, addr : Addr])
    /\ succeeded \subseteq 1 .. Len(Objects) /\ requested \in [Node -> Addr]

firstBackoff == IF Backoff = 0 THEN DefaultBackoff ELSE Backoff
maxBackoff   == IF MaxBackoff = 0 THEN DefaultMaxBackoff ELSE MaxBackoff

\* doStart: both goroutines run, nothing is on the bus.
Init ==
    /\ ppc = "poll" /\ obj = 1 /\ attempt = 0 /\ backoff = firstBackoff /\ round = 1
    /\ outcome = "none" /\ active = NoPoll
    /\ dpc = "top" /\ frame = NoEvent
    /\ transfers = [n \in Node |-> NoTransfer] /\ builder = << >> /\ consumed = << >>
    /\ maxRetries \in RetryLimits /\ cancelled = FALSE /\ closed = FALSE
    /\ bus = [n \in Node |-> << >>] /\ rx = << >>
    /\ server = [n \in Node |-> NoUpload] /\ samples = << >>
    /\ succeeded = {} /\ requested = [n \in Node |-> NoAddr]

-----------------------------------------------------------------------------
(* Frames.                                                                 *)

EmptyWord == [sample |-> 0, part |-> 0]

ClientFrame(n, c, a) == [node |-> n, dir |-> ClientToServer, cmd |-> c, addr |-> a,
                         word |-> EmptyWord, len |-> sdoFrameLength]
ServerFrame(n, c, a, w) == [node |-> n, dir |-> ServerToClient, cmd |-> c, addr |-> a,
                            word |-> w, len |-> sdoFrameLength]

request == ClientFrame(Objects[obj].node, UploadRequest, Objects[obj].addr)

\* 0x60 | boolByte(toggle), on the client COB-ID of the active poll's node
segmentRequest ==
    ClientFrame(Objects[active.obj].node, 96 + (IF active.toggle THEN 16 ELSE 0), NoAddr)

(* HandleFrame of the sniffer for an SDO frame: the observer of the        *)
(* frame's channel, and a typed value for a completed transfer; an abort   *)
(* emits nothing (emitTypedSDO).                                           *)
HandleFrame(f) ==
    LET o == ObserveOnChannel(transfers[f.node], f)
        value == o.event.operation \in {"upload", "download"}
    IN  /\ transfers' = [transfers EXCEPT ![f.node] = o.transfer]
        /\ builder' = IF value THEN Append(builder, [node |-> f.node, event |-> o.event]) ELSE builder
        /\ requested' = [requested EXCEPT ![f.node] =
                            IF value THEN NoAddr ELSE IF f.cmd = UploadRequest THEN f.addr ELSE @]

\* sendFrame, on an open connection with room to send; a frame may be lost on its way to the node.
sendFrame(f) == /\ ~closed /\ Len(bus[f.node]) < MaxBus
                /\ bus' \in {[bus EXCEPT ![f.node] = Append(@, f)]} \cup (IF Lossy THEN {bus} ELSE {})

-----------------------------------------------------------------------------
(* The poller goroutine.  p.mu is held by the dispatch loop from the       *)
(* moment handleFrame decides to ask for a segment until it has sent the   *)
(* request; everything else done under p.mu is one step.                   *)

sending == dpc \in {"segmentSniff", "segmentSend"}

muAlwaysFree == TRUE        \* mutant: handleFrame releases p.mu before it sends

muFree == ~sending

\* poll, up to the point where the request is about to be sent
Activate ==
    /\ ppc = "poll" /\ muFree
    /\ attempt' = IF maxRetries = Unlimited /\ attempt > 1 THEN attempt     \* bound: then compared with nothing
                  ELSE attempt + 1
    /\ active' = [obj |-> obj, segment |-> FALSE, toggle |-> FALSE, result |-> "none"]
    /\ ppc' = "sniff"
    /\ UNCHANGED <<obj, backoff, round, outcome, dispatcher, transfers, output, context, external, succeeded>>

\* Mutant: the request is sent without being shown to the observer.
SkipSniffRequest ==
    /\ ppc = "sniff"
    /\ ppc' = "send"
    /\ UNCHANGED <<obj, attempt, backoff, round, outcome, active, dispatcher, transfers, output, context, external, succeeded>>

\* sendPollFrame shows the request to the observer before it is sent.
SniffRequest ==
    /\ ppc = "sniff"
    /\ HandleFrame(request)
    /\ ppc' = "send"
    /\ UNCHANGED <<obj, attempt, backoff, round, outcome, active, dispatcher, consumed, context, external, succeeded>>

SendRequest ==
    /\ ppc = "send"
    /\ \/ sendFrame(request) /\ ppc' = "wait" /\ UNCHANGED outcome
       \/ UNCHANGED bus /\ ppc' = "clear" /\ outcome' = "failed"      \* Send failed
    /\ UNCHANGED <<obj, attempt, backoff, round, active, dispatcher, transfers, output, context,
                   rx, server, samples, succeeded>>

\* Mutant: no timer in the select.
AwaitWithoutTimer ==
    /\ ppc = "wait"
    /\ \/ active.result # "none" /\ outcome' = active.result
       \/ cancelled /\ outcome' = "failed"
    /\ ppc' = "clear"
    /\ UNCHANGED <<obj, attempt, backoff, round, active, dispatcher, transfers, output, context, external, succeeded>>

\* The select: a result, the timer, the context; any one that is ready.
Await ==
    /\ ppc = "wait"
    /\ \/ active.result # "none" /\ outcome' = active.result
       \/ outcome' = "failed"                                        \* timer
    /\ ppc' = "clear"
    /\ UNCHANGED <<obj, attempt, backoff, round, active, dispatcher, transfers, output, context, external, succeeded>>

\* Mutant: one object too many.
NextObjectOffByOne ==
    IF obj <= Len(Objects)
    THEN obj' = obj + 1 /\ ppc' = "poll" /\ attempt' = 0 /\ backoff' = firstBackoff
    ELSE /\ ppc' = IF Mode = "interval" THEN "interval" ELSE "done"
         /\ UNCHANGED <<obj, attempt, backoff>>

\* pollUntilSuccess has returned: run takes the next object or ends the round.
NextObject ==
    IF obj < Len(Objects)
    THEN obj' = obj + 1 /\ ppc' = "poll" /\ attempt' = 0 /\ backoff' = firstBackoff
    ELSE /\ ppc' = IF Mode = "interval" THEN "interval" ELSE "done"
         /\ UNCHANGED <<obj, attempt, backoff>>

oneRetryTooMany == maxRetries = Unlimited \/ attempt - 1 <= maxRetries        \* mutant

retriesRemain == maxRetries = Unlimited \/ attempt - 1 < maxRetries

\* The deferred p.active = nil, then the loop of pollUntilSuccess.
Conclude ==
    /\ ppc = "clear" /\ muFree
    /\ active' = NoPoll
    /\ outcome' = "none"
    /\ succeeded' = IF outcome = "ok" THEN succeeded \cup {obj} ELSE succeeded
    /\ IF outcome = "ok" \/ cancelled \/ ~Retry \/ ~retriesRemain
       THEN NextObject
       ELSE ppc' = "backoff" /\ UNCHANGED <<obj, attempt, backoff>>
    /\ UNCHANGED <<round, dispatcher, transfers, output, context, external>>

uncappedBackoff == 2 * backoff                      \* mutant

nextBackoff == IF 2 * backoff > maxBackoff THEN maxBackoff ELSE 2 * backoff

BackoffElapsed ==
    /\ ppc = "backoff"
    /\ \/ /\ ppc' = "poll"
          /\ backoff' = nextBackoff
          /\ UNCHANGED <<obj, attempt>>
       \/ cancelled /\ NextObject
    /\ UNCHANGED <<round, outcome, active, dispatcher, transfers, output, context, external, succeeded>>

IntervalElapsed ==
    /\ ppc = "interval"
    /\ \/ /\ round < MaxRounds
          /\ round' = round + 1 /\ obj' = 1 /\ attempt' = 0 /\ backoff' = firstBackoff /\ ppc' = "poll"
       \/ cancelled /\ ppc' = "done" /\ UNCHANGED <<obj, attempt, backoff, round>>
    /\ UNCHANGED <<outcome, active, dispatcher, transfers, output, context, external, succeeded>>

PollerStep == \/ Activate \/ SniffRequest \/ SendRequest \/ Await \/ Conclude
              \/ BackoffElapsed \/ IntervalElapsed

-----------------------------------------------------------------------------
(* The dispatch loop.                                                      *)

DispatchTop ==
    /\ dpc = "top"
    /\ dpc' = IF cancelled THEN "done" ELSE "recv"
    /\ UNCHANGED <<poller, active, frame, transfers, output, context, external, succeeded>>

\* Recv: a frame; an error once cancelled; a timeout or another error, which only loops.
Recv ==
    /\ dpc = "recv"
    /\ \/ rx # << >> /\ frame' = Head(rx) /\ rx' = Tail(rx) /\ dpc' = "poll"
       \/ dpc' = (IF cancelled THEN "done" ELSE "top") /\ UNCHANGED <<frame, rx>>
    /\ UNCHANGED <<poller, active, transfers, output, context, bus, server, samples, succeeded>>

\* finishLocked: a non-blocking send on a channel of capacity 1.
finish(ok) ==
    /\ active' = IF active.result = "none" THEN [active EXCEPT !.result = IF ok THEN "ok" ELSE "failed"] ELSE active
    /\ dpc' = "sniff"

requestSegment(toggle) ==
    /\ active' = [active EXCEPT !.segment = TRUE, !.toggle = toggle]
    /\ dpc' = "segmentSniff"

anyAddress == TRUE                                  \* mutant: no address check

addressMatches == frame.addr = Objects[active.obj].addr

(* sdoPoller.handleFrame, up to the segment request.  The poller looks at  *)
(* single bits of the command byte, never at the command specifier.        *)
PollerHandleFrame ==
    LET own  == active # NoPoll /\ frame.dir = ServerToClient /\ frame.node = Objects[active.obj].node
        c    == frame.cmd
        skip == UNCHANGED active /\ dpc' = "sniff"
    IN  /\ dpc = "poll"
        /\ IF ~own \/ frame.len = 0 THEN skip
           ELSE IF c = Abort THEN IF frame.len >= 4 /\ addressMatches THEN finish(FALSE) ELSE skip
           ELSE IF ~active.segment
                THEN IF ~(frame.len >= 4 /\ addressMatches) THEN skip
                     ELSE IF ExpeditedBit(c) THEN finish(TRUE) ELSE requestSegment(FALSE)
           ELSE IF ToggleBit(c) # active.toggle THEN finish(FALSE)
           ELSE IF LowBit(c) THEN finish(TRUE) ELSE requestSegment(~active.toggle)
        /\ UNCHANGED <<poller, frame, transfers, output, context, external, succeeded>>

\* handleFrame, still under p.mu: sendPollFrame of the segment request
SegmentSniff ==
    /\ dpc = "segmentSniff"
    /\ HandleFrame(segmentRequest)
    /\ dpc' = "segmentSend"
    /\ UNCHANGED <<poller, active, frame, consumed, context, external, succeeded>>

\* Mutant: a failed Send is not noticed and blocks.
SegmentSendBlocks ==
    /\ dpc = "segmentSend"
    /\ sendFrame(segmentRequest)
    /\ dpc' = "sniff"
    /\ UNCHANGED <<poller, active, frame, transfers, output, context, rx, server, samples, succeeded>>

SegmentSend ==
    /\ dpc = "segmentSend"
    /\ sendFrame(segmentRequest) \/ UNCHANGED bus                   \* the error is dropped
    /\ dpc' = "sniff"
    /\ UNCHANGED <<poller, active, frame, transfers, output, context, rx, server, samples, succeeded>>

\* Only now does the observer see the frame the poller has acted on.
SniffFrame ==
    /\ dpc = "sniff"
    /\ HandleFrame(frame)
    /\ dpc' = "flush"
    /\ UNCHANGED <<poller, active, frame, consumed, context, external, succeeded>>

\* flushMetrics and flushLogs, to a consumer that accepts
Flush ==
    /\ dpc = "flush"
    /\ consumed' = consumed \o builder /\ builder' = << >>
    /\ dpc' = "top" /\ frame' = NoEvent
    /\ UNCHANGED <<poller, active, transfers, requested, context, external, succeeded>>

DispatcherStep == \/ DispatchTop \/ Recv \/ PollerHandleFrame \/ SegmentSniff \/ SegmentSend
                  \/ SniffFrame \/ Flush

\* doShutdown cancels the run context, then closes the connection.
Cancel ==
    /\ ~cancelled /\ cancelled' = TRUE
    /\ UNCHANGED <<poller, active, dispatcher, transfers, output, maxRetries, closed, external, succeeded>>

CloseConn ==
    /\ cancelled /\ ~closed /\ closed' = TRUE
    /\ UNCHANGED <<poller, active, dispatcher, transfers, output, maxRetries, cancelled, external, succeeded>>

-----------------------------------------------------------------------------
(* External: the SDO servers.  samples[v] is the object whose value the    *)
(* v-th answered request read; every frame carrying part of it says so.    *)

\* The answer arrives, or is lost on the way.
Reply(f) == Len(rx) < MaxBus /\ rx' \in {Append(rx, f)} \cup (IF Lossy THEN {rx} ELSE {})

ServerUpload(n) ==
    LET f == Head(bus[n])
        v == Len(samples) + 1
    IN  /\ bus[n] # << >> /\ f.cmd = UploadRequest /\ v <= MaxSamples
        /\ \/ /\ Reply(ServerFrame(n, 67, f.addr, [sample |-> v, part |-> 0]))      \* expedited
              /\ server' = [server EXCEPT ![n] = NoUpload] /\ samples' = Append(samples, [node |-> n, addr |-> f.addr])
           \/ /\ Reply(ServerFrame(n, 65, f.addr, EmptyWord))                       \* segmented
              /\ server' = [server EXCEPT ![n] = [addr |-> f.addr, next |-> 1, sample |-> v]]
              /\ samples' = Append(samples, [node |-> n, addr |-> f.addr])
           \/ /\ Reply(ServerFrame(n, Abort, f.addr, EmptyWord))                    \* refused
              /\ server' = [server EXCEPT ![n] = NoUpload] /\ UNCHANGED samples
        /\ bus' = [bus EXCEPT ![n] = Tail(@)]
        /\ UNCHANGED <<poller, active, dispatcher, transfers, output, context, succeeded>>

ServerSegment(n) ==
    LET f == Head(bus[n])
        s == server[n]
        expected == s # NoUpload /\ ToggleBit(f.cmd) = (s.next % 2 = 0)
        last == s.next = SegmentCount
    IN  /\ bus[n] # << >> /\ f.cmd # UploadRequest
        /\ IF expected
           THEN /\ Reply(ServerFrame(n, (IF s.next % 2 = 0 THEN 16 ELSE 0) + (IF last THEN 1 ELSE 0),
                                     NoAddr, [sample |-> s.sample, part |-> s.next]))
                /\ server' = [server EXCEPT ![n] = IF last THEN NoUpload ELSE [s EXCEPT !.next = @ + 1]]
           ELSE /\ Reply(ServerFrame(n, Abort, IF s = NoUpload THEN NoAddr ELSE s.addr, EmptyWord))
                /\ server' = [server EXCEPT ![n] = NoUpload]
        /\ bus' = [bus EXCEPT ![n] = Tail(@)]
        /\ UNCHANGED <<poller, active, dispatcher, transfers, output, context, samples, succeeded>>

\* Both goroutines have returned.
Stopped == ppc = "done" /\ dpc = "done" /\ UNCHANGED vars

Next == \/ PollerStep \/ DispatcherStep \/ Cancel \/ CloseConn
        \/ \E n \in Node : ServerUpload(n) \/ ServerSegment(n)
        \/ Stopped

(* Both goroutines keep running and timers fire; no server need answer.    *)
Fairness == WF_vars(PollerStep) /\ WF_vars(DispatcherStep)

Spec == Init /\ [][Next]_vars /\ Fairness

-----------------------------------------------------------------------------
(* Properties.                                                             *)

emitted == builder \o consumed

(* Part k of sample v, as the payload of a segment or an expedited answer. *)
CarriesPart(payload, v, k) == payload.word = [sample |-> v, part |-> k]

(* A value that reaches the pipeline is one value the server had for that  *)
(* object: the data of one expedited answer, or all the segments of one    *)
(* segmented answer, in order.  Whatever is lost, late or retried, the     *)
(* pieces of two attempts, two objects or two nodes are never joined       *)
(* (sendPollFrame, handleFrame and the observer together).                 *)
ValuesAreWhole ==
    \A i \in 1 .. Len(emitted) :
        LET e == emitted[i].event
        IN  \E v \in 1 .. Len(samples) :
              /\ samples[v] = [node |-> emitted[i].node, addr |-> e.addr]
              /\ \/ Len(e.data) = 1 /\ CarriesPart(e.data[1], v, 0)
                 \/ Len(e.data) = SegmentCount /\ \A k \in 1 .. SegmentCount : CarriesPart(e.data[k], v, k)

(* A request yields at most one value, of the object it asked for: when    *)
(* the retry of a poll and the late answer to its first attempt overlap,   *)
(* the second answer finds no transfer (the deletes in observeServer and   *)
(* observeSegment).                                                        *)
OneValuePerRequest ==
    [][Len(builder') > Len(builder) =>
         LET value == builder'[Len(builder')] IN requested[value.node] = value.event.addr]_vars

(* No answer of a server is emitted twice: the values in the pipeline      *)
(* begin with different answers.                                           *)
NoValueTwice ==
    \A i, j \in 1 .. Len(emitted) :
        i # j => emitted[i].event.data[1].word.sample # emitted[j].event.data[1].word.sample

(* While the dispatch loop sends a segment request, the poll it is for is  *)
(* still the active one and waits on the node the frame came from: the     *)
(* poller goroutine cannot time out, clear p.active and start another      *)
(* transfer in between (handleFrame keeps p.mu until the request is sent). *)
SegmentRequestsAreOwned ==
    sending => /\ active # NoPoll /\ active.obj = obj /\ active.segment
               /\ ppc \in {"sniff", "send", "wait", "clear"}
               /\ frame.node = Objects[active.obj].node

(* A poll succeeds only if the node answered a request for that very       *)
(* object: no abort, stray segment or other object's answer is taken for   *)
(* it (handleFrame's address checks).                                      *)
SuccessWasAnswered ==
    \A i \in succeeded : \E v \in 1 .. Len(samples) : samples[v] = Objects[i]

IsEmitted(i) == \E k \in 1 .. Len(emitted) :
    emitted[k].node = Objects[i].node /\ emitted[k].event.addr = Objects[i].addr

(* Once the dispatch loop is done with the frame that completed a poll,    *)
(* the polled value has been emitted: "Emitted: once per matched           *)
(* frame/completed SDO transfer" (documentation.md).                       *)
SuccessfulPollsAreEmitted ==
    dpc \in {"top", "recv", "done"} => \A i \in succeeded : IsEmitted(i)

(* The same of an object that is the only one polled on its node, whatever *)
(* is polled on the other nodes meanwhile: the result that handleFrame     *)
(* signals before the observer sees the frame can then be overtaken by     *)
(* requests to other channels only.                                        *)
SolePollsAreEmitted ==
    dpc \in {"top", "recv", "done"} =>
        \A i \in succeeded :
            (\A j \in 1 .. Len(Objects) : Objects[j].node = Objects[i].node => j = i) => IsEmitted(i)

(* No retry waits longer than the maximum retry delay (pollUntilSuccess;   *)
(* README: max_backoff is the "Maximum retry delay").                      *)
DelaysAreBounded == ppc = "backoff" => backoff <= maxBackoff

(* What holds of every accepted configuration, one whose first delay is    *)
(* longer than the maximum included: from the second retry on, no delay is *)
(* longer than the maximum (the clamp at the end of pollUntilSuccess).     *)
LaterDelaysAreBounded == attempt > 1 => DelaysAreBounded

(* max_retries bounds the attempts at one object: the first and that many  *)
(* retries, none of them when retry is off (pollUntilSuccess).             *)
AttemptsAreBounded ==
    maxRetries # Unlimited => attempt <= IF Retry THEN maxRetries + 1 ELSE 1

(* A round ends whatever the nodes do: with max_retries set, a dead node   *)
(* delays the objects after it but cannot keep them from their turn.       *)
(* Without max_retries it can (SDOPollConfig.validate allows that in       *)
(* interval mode), but never by hanging inside an attempt.                 *)
RoundsEnd == [](ppc = "poll" => <>(\/ ppc \in {"interval", "done"}
                                   \/ ppc = "backoff" /\ maxRetries = Unlimited))

(* After Shutdown has cancelled the run context both goroutines return     *)
(* (wg.Wait in doShutdown), whatever they were doing.                      *)
ShutdownEnds == cancelled ~> (ppc = "done" /\ dpc = "done")
=============================================================================
