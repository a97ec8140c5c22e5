# Verification of the CANopen receiver

TLA+ models of `receiver/canopenreceiver`, an OpenTelemetry Collector receiver
that listens to a CAN bus, decodes what it sees, polls SDO objects and raw
request/response transactions, and hands metrics and logs to the pipelines.
TLC checks the models on small instances; TLAPS proves the central invariants
for every value of the constants.

Paths below are relative to `src/receiver/canopenreceiver/`.

## Inventory

| Component | State | Operations | Interacts with |
|---|---|---|---|
| SDO observer (`internal/sdoobserver`) | one transfer in progress per channel | `ObserveOnChannel` | called by the sniffer, under `buildersMu` |
| SDO poller (`sdo_poller.go`) | `p.active` with its result channel, attempt, backoff | `run`, `pollUntilSuccess`, `poll`, `handleFrame` | own goroutine; `handleFrame` is called by the dispatch loop; sends through `sendPollFrame` |
| Raw poller (`raw_poller.go`) | `p.active`, `onceCompleted`, attempt, backoff | `run`, `poll`, `pollOnce`, `handleFrame`, `emitRawTransaction` | own goroutine; claims responses in the dispatch loop |
| Receiver (`receiver.go`) | connection, run context, builders, the `sync.Once` of Start and Shutdown | `Start`, `Shutdown`, `dispatchLoop`, flushes | Collector, consumers, pollers, sniffer |
| Factory (`factory.go`) | `sharedReceivers` | `createMetricsReceiver`, `createLogsReceiver` | Collector |
| Sniffer (`internal/sniffer`) | NMT state per node, observer | `HandleFrame` and one handler per kind of frame | dispatch loop and pollers |
| Configuration (`config.go`) | none | `Validate` | read by everything |
| Codec, emit builders (`internal/codec`, `internal/emit`) | the metrics and logs collected since the last flush | `Decode`, `Add`, `Emit` | sniffer, raw poller, flushes |
| CAN transport (`internal/cantransport`) | sockets; the fake bus's connections | `Dial`, `Recv`, `Send`, `Close` | dispatch loop, pollers |

What is hard: up to three goroutines (dispatch loop, SDO poller, raw poller)
share `p.active`, the observer and the builders under three different mutexes;
a response is looked at twice, by the poller and by the observer, at different
times; answers arrive late, after a timeout and during a retry; frames are lost;
Shutdown meets all of it at any point; and two pipelines share one receiver
through a process-wide table. `PROJECT.json` lists these as hazards at the
lines where they bite.

Correctness, by component:

* observer: an event is a transfer that really took place on the channel, and a
  transfer that took place undisturbed is reported;
* pollers: values are never joined or mixed between attempts, objects or
  transactions; a success is the success of the right request and its value is
  emitted; retries and delays stay within their limits; nobody starves;
* sniffer, codec, builders and configuration: what an accepted configuration
  declares, and what fits in its frame, comes out exactly once, with the right
  value, kind and resource, whatever else is on the bus;
* receiver and factory: one connection, running once started; nothing lost and
  nothing called after Shutdown; Shutdown returns.

## Modules

**SdoTransfer** holds the observer's operators, without state: the frame layout,
`observeClient`, `observeServer`, `observeSegment` and `ObserveOnChannel`, which
maps the transfer a channel holds and a frame to the new transfer and the event.
A frame is its direction, command byte, data[1..3], data[4..7] and length. The
command byte is a number and its bits are taken as the code takes them; the data
fields are opaque values together with the number of bytes kept.

**SdoObserver** gives the operators state: one transfer per channel, the last
event, and a history of the channel's frames. `EventsAreGenuine` and its
relatives are stated on the history alone, so they do not repeat the algorithm.

**SdoPolling** composes poller goroutine, dispatch loop, observer and external
SDO servers. `ppc` and `dpc` are the program points of the goroutines; a step
goes from one point where another goroutine can interfere to the next.
`Activate`, `SniffRequest`, `SendRequest`, `Await`, `Conclude` are `poll` and the
loop of `pollUntilSuccess`; `DispatchTop`, `Recv`, `PollerHandleFrame`,
`SegmentSniff`, `SegmentSend`, `SniffFrame`, `Flush` are one turn of
`dispatchLoop`. `p.mu` appears as `muFree`: it is held over several steps only
while a segment request is sent. A server answers each request expedited,
segmented, with an abort or not at all, as late as it likes, and `samples`
records which object's value each answer read, so that a value can be traced to
the answers it came from. With `Lossy`, frames disappear in either direction.
`maxRetries` is a variable chosen from the constant `RetryLimits` and never changed, so
that one run covers several settings; `Unlimited` stands for `max_retries` unset, and
attempts are then counted up to 2 only, since nothing in the code depends on their
number. Two history variables: `succeeded`, the objects whose poll has succeeded, and
`requested`, what was last asked of a node, forgotten once a value has come of it.

**RawPolling** does the same for raw transactions. Here `handleFrame` releases
`p.mu` before it emits and signals, so `claim` carries the local pointer to the
attempt and whether the poller still runs it. Frames are a COB-ID and bytes;
`validate`, `validateAll` and `rawMatchesCanOverlap` are the configuration's
rules, assumed of the constants. `t.cob` is the response's COB-ID. A `Report`
records that a decoder was handed a frame; what comes out of it is in Sniffer.

**Lifecycle** is the factory, Start, Shutdown and the flushes. A builder item is
only "from a frame" or "from a poller". The Collector is external: it creates,
starts and stops one pipeline after the other, and may reload. History: `quiet` has the
instances of which some Shutdown has returned nil, be it the one that ran `doShutdown`
or a later caller that found `shutdownOnce` spent; `expired` those whose `doShutdown`
returned its context's error.

**Codec**, **Emit** and **Config** are constant-level. `Codec` decodes bytes: the
byte-aligned and the bit-by-bit path of `extractBits` with their two bounds, two's
complement, scaling. `Emit` is the two builders as sequences of resources, found
by `resourceKey`, which looks at two attributes only, with one metric per name.
`Config` is what `Validate` asks of the sections that decide what is decoded
and reported.

**Sniffer** composes them with the observer of `SdoTransfer`: from a configuration
that `Validate` accepts, `buildSnifferConfig` and `New` make the sniffer;
`HandleFrame` routes a frame (raw capture, PDO, configured SDO channel, function
code) to its handler, which yields the points and records it adds; `flushMetrics`
and `flushLogs` hand the batches over. Three callers interleave: the dispatch loop
with a frame, the dispatch loop with a transaction's response, and the SDO poller
with one of its own requests, which does not flush. `cfg` and the history variables
`inputs` and `delivered` carry the specification of what should come out:
`Declared`, `Fits`, `Number` and `ExpectedPoints` are written from the meaning of
the configuration and do not use `s`, `Decode` or the routing. (They take the
observer's event from the history; that it is right is `ObserverIsImplemented`.)
`Observer` instantiates `SdoObserver` with one channel for each configured and each
predefined SDO channel whose key no other channel has (`OwnKey`), and
`ObserverIsImplemented` says that the sniffer, which keeps all transfers in one map under
keys of two kinds, implements it. Not every channel has its own key: `Validate` accepts a
client COB-ID in 1..127, which is the key of the node with that number as well. Then
an answer on one of the two channels completes the other's transfer, under the other's
node, and `MetricsAreDelivered` and `LogsAreDelivered`, which are about configurations
with distinct keys (`KeysAreDistinct`), fail; TLC shows it when that premise is dropped.
The run includes such a configuration, for everything else that is checked.

`MC*` modules fix constants; `*_proofs` modules hold the proofs. Definitions
marked as mutants are plausible bugs; each is put in place of a definition to
see that a property notices it.

One simplification concerns a data race: `doStart` starts the dispatch loop and
then assigns `r.poller` and `r.rawPoller`, which the loop reads without
synchronisation. A loop that still sees nil behaves as one whose poller has no
active poll, which is how the models start, since the poller goroutine is
started only after the assignment. (A loop that never sees the assignment is
outside the models.)

## Runs

| Run | Instance | Result |
|---|---|---|
| sdo_observer | one channel, every history of 5 frames over 15 kinds (two objects, both directions, expedited, segmented, abort, truncated) | passes, 813,616 states |
| sdo_polling_lossy | two objects of one node and one of another, 3 segments, losses, no retry | `TypeOK`, `ValuesAreWhole`, `SuccessWasAnswered`, `SolePollsAreEmitted` hold, 397,584 states |
| sdo_polling_retries | two objects of one node, interval mode, retry with `max_retries` 0 and unset, a first delay above the maximum, late and silent servers, two rounds | `SegmentRequestsAreOwned`, `OneValuePerRequest`, `AttemptsAreBounded`, `LaterDelaysAreBounded`, `RoundsEnd`, `ShutdownEnds` hold, 389,808 states |
| raw_polling | one once and two interval transactions on one response COB-ID, one with unlimited retries | all nine properties hold |
| lifecycle | both signals, two configurations | all seven properties hold |
| sniffer | three accepted configurations, one with a key that two channels share, and three rejected ones; every sequence of three out of 25 frames and the poller's requests | all six invariants and the refinement `ObserverIsImplemented` hold, 193,674 states |
| sdo_polling_torn | one object, one retry, 3 segments | **violated**: `ValuesAreWhole` |
| sdo_polling_shared_emission | two objects of one node, no retry, no loss | **violated**: `SuccessfulPollsAreEmitted` |
| sdo_polling_delay | `backoff` above the default maximum, `max_backoff` unset | **violated**: `DelaysAreBounded` |
| lifecycle_expired | both signals, the context of a Shutdown expires | **violated**: `ShutdownDropsNothing` |
| lifecycle_restart | two configurations | **violated**: `StartedReceiversRun` |
| sniffer_grouping | the poller's requests are captured as raw frames too | **violated**: `ResourcesAreKept` |

The violated ones are the disagreements between the code and what its comments
and documents say:

* **Torn values.** The initiation response to an attempt that timed out arrives
  during the retry. The poller, which checks the object but not which attempt is
  answered, starts asking for segments; then the retry's own request reaches the
  server, which starts over. If the toggle fits, the segments of the second
  upload are appended to those of the first and emitted as one value.
* **Lost emission.** The poller's result is signalled before the frame reaches
  the observer. If the next object is on the same node, its request may replace
  the transfer that was just about to be completed. An object that is alone on its
  node is not affected (`SolePollsAreEmitted`, sdo_polling_lossy).
* **Longer than the maximum.** The receiver's README calls `sdo.poll.max_backoff` the
  "Maximum retry delay". `pollUntilSuccess` caps the delay only after doubling it, and
  validation compares the two settings only if `max_backoff` is set: `backoff` above one
  minute with `max_backoff` unset, or `backoff` unset (1s) with a shorter `max_backoff`,
  waits longer once. From the second retry on the maximum is kept
  (`LaterDelaysAreBounded`); `raw_poller.go` caps the first delay too.
* **Expired Shutdown.** "Flush anything remaining so shutdown doesn't silently drop
  pending data" (`receiver.go`) is not reached when the context of the first pipeline's
  Shutdown expires. `shutdownOnce` is then spent, so the second pipeline's Shutdown
  returns nil and the data is dropped after all; a dispatch loop that is still flushing
  may call a consumer even later (`SilentAfterShutdown` names exactly this exception).
* **Reload.** `sharedReceivers` is never cleared, so a reloaded receiver is the
  one that was shut down, and its `startOnce` is spent.
* **Grouping.** `resourceKey` ignores `canopen.cob_id` and the SDO index, so points
  of two COB-IDs that meet in one batch are reported under the attributes of the
  first. The flush after every frame keeps frames apart; the poller's requests,
  sniffed between two flushes, do not wait for one.

Further facts met on the way, with no run of their own: a retry's transfer is
deleted by the late abort of the attempt before it, because the poller ignores an
abort while no poll is active and the observer does not (with one retry,
`SuccessfulPollsAreEmitted` fails for one object too); the documents disagree about the
body of a log record with a single logged field, which is the value itself in
`sniffer.go:346` and `documentation.md:108`, and "a map keyed by each field's `name`" in
the receiver's `README.md:283` (and 266, 273), so `LogsAreDelivered` follows the code and
`documentation.md`; two SDO channels may share an observer key (see Sniffer above), where
`observer.go` asks that "channelKey must uniquely identify the channel"; two definitions that use one metric name with different kinds
would make `MetricsBuilder.Add` panic if their points met in one batch (`KindsAgree`
holds as long as frames are flushed one by one).

### Bounds

`MaxFrames` = 5 lets a two-segment upload complete with a stray frame in between
and lets a transfer be interrupted and another begin. `SegmentCount` = 3 is the
smallest number for which the toggle bit returns to its first value within a
transfer. One retry is enough for two attempts to overlap. `MaxSamples` is more
than the requests of any instance without unlimited retries and never reached there by a
request. In sdo_polling_retries two samples and one frame in each queue (`MaxBus`) keep
the instance finite: the request of a retry fails to be sent, or waits, until the node
has taken the one before it, and the answer of an attempt that timed out, also of the
first round, still arrives during a later one, which is the overlap that
`OneValuePerRequest` is about. The retry limits are 0 and none; `AttemptsBounded` is
proved for every limit. In the runs with three segments `MaxBus` is never reached. In Sniffer, `MaxFrames` = 3 completes a segmented upload, or an
expedited one with a frame of another channel in between, and lets a node's state
change and change back; the numbers in `ExpectedPoints` are of at most 16 bits, and
wider types differ in their width only. `MaxRx` = 2 lets a response of another
transaction wait behind one being handled. `MaxItems` only limits how much
passes through the builders. `MaxFrames` ends the behaviours of SdoObserver and Sniffer, hence
`CHECK_DEADLOCK FALSE` in their runs; everywhere else deadlock is checked, and
only a system whose goroutines have all returned may stay as it is.

### Fairness

Each goroutine that can run keeps running (weak fairness of its steps): the Go
scheduler is preemptive, every `select` has a timer or the context, and `Recv`
has a read timeout. In `RawPolling` a `select` with an expired timer and a
cancelled context chooses at random, so the cancelled case is not overlooked for
ever: strong fairness of `IntervalCancelled`. In `Lifecycle` the Collector calls
Shutdown for each pipeline once it has begun to stop. Nothing is assumed of
servers, devices, the bus, or of an expiring shutdown context.

## Proofs

Proved with TLAPS, for all constants that satisfy the modules' assumptions, which
are the rules of `config.go` and the types of the constants:

* `SdoObserver_proofs`. **Soundness**: `TypeCorrect`, `ReassemblyIsSound` and
  `TransfersTracked` (every event is genuine and every transfer is tracked, for
  histories of any length). The inductive invariant is `TypeOK` with both
  properties; `Tracked` carries it: the transfer a channel holds is
  described by positions in the history (request, answer, segments). Events
  follow from the transfer held before the frame; the lemmas show that the
  description survives another frame. **Completeness**: `NothingMissed`. Its
  invariant `CompleteInv` says of each channel what soundness does not, that the
  observer holds a transfer whenever the frames leave one open: an upload that
  was requested and not yet answered (`Awaiting`), one whose segments so far
  alternate (`Accepting`), and that a transfer the last frame completed was
  returned (`Reported`). Which positions are the segments is determined by the
  history (they are all the segment frames after the answer), so the two
  descriptions agree.
* `SdoPolling_proofs`: `TypeCorrect` and `SegmentOwnership` from `IInv`: besides
  types, `p.active` is set exactly while the poller is inside `poll` and is its
  own object's (`ActiveIsOwned`), the dispatch loop has a frame while it handles
  one (`FrameIsHeld`), and a segment is requested for the active poll
  (`SegmentIsForActive`). `AttemptsBounded` (of settings with `max_retries`) needs that retries remain wherever
  another attempt may follow (`AttemptsRemain`). `DelaysBounded` is
  `LaterDelaysAreBounded` for every accepted setting: whenever an attempt has been
  repeated, the delay has been through the clamp. `ValuesAreRequested` is
  `OneValuePerRequest`: a transfer the observer holds is always of what was last
  requested of its node, and completing it forgets both. `SuccessAnswered` needs that every answer
  under way tells the truth about `samples`, and that a poll in segment mode or
  with a result has been answered (`AInv`). `EmittedAtMostOnce`, with retries and
  losses: answers are numbered in the order servers send them, and `OInv` says that
  the frame held and the receive queue are in that order (`QueueInOrder`), that
  what a server sends next is later than all of them (`ServersAreLast`), that what
  the observer has put together is earlier (`TransfersAreNext`), and what was
  emitted earlier still (`EmittedIsPast`).
* `SdoPollingOnce_proofs`, of polling without retries in mode once (`Once`), for any
  objects, losses and delays. **`OnceValuesAreWhole`**: every emitted value is one
  value of one object, complete and in order. **`OnceSuccessIsEmitted`**: with one
  object per node (`OneObjectPerNode`), every successful poll is emitted. Both
  hypotheses are needed: `sdo_polling_torn` joins two attempts when retries are on,
  and in `sdo_polling_shared_emission` the poller, told of a success before the
  frame reaches the observer, requests the next object of that node and so replaces
  the transfer the frame would have completed. Both arguments speak of a channel as
  it will be once the observer has seen what the poller has acted on (`seen`,
  `unread`), since between the two steps of the dispatch loop poller and observer
  disagree. `WInv`, for the first theorem: a transfer not yet
  answered has its request last among those to its node and no answer for it is
  under way but the one to come (`Awaits`); one that is answered waits for exactly part
  k of value v, and at most one frame of its node is under way, that part, the
  request for it, or an abort (`Continues`). This needs that what is answered was
  requested (`RequestsAreSent`), that an answer names a value of its own object
  (`AnswersAreHonest`), and that the observer waits for the object being polled
  (`LatestRequest`). `EInv`, for the second: nothing is under way for a node that has not been asked
  (`NotYetSent`), nor for one without a transfer (`OneRequest`), and the poller's copy
  of the transfer's state (segment mode and toggle bit) is the observer's (`InStep`);
  so the frame that ends a poll with success completes the transfer too.
* `RawPolling_proofs`: `TypeCorrect`, `NoMixing` (from
  `NoOverlapMeansDisjoint`: two patterns the configuration accepts on one COB-ID
  match no common frame), `EmittedBeforeSuccess`, `DelaysBounded`,
  `AttemptsBounded`. `ReportedOnce` needs that the builder holds the response of
  the frame being handled, and only that (`BuilderHoldsTheFrame`); `OnceOnly` that
  a once transaction whose turn is over stays completed (`CompletedIsKept`).
* `Lifecycle_proofs`: `TypeCorrect`, `AtMostOneConnection`, `FirstStartSucceeds`,
  `ShutdownDelivers`, `LoopFlushes`, `Silence`, all from one invariant. It relates
  the Collector's progress to the instances: one shared instance per configuration
  (`Instances`, `OneInstance`), where the Collector is in its calls
  (`CollectorOK`, `Progress`), what a Shutdown under way has already done
  (`StoppingOK`), and that after one that returned nil, of an instance whose first
  Shutdown did not expire, no goroutine is left and nothing is in the builders
  (`QuietOK`). `ShutdownDelivers` is `NothingIsLeftBehind`, for the second caller's nil
  as well; `Silence` allows a call to a consumer only from a loop that outlived an
  expired Shutdown.
* `Sniffer_proofs`: `TypeCorrect`; `NmtStates`; and `Implementation`, the refinement
  `Spec => Observer!Spec`. Routing: the indexes that `New` builds agree with the
  configuration (`Captures`, `ChannelIndex`), so `HandleFrame` gives a frame to the
  observer exactly when the configuration puts it on a channel, with the
  channel's key, its node and the frame's direction (`Routing`). Simulation:
  `handleSDO` is then `Observe` of that channel, if its key is its own, and leaves the
  other channels with their own key alone (`ChannelsHaveKeys`, `SdoStep`); nothing is
  assumed of the keys. `SniffedTransfers` instantiates `SdoObserver_proofs` and carries
  `EventsAreGenuine` and `NoTransferIsMissed` over: on every channel whose key no other
  channel has, the sniffer is told of exactly the transfers that took place. The further assumptions of `Sniffer` say that its
  constants are large enough (`KeysAssumption`, `BytesAssumption`) and that frames
  and PDO entries are records with their fields.
* `Codec_proofs`: `ExtractedBits` (the two paths of `extractBits` and their two
  bounds are one function: bit i of the value is bit `bitOffset + i` of the data, and
  it is read exactly when the field lies within the data) and
  `DecodedExactlyWhenItFits` (for a field that `validateField` accepts). Offsets are
  unbounded integers here.

Only model-checked:

* every liveness property, since TLAPS does not do fairness here;
* `ValuesAreWhole` and `SuccessfulPollsAreEmitted` outside the hypotheses of their
  theorems, where TLC finds them violated, and `SolePollsAreEmitted`, which is the
  conclusion of `OnceSuccessIsEmitted` for a node with one object next to nodes with
  several;
* `MetricsAreDelivered` and `LogsAreDelivered`, which compare lists made by folds and
  `SelectSeq`, and the value of a number, a recursive sum over its bits: they
  need induction over data, which is out of the provers' reach;
* `KindsAgree` and `ResourcesAreKept`: not true of every accepted configuration
  (see the findings), they are checked where frames are flushed one by one.

## Not modelled

* Static attributes and units of fields, timestamps, the wording of log bodies (NMT
  state names, `emcyErrorCodeDescription`) and logging: they are passed on and
  decide nothing. IEEE numbers stay bit patterns.
* The two pollers at once: they share only `sendMu`, the builders and the order
  of their `handleFrame` calls. Sniffer has the requests of the one and the
  responses of the other, without their pacing.
* A signal that is enabled and has no pipeline: `Lifecycle` has the case, Sniffer
  has a consumer for each signal.
* Real time: timers may fire whenever they are armed.
* Sockets: `socketcan_linux.go` wraps a library that is not part of the repository.
  The models assume that `Recv` can be called again after a read timeout, as
  `dispatchLoop` does; whether the library's receiver allows it is not decided here.
  The fake bus is a test double, and its full buffer a lost frame in the models.
* `cmd/canopen-publisher` (fixed frames, pure I/O) and generated metadata.
* A consumer's error: it is logged and the batch dropped, as if consumed.
* The width of Go's `int`: offsets and lengths are unbounded integers.

## Plan

1. Lemmas on `Emit` (adding a point keeps all others and their resources) and on
   `Config` (an accepted configuration has one channel per COB-ID).
2. An abstract specification of polling (each turn yields at most one whole value
   or a failure), implemented by `RawPolling` and, under the conditions the runs
   identify, by `SdoPolling`; both pollers with one dispatch loop.
