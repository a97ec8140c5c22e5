------------------------------ MODULE Sniffer ------------------------------
(***************************************************************************)
(* From frames to batches: the sniffer (internal/sniffer), the observer it *)
(* keeps, the builders it fills, the flushes of the dispatch loop and the  *)
(* raw transactions' emission, under any configuration that Validate       *)
(* accepts.  Both signals have a consumer.                                 *)
(*                                                                         *)
(* Each call under buildersMu is one step.  The dispatch loop handles a    *)
(* frame and then flushes; the SDO poller's goroutine hands its upload     *)
(* requests to the sniffer at any moment and does not flush                *)
(* (sendPollFrame).  inputs and delivered are history variables.           *)
(***************************************************************************)
EXTENDS SdoTransfer, Config, Emit, FiniteSets
LOCAL INSTANCE SequencesExt

CONSTANTS Configs,     \* candidate configurations
          Frames,      \* [id, extended, data]: the frames the bus may carry
          Nodes,       \* node ids that predefined SDO channels are keyed by
          ClientIDs,   \* client COB-IDs that configured SDO channels are keyed by
          MaxFrames    \* bound: frames and requests handled

ASSUME MaxFramesAssumption == MaxFrames \in Nat

VARIABLES cfg,         \* the receiver's configuration
          s,           \* the sniffer's configuration and its indexes
          nmtState,    \* node id -> last NMT state
          transfers,   \* channel key -> transfer in progress and its node
          metrics,     \* metricsBuilder
          logs,        \* logsBuilder
          dpc,         \* the dispatch loop: "recv", "metrics", "logs"
          inputs,      \* history: what was handled, with the observer's event
          delivered,   \* history: what the consumers were given
          seen, event  \* history: the frames and the last event of each SDO channel

vars == <<cfg, s, nmtState, transfers, metrics, logs, dpc, inputs, delivered, seen, event>>

Keys == Nodes \cup ClientIDs

SdoChannels == {<<"configured", id>> : id \in ClientIDs} \cup {<<"predefined", n>> : n \in Nodes}

-----------------------------------------------------------------------------
(* Building the sniffer.                                                   *)

buildSnifferFields(fields) ==
    [i \in DOMAIN fields |->
        LET f == fields[i]
        IN  [name |-> f.name, bitOffset |-> f.bitOffset, type |-> f.type, byteLen |-> f.byteLen,
             scale |-> f.scale, offset |-> f.offset, emitMetric |-> f.metrics, emitLog |-> f.logs,
             metricSum |-> f.metricType = MetricSum]]

\* The list with the fields of each element converted, and the list as a map.
Defs(list)         == [i \in DOMAIN list |-> [list[i] EXCEPT !.fields = buildSnifferFields(@)]]
ByKey(list, k(_))  == [key \in {k(x) : x \in ToSet(list)} |-> list[SelectInSeq(list, LAMBDA x : k(x) = key)]]

buildSnifferConfig(c) ==
    [interface |-> c.interface, heartbeat |-> c.heartbeat, emcy |-> c.emcy,
     rawEmitMetric |-> c.raw.metrics, rawEmitLog |-> c.raw.logs,
     pdos        |-> ByKey(Defs(c.pdo), CobID),
     sdoObjects  |-> Defs(c.sniffObjects \o c.pollObjects),
     sdoChannels |-> c.channels,
     rawCobIDs   |-> ToSet(c.raw.cobIDs) \cup {m.cobID : m \in ToSet(c.raw.messages)},
     rawMessages |-> Defs(c.raw.messages)]

\* New: of two objects with one key the first is kept
New(sc) ==
    [cfg |-> sc,
     sdoIndex |-> ByKey(sc.sdoObjects, sdoObjectKey),
     sdoByCobID |->
        LET ch(id) == CHOOSE c \in ToSet(sc.sdoChannels) : id \in {c.client, c.server}
        IN  [id \in UNION {{c.client, c.server} : c \in ToSet(sc.sdoChannels)} |->
                [node |-> ch(id).node, key |-> ch(id).client, clientCobID |-> ch(id).client]]]

Init ==
    /\ cfg \in {c \in Configs : Validate(c)}
    /\ s = New(buildSnifferConfig(cfg))
    /\ nmtState = << >>
    /\ transfers = [k \in Keys |-> [transfer |-> NoTransfer, node |-> 0]]
    /\ metrics = NewBuilder /\ logs = NewBuilder
    /\ dpc = "recv"
    /\ inputs = << >>
    /\ delivered = [metrics |-> << >>, logs |-> << >>]
    /\ seen = [ch \in SdoChannels |-> << >>] /\ event = [ch \in SdoChannels |-> NoEvent]

-----------------------------------------------------------------------------
(* What an input is, said of the configuration alone, for the histories    *)
(* and the properties.                                                     *)

Listed(f)    == f.id \in ToSet(cfg.raw.cobIDs) \/ \E m \in ToSet(cfg.raw.messages) : f.id = m.cobID
PDOs(f)      == {p \in ToSet(cfg.pdo) : p.cobID = f.id}
OnChannel(f) == \E c \in ToSet(cfg.channels) : f.id \in {c.client, c.server}
Channel(f)   == CHOOSE c \in ToSet(cfg.channels) : f.id \in {c.client, c.server}
Sniffed(i)   == i.transaction = "" /\ ~i.frame.extended
Default(i)   == Sniffed(i) /\ ~Listed(i.frame) /\ PDOs(i.frame) = {} /\ ~OnChannel(i.frame)

NoChannel == <<"none", 0>>

\* The SDO channel an input belongs to, the node behind it, and the direction of the frame.
ChannelOf(i) ==
    IF Sniffed(i) /\ ~Listed(i.frame) /\ PDOs(i.frame) = {} /\ OnChannel(i.frame)
    THEN <<"configured", Channel(i.frame).client>>
    ELSE IF Default(i) /\ i.frame.id \in (1409 .. 1535) \cup (1537 .. 1663)
    THEN <<"predefined", i.frame.id % 128>>
    ELSE NoChannel

NodeOf(i) == IF ChannelOf(i)[1] = "configured" THEN Channel(i.frame).node ELSE i.frame.id % 128

\* The observer's view of a frame (SdoTransfer).
SdoFrameOf(direction, data) ==
    LET byte(k) == IF k <= Len(data) THEN data[k] ELSE 0
    IN  [dir |-> direction, cmd |-> byte(1), addr |-> <<byte(2), byte(3), byte(4)>>,
         word |-> <<byte(5), byte(6), byte(7), byte(8)>>, len |-> Len(data)]

SdoFrameIn(i) ==
    SdoFrameOf(IF i.frame.id = ChannelOf(i)[2] \/ (ChannelOf(i)[1] = "predefined" /\ i.frame.id > 1536)
               THEN ClientToServer ELSE ServerToClient, i.frame.data)

-----------------------------------------------------------------------------
(* The handlers.  Each yields the points and records it adds.              *)

Out(points, records) == [points |-> points, records |-> records]
Nothing == Out(<< >>, << >>)

\* A list with one element if the flag is set.
When(flag, e) == IF flag THEN <<e>> ELSE << >>

resourceAttrs == [interface |-> s.cfg.interface]

emitFields(fields, data, attrs, context) ==
    LET decoded == SelectSeq([i \in DOMAIN fields |->
                        [field |-> fields[i],
                         value |-> Decode(data, fields[i].type, fields[i].bitOffset, fields[i].byteLen)]],
                        LAMBDA d : d.value # Error)
        point(d) == [attrs |-> attrs, name |-> d.field.name,
                     kind  |-> IF d.field.metricSum THEN KindSum ELSE KindGauge,
                     value |-> ApplyScale(d.value, d.field.scale, d.field.offset)]
        metered  == SelectSeq(decoded, LAMBDA d : d.field.emitMetric)
        logged   == SelectSeq(decoded, LAMBDA d : d.field.emitLog)
        body(d)  == BodyValue(d.value, d.field.scale, d.field.offset)
        bodyMap  == [n \in {d.field.name : d \in ToSet(logged)} |->
                        body(CHOOSE d \in ToSet(logged) : d.field.name = n)]
    IN  Out([i \in DOMAIN metered |-> point(metered[i])],
            When(logged # << >>,
                 [attrs |-> attrs, severity |-> "info", context |-> context,
                  body |-> IF Cardinality(DOMAIN bodyMap) = 1 THEN [value |-> body(logged[1])]
                           ELSE [map |-> bodyMap]]))

matches(match, data) ==
    \A m \in ToSet(match) : m.byteOffset < Len(data) /\ data[m.byteOffset + 1] = m.value

\* handleRaw, and handleRawMessage for the first message that matches
handleRaw(f) ==
    LET messages == SelectSeq(s.cfg.rawMessages, LAMBDA m : m.cobID = f.id /\ matches(m.match, f.data))
        attrs    == [cob_id |-> f.id] @@ resourceAttrs
    IN  IF messages # << >>
        THEN emitFields(messages[1].fields, f.data, attrs, [message |-> messages[1].name])
        ELSE Out(When(s.cfg.rawEmitMetric, [attrs |-> attrs, name |-> "canopen.raw.frames", kind |-> KindSum,
                                        value |-> 1, data |-> f.data]),
                 When(s.cfg.rawEmitLog, [attrs |-> attrs, severity |-> "info",
                                     context |-> [cob_id |-> f.id, data |-> f.data], body |-> [raw |-> f.data]]))

handlePDO(pdo, f) == emitFields(pdo.fields, f.data, resourceAttrs, [pdo |-> pdo.name])

NodeAttrs(node) == [node_id |-> node] @@ resourceAttrs

\* Mutant: a state is remembered only when it is the node's first.
heartbeatState(node, state) ==
    [n \in DOMAIN nmtState \cup {node} |-> IF n \in DOMAIN nmtState THEN nmtState[n] ELSE state]

\* s.nmtState after a heartbeat
nextNmtState(node, state) ==
    [n \in DOMAIN nmtState \cup {node} |-> IF n = node THEN state ELSE nmtState[n]]

handleHeartbeat(node, f) ==
    LET state   == f.data[1]
        changed == node \notin DOMAIN nmtState \/ nmtState[node] # state
    IN  Out(When(s.cfg.heartbeat.metrics, [attrs |-> NodeAttrs(node), name |-> "canopen.node.nmt_state",
                                       kind |-> KindGauge, value |-> state]),
            When(s.cfg.heartbeat.logs /\ changed, [attrs |-> NodeAttrs(node), severity |-> "info",
                                               context |-> [node_id |-> node], body |-> [state |-> state]]))

handleEMCY(node, f) ==
    LET errCode == f.data[1] + 256 * f.data[2]
        errReg  == f.data[3]
    IN  IF Len(f.data) < 3 THEN Nothing
        ELSE Out(When(s.cfg.emcy.metrics, [attrs |-> NodeAttrs(node), name |-> "canopen.node.emcy_error_register",
                                       kind |-> KindGauge, value |-> errReg]),
                 When(s.cfg.emcy.logs, [attrs |-> NodeAttrs(node), severity |-> IF errCode = 0 THEN "info" ELSE "warn",
                                    context |-> [node_id |-> node], body |-> [code |-> errCode, register |-> errReg]]))

\* The bytes of an event's data.
EventBytes(e) ==
    FlattenSeq([i \in DOMAIN e.data |->
        SubSeq(IF e.data[i].addr = NoAddr THEN e.data[i].word ELSE e.data[i].addr \o e.data[i].word,
               1, e.data[i].kept)])

objectAddress(addr) == [index |-> addr[1] + 256 * addr[2], subIndex |-> addr[3]]

emitTypedSDO(e, node) ==
    LET object == objectAddress(e.addr)
        key    == <<node, object.index, object.subIndex>>
    IN  IF e = NoEvent \/ e.operation = "abort" \/ key \notin DOMAIN s.sdoIndex THEN Nothing
        ELSE emitFields(s.sdoIndex[key].fields, EventBytes(e), object @@ NodeAttrs(node),
                        object @@ [node_id |-> node, direction |-> e.direction, operation |-> e.operation])

-----------------------------------------------------------------------------
(* HandleFrame and its callers.                                            *)

\* What a handler adds goes to the builders of the enabled signals.
Add(out) ==
    /\ metrics' = IF cfg.metricsEnabled THEN FoldLeft(addMetric, metrics, out.points) ELSE metrics
    /\ logs' = IF cfg.logsEnabled THEN FoldLeft(addLog, logs, out.records) ELSE logs

\* The histories: transaction is the one whose response the frame is, "" if it was sniffed.
Handled(transaction, f, e) ==
    LET i  == [transaction |-> transaction, frame |-> f, event |-> e]
        ch == ChannelOf(i)
    IN  /\ inputs' = Append(inputs, i)
        /\ seen' = IF ch = NoChannel THEN seen ELSE [seen EXCEPT ![ch] = Append(@, SdoFrameIn(i))]
        /\ event' = IF ch = NoChannel THEN event ELSE [event EXCEPT ![ch] = e]

\* Mutant: a transfer keeps the node id it was created with.
keepOwner(key, node, sf) == transfers[key].node

\* A transfer belongs to the node of the frame that opened it.
ownerOf(key, node, sf) ==
    IF /\ sf.dir = ClientToServer /\ sf.len = sdoFrameLength
       /\ sf.cmd = UploadRequest \/ (Specifier(sf.cmd) = 1 /\ ~ExpeditedBit(sf.cmd))
    THEN node ELSE transfers[key].node

handleSDO(key, node, direction, f) ==
    LET sf == SdoFrameOf(direction, f.data)
        o  == ObserveOnChannel(transfers[key].transfer, sf)
        eventNode == IF Specifier(sf.cmd) = 1 \/ sf.cmd = Abort THEN node ELSE transfers[key].node
    IN  /\ transfers' = [transfers EXCEPT ![key] = [transfer |-> o.transfer, node |-> ownerOf(key, node, sf)]]
        /\ Add(emitTypedSDO(o.event, eventNode))
        /\ Handled("", f, o.event)
        /\ UNCHANGED nmtState

FuncEmergency == 128     \* 0x080
FuncSDOTx     == 1408    \* 0x580
FuncSDORx     == 1536    \* 0x600
FuncHeartbeat == 1792    \* 0x700

\* Mutant: a configured channel's transfers are kept under its node id.
channelKeyOfNode(id) == s.sdoByCobID[id].node

\* the observer key of a configured channel
channelKey(id) == s.sdoByCobID[id].key

(* HandleFrame: raw capture first, then PDOs, configured SDO channels, and *)
(* the function code of the COB-ID.                                        *)
HandleFrame(f) ==
    LET funcCode == (f.id \div 128) * 128
        nodeID   == f.id % 128
        raw      == ~f.extended /\ f.id \in s.cfg.rawCobIDs
        pdo      == ~f.extended /\ ~raw /\ f.id \in DOMAIN s.cfg.pdos
        channel  == ~f.extended /\ ~raw /\ ~pdo /\ f.id \in DOMAIN s.sdoByCobID
        coded    == ~f.extended /\ ~raw /\ ~pdo /\ ~channel
        code(c)  == coded /\ funcCode = c
        keep     == Handled("", f, NoEvent) /\ UNCHANGED transfers
    IN  \/ raw /\ Add(handleRaw(f)) /\ keep /\ UNCHANGED nmtState
        \/ pdo /\ Add(handlePDO(s.cfg.pdos[f.id], f)) /\ keep /\ UNCHANGED nmtState
        \/ /\ channel
           /\ handleSDO(channelKey(f.id), s.sdoByCobID[f.id].node,
                        IF f.id = s.sdoByCobID[f.id].clientCobID THEN ClientToServer ELSE ServerToClient, f)
        \/ /\ code(FuncHeartbeat) /\ f.data # << >>
           /\ Add(handleHeartbeat(nodeID, f)) /\ keep
           /\ nmtState' = nextNmtState(nodeID, f.data[1])
        \/ code(FuncEmergency) /\ nodeID # 0 /\ Add(handleEMCY(nodeID, f)) /\ keep /\ UNCHANGED nmtState
        \/ code(FuncSDOTx) /\ nodeID # 0 /\ handleSDO(f.id - FuncSDOTx, nodeID, ServerToClient, f)
        \/ code(FuncSDORx) /\ nodeID # 0 /\ handleSDO(f.id - FuncSDORx, nodeID, ClientToServer, f)
        \/ /\ \/ f.extended
              \/ coded /\ funcCode \notin {FuncHeartbeat, FuncEmergency, FuncSDOTx, FuncSDORx}
              \/ coded /\ funcCode # FuncHeartbeat /\ nodeID = 0
              \/ code(FuncHeartbeat) /\ f.data = << >>
           /\ keep /\ UNCHANGED <<nmtState, metrics, logs>>

\* dispatchLoop: a frame that no transaction claims
Dispatch(f) ==
    /\ dpc = "recv" /\ Len(inputs) < MaxFrames
    /\ HandleFrame(f)
    /\ dpc' = "metrics"
    /\ UNCHANGED <<cfg, s, delivered>>

emitRawTransaction(t, f) ==
    emitFields(buildSnifferFields(t.fields), f.data, [cob_id |-> f.id] @@ resourceAttrs, [transaction |-> t.name])

\* dispatchLoop: a frame that answers the active transaction (RawPolling says which)
RawResponse(t, f) ==
    /\ dpc = "recv" /\ Len(inputs) < MaxFrames
    /\ ~f.extended /\ f.id = t.cobID /\ matches(t.match, f.data)
    /\ Add(emitRawTransaction(t, f))
    /\ Handled(t.name, f, NoEvent)
    /\ dpc' = "metrics"
    /\ UNCHANGED <<cfg, s, nmtState, transfers, delivered>>

\* The frames the SDO poller sends for an object: the upload request and the segment requests.
PollFrames(c, o) ==
    LET channels == SelectSeq(c.channels, LAMBDA ch : ch.node = o.node)
        id == IF channels = << >> THEN FuncSDORx + o.node ELSE channels[1].client
    IN  {[id |-> id, extended |-> FALSE, data |-> d] :
           d \in {<<UploadRequest, o.index % 256, o.index \div 256, o.subIndex, 0, 0, 0, 0>>,
                  <<96, 0, 0, 0, 0, 0, 0, 0>>, <<112, 0, 0, 0, 0, 0, 0, 0>>}}

(* sendPollFrame, up to sending: an upload request from the poller's       *)
(* goroutine, a segment request from the dispatch loop, before it sniffs   *)
(* the frame that it received.                                             *)
SniffRequest(o) ==
    /\ Len(inputs) < MaxFrames
    /\ \E f \in PollFrames(cfg, o) : /\ f.data[1] = UploadRequest \/ dpc = "recv"
                                    /\ HandleFrame(f)
    /\ UNCHANGED <<cfg, s, dpc, delivered>>

flushMetrics ==
    /\ dpc = "metrics" /\ dpc' = "logs"
    /\ metrics' = IF Empty(metrics) THEN metrics ELSE afterEmit(metrics)
    /\ delivered' = [delivered EXCEPT !.metrics = @ \o metrics]
    /\ UNCHANGED <<cfg, s, nmtState, transfers, logs, inputs, seen, event>>

flushLogs ==
    /\ dpc = "logs" /\ dpc' = "recv"
    /\ logs' = IF Empty(logs) THEN logs ELSE afterEmit(logs)
    /\ delivered' = [delivered EXCEPT !.logs = @ \o logs]
    /\ UNCHANGED <<cfg, s, nmtState, transfers, metrics, inputs, seen, event>>

Next ==
    \/ \E f \in Frames : Dispatch(f) \/ \E t \in ToSet(cfg.transactions) : RawResponse(t, f)
    \/ \E o \in ToSet(cfg.pollObjects) : SniffRequest(o)
    \/ flushMetrics \/ flushLogs

Spec == Init /\ [][Next]_vars

-----------------------------------------------------------------------------
(* What should come out, said of the configuration and the inputs.         *)

TypeOK ==
    /\ cfg \in Configs /\ dpc \in {"recv", "metrics", "logs"}
    /\ DOMAIN nmtState \subseteq 0 .. 127 /\ \A n \in DOMAIN nmtState : nmtState[n] \in Byte
    /\ \A k \in Keys : /\ transfers[k].transfer \in Transfer \cup {NoTransfer}
                       /\ transfers[k].transfer # NoTransfer => transfers[k].node \in 1 .. 127

\* The fields declared for an input, and the data they are taken from.
Declared(i) ==
    LET f == i.frame
        messages == SelectSeq(cfg.raw.messages, LAMBDA m : m.cobID = f.id /\ matches(m.match, f.data))
        first(list) == IF list = << >> THEN << >> ELSE list[1].fields
        only(set) == (CHOOSE x \in set : TRUE).fields
        objects == SelectSeq(cfg.pollObjects \o cfg.sniffObjects, LAMBDA o :
                       o.node = NodeOf(i) /\ [index |-> o.index, subIndex |-> o.subIndex] = objectAddress(i.event.addr))
    IN  CASE i.transaction # "" -> [fields |-> only({t \in ToSet(cfg.transactions) : t.name = i.transaction}),
                                    data |-> f.data]
          [] Sniffed(i) /\ Listed(f) -> [fields |-> first(messages), data |-> f.data]
          [] Sniffed(i) /\ ~Listed(f) /\ PDOs(f) # {} -> [fields |-> only(PDOs(f)), data |-> f.data]
          [] ChannelOf(i) # NoChannel /\ i.event.operation \in {"upload", "download"} ->
                 [fields |-> first(objects), data |-> EventBytes(i.event)]
          [] OTHER -> [fields |-> << >>, data |-> << >>]

\* The little-endian number at a field of at most 16 bits, scaled; and the value in a log.
Number(x, data) ==
    LET byte(k) == IF k <= Len(data) THEN data[k] ELSE 0
        first   == x.bitOffset \div 8 + 1
        window  == byte(first) + 256 * byte(first + 1) + 65536 * byte(first + 2)
        w       == BitWidth(x.type)
        n       == (window \div 2^(x.bitOffset % 8)) % 2^w
    IN  (IF x.type \in Signed /\ n >= 2^(w - 1) THEN n - 2^w ELSE n) * (IF x.scale = 0 THEN 1 ELSE x.scale) + x.offset

LogValue(x, data) ==
    LET bytes == SubSeq(data, x.bitOffset \div 8 + 1, x.bitOffset \div 8 + x.byteLen)
    IN  CASE x.type = Bytes -> [hex |-> bytes]
          [] x.type = VisibleString -> [text |-> bytes]
          [] OTHER -> Number(x, data)

IsHeartbeat(i) == Default(i) /\ i.frame.id \in 1792 .. 1919 /\ i.frame.data # << >>
IsEMCY(i)      == Default(i) /\ i.frame.id \in 129 .. 255 /\ Len(i.frame.data) >= 3
IsRaw(i)       == Sniffed(i) /\ Listed(i.frame) /\ Declared(i).fields = << >>

ExpectedPoints(i) ==
    LET d == Declared(i)
        fields == SelectSeq(d.fields, LAMBDA x : x.metrics /\ Fits(x, d.data))
    IN  [k \in DOMAIN fields |-> <<fields[k].name, IF fields[k].metricType = "sum" THEN "sum" ELSE "gauge",
                                   Number(fields[k], d.data)>>]
        \o When(IsRaw(i) /\ cfg.raw.metrics, <<"canopen.raw.frames", "sum", 1>>)
        \o When(IsHeartbeat(i) /\ cfg.heartbeat.metrics, <<"canopen.node.nmt_state", "gauge", i.frame.data[1]>>)
        \o When(IsEMCY(i) /\ cfg.emcy.metrics, <<"canopen.node.emcy_error_register", "gauge", i.frame.data[3]>>)

(* The state kept for a node is the one its latest heartbeat told, and     *)
(* there is one for the nodes heard and no other: whether a heartbeat is   *)
(* logged as a change is decided from it (handleHeartbeat; sniffer.go:     *)
(* "tracks the last known state per node id").                             *)
NmtStateIsCurrent ==
    /\ \A k \in DOMAIN inputs :
        /\ IsHeartbeat(inputs[k])
        /\ \A j \in k + 1 .. Len(inputs) : ~(IsHeartbeat(inputs[j]) /\ inputs[j].frame.id = inputs[k].frame.id)
        => LET n == inputs[k].frame.id - FuncHeartbeat
           IN  n \in DOMAIN nmtState /\ nmtState[n] = inputs[k].frame.data[1]
    /\ \A n \in DOMAIN nmtState : \E k \in DOMAIN inputs :
        IsHeartbeat(inputs[k]) /\ inputs[k].frame.id = n + FuncHeartbeat

\* A heartbeat is news when the node's previous one, if any, told another state.
IsNews(k) ==
    LET earlier == SelectSeq(SubSeq(inputs, 1, k - 1),
                             LAMBDA j : IsHeartbeat(j) /\ j.frame.id = inputs[k].frame.id)
    IN  earlier = << >> \/ Last(earlier).frame.data[1] # inputs[k].frame.data[1]

ExpectedBodies(k) ==
    LET i == inputs[k]
        d == Declared(i)
        fields == SelectSeq(d.fields, LAMBDA x : x.logs /\ Fits(x, d.data))
        map == [n \in {x.name : x \in ToSet(fields)} |->
                   LogValue(CHOOSE x \in ToSet(fields) : x.name = n, d.data)]
    IN  When(Len(fields) = 1, [value |-> LogValue(fields[1], d.data)])
        \o When(Len(fields) > 1, [map |-> map])
        \o When(IsRaw(i) /\ cfg.raw.logs, [raw |-> i.frame.data])
        \o When(IsHeartbeat(i) /\ cfg.heartbeat.logs /\ IsNews(k), [state |-> i.frame.data[1]])
        \o When(IsEMCY(i) /\ cfg.emcy.logs, [code |-> i.frame.data[1] + 256 * i.frame.data[2],
                                             register |-> i.frame.data[3]])

\* No channel of the configuration is keyed like a node: Validate leaves that to the user.
KeysAreDistinct == \A ch \in ToSet(cfg.channels) : ch.client \notin Nodes

\* Everything a signal has delivered or still holds.
AllMetrics == delivered.metrics \o metrics
AllLogs    == delivered.logs \o logs

PointsOf(rm) == FlattenSeq([j \in DOMAIN rm.metrics |-> rm.metrics[j].points])

(* Every field that the configuration declares as a metric and that fits   *)
(* in its frame or transfer, every heartbeat, emergency and captured frame *)
(* comes out exactly once, in order, with its kind and the number that its *)
(* bits, sign, scale and offset make (HandleFrame, Decode, ApplyScale,     *)
(* MetricsBuilder, flushMetrics; Validate: "misconfiguration fails fast    *)
(* instead of silently dropping data").  Not so for two SDO channels with  *)
(* one key (OwnKey below): an answer on the one completes the other's      *)
(* transfer, under the other's node.                                       *)
MetricsAreDelivered ==
    KeysAreDistinct =>
    FlattenSeq([k \in DOMAIN AllMetrics |->
        LET points == PointsOf(AllMetrics[k])
        IN  [j \in DOMAIN points |-> <<points[j].name, points[j].kind, points[j].value>>]])
    = FlattenSeq([k \in DOMAIN inputs |-> ExpectedPoints(inputs[k])])

(* The same of logs: one record for all the logged fields of a frame, and  *)
(* a node's NMT state exactly when it differs from the one its previous    *)
(* heartbeat told (emitFields, handleHeartbeat, LogsBuilder, flushLogs).   *)
(* The body of a single logged field is its value, as emitFields has it    *)
(* and documentation.md says; the receiver's README describes a map keyed  *)
(* by the field's name for any number of fields.                           *)
LogsAreDelivered ==
    KeysAreDistinct =>
    FlattenSeq([k \in DOMAIN AllLogs |->
        [j \in DOMAIN AllLogs[k].records |-> AllLogs[k].records[j].body]])
    = FlattenSeq([k \in DOMAIN inputs |-> ExpectedBodies(k)])

(* All the points of a metric have the metric's kind.  MetricsBuilder.Add  *)
(* takes Sum() or Gauge() of the metric by the point's kind, which panics  *)
(* on the other one; names are unique only within one definition.          *)
KindsAgree ==
    \A k \in DOMAIN AllMetrics : \A m \in ToSet(AllMetrics[k].metrics) : \A p \in ToSet(m.points) : p.kind = m.kind

(* A point or record is reported under the resource it was made for:       *)
(* MetricsBuilder groups "under one ResourceMetrics per distinct           *)
(* ResourceAttrs set" (metrics.go), LogsBuilder likewise.                  *)
ResourcesAreKept ==
    /\ \A k \in DOMAIN AllMetrics : \A p \in ToSet(PointsOf(AllMetrics[k])) : p.attrs = AllMetrics[k].attrs
    /\ \A k \in DOMAIN AllLogs : \A r \in ToSet(AllLogs[k].records) : r.attrs = AllLogs[k].attrs

\* The frames of the bus and of the poller, and as the observer sees them.
AllFrames == Frames \cup UNION {UNION {PollFrames(c, o) : o \in ToSet(c.pollObjects)} : c \in Configs}
SdoFrames == {SdoFrameOf(d, f.data) : d \in {ClientToServer, ServerToClient}, f \in AllFrames}

\* The constants cover what the frames and the configurations mention.
ASSUME FramesAssumption == \A f \in AllFrames : f.id \in Nat /\ f.extended \in BOOLEAN /\ f.data \in Seq(Byte)
ASSUME BytesAssumption  == SdoFrames \subseteq SdoFrame
ASSUME KeysAssumption   ==
    /\ \A f \in AllFrames : f.id \in (1409 .. 1535) \cup (1537 .. 1663) => f.id % 128 \in Nodes
    /\ \A c \in Configs : \A ch \in ToSet(c.channels) : ch.client \in ClientIDs
ASSUME ConfigsAssumption ==
    \A c \in Configs : \A p \in ToSet(c.pdo) : p = [name |-> p.name, cobID |-> p.cobID, fields |-> p.fields]

(* The channels whose observer key is theirs alone.  Validate accepts a    *)
(* client COB-ID in 1 .. 127; its channel then shares the key, and so the  *)
(* transfer in progress, with the predefined channel of that node.         *)
OwnKey == {ch \in SdoChannels : ch[2] \notin Nodes \cap ClientIDs}

Observer == INSTANCE SdoObserver WITH
    Channels <- OwnKey, Frames <- SdoFrames,
    transfers <- [ch \in OwnKey |-> transfers[ch[2]].transfer],
    seen <- [ch \in OwnKey |-> seen[ch]], event <- [ch \in OwnKey |-> event[ch]]

(* The sniffer runs one independent observer for each SDO channel whose    *)
(* key no other channel has: whatever mixture of configured and predefined *)
(* channels, raw captures and PDOs the bus carries, that channel's         *)
(* transfer and events are those of SdoObserver fed with its frames alone  *)
(* (HandleFrame's routing and keys; observer.go: "channelKey must uniquely *)
(* identify the channel within the observer").                             *)
ObserverIsImplemented == Observer!Spec
=============================================================================
