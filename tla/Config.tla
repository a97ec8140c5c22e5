------------------------------- MODULE Config -------------------------------
(***************************************************************************)
(* The configuration's rules (config.go) as constant-level predicates over *)
(* a record with the sections that decide what is decoded and reported.    *)
(* How the pollers are paced is in SdoPolling and RawPolling.  Units and   *)
(* static attributes, which are only passed on, are left out.              *)
(***************************************************************************)
EXTENDS Codec
LOCAL INSTANCE SequencesExt

createDefaultConfig ==
    [interface |-> "", readTimeout |-> 2, metricsEnabled |-> TRUE, logsEnabled |-> TRUE,
     heartbeat |-> [metrics |-> FALSE, logs |-> FALSE], emcy |-> [metrics |-> FALSE, logs |-> FALSE],
     channels |-> << >>, sniffObjects |-> << >>, pollObjects |-> << >>, pdo |-> << >>,
     raw |-> [metrics |-> FALSE, logs |-> FALSE, cobIDs |-> << >>, messages |-> << >>],
     transactions |-> << >>]

\* No two elements of a list have the same key.
Unique(s, key(_)) == IsInjective([i \in DOMAIN s |-> key(s[i])])

Name(x)  == x.name
CobID(x) == x.cobID

StandardID(id) == id \in 0 .. 2047

MetricGauge == "gauge"
MetricSum   == "sum"

validateField(f) ==
    /\ f.name # "" /\ f.bitOffset >= 0 /\ Valid(f.type)
    /\ f.type \in ByteTypes => f.byteLen > 0 /\ f.bitOffset % 8 = 0 /\ ~f.metrics
    /\ f.metricType \in {"", MetricGauge, MetricSum}

\* the part the validate of a PDO, an SDO object, a raw message and a raw response share
validateFields(fields) ==
    fields # << >> /\ (\A f \in ToSet(fields) : validateField(f)) /\ Unique(fields, Name)

validatePDOs(pdos) ==
    /\ \A p \in ToSet(pdos) : p.name # "" /\ p.cobID \in 1 .. 536870911 /\ validateFields(p.fields)
    /\ Unique(pdos, Name) /\ Unique(pdos, CobID)

sdoObjectKey(object) == <<object.node, object.index, object.subIndex>>

validateObjects(objects) ==
    /\ \A o \in ToSet(objects) : o.node \in 1 .. 127 /\ validateFields(o.fields)
    /\ Unique(objects, sdoObjectKey)

validateChannels(channels) ==
    /\ \A c \in ToSet(channels) : c.node \in 1 .. 127 /\ StandardID(c.client) /\ StandardID(c.server)
    /\ Unique(FlattenSeq([i \in DOMAIN channels |-> <<channels[i].client, channels[i].server>>]),
              LAMBDA id : id)

(* SDOConfig.validate: a polled node has at most one channel, and an       *)
(* object that is also sniffed declares the same fields.                   *)
validateSDO(c) ==
    /\ validateChannels(c.channels) /\ validateObjects(c.sniffObjects) /\ validateObjects(c.pollObjects)
    /\ \A o \in ToSet(c.pollObjects) :
        /\ \A i, j \in DOMAIN c.channels : c.channels[i].node = o.node /\ c.channels[j].node = o.node => i = j
        /\ \A p \in ToSet(c.sniffObjects) : sdoObjectKey(p) = sdoObjectKey(o) => p.fields = o.fields

validateMatch(match) == \A m \in ToSet(match) : m.byteOffset \in 0 .. 7

validateRaw(raw) ==
    /\ \A id \in ToSet(raw.cobIDs) : StandardID(id)
    /\ Unique(raw.cobIDs, LAMBDA id : id)
    /\ \A m \in ToSet(raw.messages) : /\ m.name # "" /\ m.cobID # 0 /\ StandardID(m.cobID)
                                      /\ validateMatch(m.match) /\ validateFields(m.fields)
    /\ Unique(raw.messages, Name)

\* what RawConfig.validate asks of a transaction's name and response (the rest is in RawPolling)
validateResponse(t) ==
    /\ t.name # "" /\ t.cobID # 0 /\ StandardID(t.cobID)
    /\ t.match # << >> /\ validateMatch(t.match) /\ validateFields(t.fields)

\* Whatever asks for an output, a section or a field, needs the signal to be enabled.
checkOutputs(c) ==
    LET fields(s) == UNION {ToSet(x.fields) : x \in ToSet(s)}
    IN  \A out \in {c.heartbeat, c.emcy, c.raw} \cup fields(c.pdo) \cup fields(c.sniffObjects)
                   \cup fields(c.pollObjects) \cup fields(c.raw.messages) \cup fields(c.transactions) :
           (out.metrics => c.metricsEnabled) /\ (out.logs => c.logsEnabled)

Validate(c) ==
    /\ c.interface # "" /\ c.readTimeout > 0 /\ (c.metricsEnabled \/ c.logsEnabled)
    /\ validateSDO(c) /\ validateRaw(c.raw) /\ validatePDOs(c.pdo)
    /\ (\A t \in ToSet(c.transactions) : validateResponse(t)) /\ Unique(c.transactions, Name)
    /\ checkOutputs(c)

\* What a field asks of its data, in bits: the reference that Decode is compared with.
Fits(f, data) ==
    f.bitOffset + (IF f.type \in ByteTypes THEN 8 * f.byteLen ELSE BitWidth(f.type)) <= 8 * Len(data)
=============================================================================
