----------------------------- MODULE MCSniffer -----------------------------
(* Sniffer under a handful of configurations, valid and invalid, on frames *)
(* of every kind HandleFrame tells apart.  Node 5 has two SDO channels of  *)
(* its own, node 6 is polled on the predefined one.                        *)
EXTENDS Sniffer

F(name, offset, type, metric, log) ==
    [name |-> name, bitOffset |-> offset, type |-> type, byteLen |-> 2, scale |-> 0, offset |-> 0,
     metrics |-> metric, logs |-> log, metricType |-> ""]
Sum(f) == [f EXCEPT !.metricType = "sum", !.scale = 2, !.offset = 1]
Object(node, fields) == [node |-> node, index |-> 8192 + node, subIndex |-> 1, fields |-> fields]
Message(name, id, match, fields) == [name |-> name, cobID |-> id, match |-> match, fields |-> fields]

Both == [metrics |-> TRUE, logs |-> TRUE]
Temp == <<F("temp", 0, "int16", TRUE, TRUE), F("text", 0, "visible_string", FALSE, TRUE)>>

Full == [createDefaultConfig EXCEPT
    !.interface = "can0", !.heartbeat = Both, !.emcy = Both,
    !.channels = <<[node |-> 5, client |-> 768, server |-> 769], [node |-> 5, client |-> 770, server |-> 771]>>,
    !.sniffObjects = <<Object(5, Temp), Object(6, Temp)>>,
    !.pollObjects = <<Object(6, Temp)>>,
    !.pdo = <<[name |-> "status", cobID |-> 389, fields |->
                 <<F("ready", 3, "bool", TRUE, TRUE), Sum(F("level", 4, "int8", TRUE, FALSE))>>]>>,
    !.raw = [metrics |-> TRUE, logs |-> TRUE, cobIDs |-> <<1280>>, messages |->
                <<Message("m", 1280, <<[byteOffset |-> 0, value |-> 1]>>, <<F("level", 8, "uint8", TRUE, FALSE)>>)>>],
    !.transactions = <<Message("t", 1281, <<[byteOffset |-> 0, value |-> 7]>>,
                               <<F("word", 8, "uint16", TRUE, TRUE), F("raw", 8, "bytes", FALSE, TRUE)>>)>>]

\* Raw capture takes node 6's answers; one signal is switched off.
MetricsOnly == [createDefaultConfig EXCEPT
    !.interface = "can0", !.logsEnabled = FALSE, !.heartbeat.metrics = TRUE,
    !.pollObjects = <<Object(6, <<F("temp", 4, "int16", TRUE, FALSE)>>)>>,
    !.raw.metrics = TRUE, !.raw.cobIDs = <<1280, 1414>>]

\* Accepted: a client COB-ID in the range of the node ids, so that a channel of node 5 has node 7's key.
Clash == [createDefaultConfig EXCEPT
    !.interface = "can0", !.channels = <<[node |-> 5, client |-> 7, server |-> 769]>>,
    !.sniffObjects = <<Object(5, Temp), Object(7, Temp)>>]

\* Rejected: a log without the signal, a conflict with the sniffed object, a byte field at a bit.
Invalid == {[Full EXCEPT !.logsEnabled = FALSE],
            [Full EXCEPT !.pollObjects = <<Object(6, <<F("temp", 8, "int16", TRUE, TRUE)>>)>>],
            [Full EXCEPT !.pdo[1].fields = <<F("text", 3, "bytes", FALSE, TRUE)>>]}

MCConfigs == {Full, MetricsOnly, Clash} \cup Invalid

\* The poller's requests to node 6 are captured too.
Captured == {[Full EXCEPT !.raw.cobIDs = <<1280, 1542>>]}

Std(id, data) == [id |-> id, extended |-> FALSE, data |-> data]
Sdo(id, cmd, node, lo, hi) == Std(id, <<cmd, node, 32, 1, lo, hi, 0, 0>>)

MCFrames ==
    {Std(1797, <<5>>), Std(1797, <<127>>), Std(1797, << >>), Std(1792, <<0>>),      \* heartbeats
     Std(133, <<0, 16, 1>>), Std(133, <<0, 0, 0>>), Std(133, <<1>>), Std(128, << >>), \* EMCY, SYNC
     Std(389, <<168>>), Std(389, <<168, 255>>), [id |-> 389, extended |-> TRUE, data |-> <<8>>],
     Std(1280, <<1, 255>>), Std(1280, <<2>>),
     Std(1281, <<7, 1, 128>>), Std(1281, <<7, 1>>),
     Sdo(768, 64, 5, 0, 0), Sdo(769, 75, 5, 254, 255), Sdo(770, 64, 5, 0, 0),        \* node 5
     Sdo(771, 65, 5, 2, 0), Sdo(771, 11, 5, 32, 1),
     Sdo(1542, 43, 6, 1, 2), Sdo(1414, 75, 6, 3, 4), Sdo(1414, 128, 6, 0, 0),        \* node 6
     Sdo(7, 64, 5, 0, 0), Sdo(1415, 75, 5, 1, 0)}                                    \* node 7's key

CapturedFrames == {Std(389, <<168, 255>>), Std(1280, <<1, 255>>), Std(1280, <<2>>)}

\* The bytes of the frames, a short frame filled up with zeros, and of the poller's requests.
Bytes8(f) == SubSeq(f.data \o <<0, 0, 0, 0, 0, 0, 0, 0>>, 1, 8)
MCAddr == {SubSeq(Bytes8(f), 2, 4) : f \in MCFrames} \cup {<<6, 32, 1>>, <<0, 0, 0>>}
MCWord == {SubSeq(Bytes8(f), 5, 8) : f \in MCFrames}
=============================================================================
