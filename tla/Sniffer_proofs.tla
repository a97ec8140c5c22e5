--------------------------- MODULE Sniffer_proofs ---------------------------
(***************************************************************************)
(* The sniffer runs SdoObserver on each channel whose key is its own, for  *)
(* any accepted configuration and any frames: Sniffer's steps are shown to *)
(* be steps of SdoObserver, one channel at a time, and the theorems of     *)
(* SdoObserver_proofs then hold of what the sniffer observes.              *)
(*                                                                         *)
(* The argument has two parts.  Routing: HandleFrame, which looks into     *)
(* the indexes that New built, sends a frame to the observer exactly when  *)
(* the configuration puts it on an SDO channel (ChannelOf), under that     *)
(* channel's key and with the right direction.  Simulation: handleSDO is   *)
(* SdoObserver's Observe on a channel that shares its key with no other,   *)
(* and changes nothing of such a channel when the frame is on another one. *)
(***************************************************************************)
EXTENDS Sniffer, SdoTransfer_proofs, SequenceTheorems
LOCAL INSTANCE SequencesExt

\* The sniffer is the one New makes for an accepted configuration.
Built == s = New(buildSnifferConfig(cfg)) /\ cfg \in Configs /\ Validate(cfg)

(* The raw and the PDO index hold the COB-IDs that the configuration       *)
(* lists, no more and no fewer (buildSnifferConfig).                       *)
LEMMA Captures ==
    ASSUME Built, NEW f
    PROVE  /\ f.id \in s.cfg.rawCobIDs <=> Listed(f)
           /\ f.id \in DOMAIN s.cfg.pdos <=> PDOs(f) # {}
<1>1. s.cfg.rawCobIDs = ToSet(cfg.raw.cobIDs) \cup {m.cobID : m \in ToSet(cfg.raw.messages)}
  BY DEF Built, New, buildSnifferConfig
<1>2. s.cfg.pdos = ByKey(Defs(cfg.pdo), CobID)
  BY DEF Built, New, buildSnifferConfig
<1>3. DOMAIN s.cfg.pdos = {CobID(x) : x \in ToSet(Defs(cfg.pdo))}
  BY <1>2 DEF ByKey
<1>4. ASSUME NEW i \in DOMAIN cfg.pdo PROVE CobID(Defs(cfg.pdo)[i]) = cfg.pdo[i].cobID
  <2> DEFINE p == cfg.pdo[i]
  <2>1. p = [name |-> p.name, cobID |-> p.cobID, fields |-> p.fields] BY ConfigsAssumption DEF Built, ToSet
  <2>2. Defs(cfg.pdo)[i] = [p EXCEPT !.fields = buildSnifferFields(@)] BY DEF Defs
  <2> HIDE DEF p
  <2>3. [p EXCEPT !.fields = buildSnifferFields(@)].cobID = p.cobID BY <2>1
  <2> QED BY <2>2, <2>3 DEF CobID, p
<1>5. DOMAIN Defs(cfg.pdo) = DOMAIN cfg.pdo BY DEF Defs
<1>6. DOMAIN s.cfg.pdos = {cfg.pdo[i].cobID : i \in DOMAIN cfg.pdo} BY <1>3, <1>4, <1>5 DEF ToSet
<1> QED BY <1>1, <1>6 DEF Listed, PDOs, ToSet

(* sdoByCobID has both COB-IDs of each configured channel, with the        *)
(* channel's client COB-ID as the observer key (New).                      *)
LEMMA ChannelIndex ==
    ASSUME Built, NEW f
    PROVE  /\ f.id \in DOMAIN s.sdoByCobID <=> OnChannel(f)
           /\ OnChannel(f) => /\ Channel(f) \in ToSet(cfg.channels) /\ f.id \in {Channel(f).client, Channel(f).server}
                              /\ s.sdoByCobID[f.id] = [node |-> Channel(f).node, key |-> Channel(f).client,
                                                       clientCobID |-> Channel(f).client]
                              /\ Channel(f).client \in ClientIDs /\ Channel(f).node \in 1 .. 127
<1> DEFINE ch(id) == CHOOSE c \in ToSet(cfg.channels) : id \in {c.client, c.server}
<1>1. s.sdoByCobID = [id \in UNION {{c.client, c.server} : c \in ToSet(cfg.channels)} |->
                        [node |-> ch(id).node, key |-> ch(id).client, clientCobID |-> ch(id).client]]
  BY DEF Built, New, buildSnifferConfig
<1>2. f.id \in DOMAIN s.sdoByCobID <=> OnChannel(f)
  BY <1>1 DEF OnChannel
<1>3. Channel(f) = ch(f.id) BY DEF Channel
<1>4. OnChannel(f) => ch(f.id) \in ToSet(cfg.channels) /\ f.id \in {ch(f.id).client, ch(f.id).server} BY DEF OnChannel
<1>5. OnChannel(f) => s.sdoByCobID[f.id] = [node |-> ch(f.id).node, key |-> ch(f.id).client,
                                            clientCobID |-> ch(f.id).client]
  <2> HIDE DEF ch
  <2> QED BY <1>1, <1>2
<1>6. \A c \in ToSet(cfg.channels) : c.client \in ClientIDs /\ c.node \in 1 .. 127
  BY KeysAssumption DEF Built, Validate, validateSDO, validateChannels
<1> HIDE DEF ch
<1> QED BY <1>2, <1>3, <1>4, <1>5, <1>6

\* What the function code and the node id of a COB-ID tell of it.
Codes(id, code, node) ==
    /\ code = FuncSDOTx /\ node # 0 <=> id \in 1409 .. 1535
    /\ code = FuncSDORx /\ node # 0 <=> id \in 1537 .. 1663
    /\ id \in 1409 .. 1535 => id - FuncSDOTx = node
    /\ id \in 1537 .. 1663 => id - FuncSDORx = node
    /\ node \in 0 .. 127

\* The function code and the node id that HandleFrame takes from a COB-ID.
LEMMA FunctionCodes ==
    ASSUME NEW id \in Nat
    PROVE  Codes(id, (id \div 128) * 128, id % 128)
BY DEF Codes, FuncSDOTx, FuncSDORx

\* The input that handling frame f adds to the history when the observer returns e.
Sniff(f, e) == [transaction |-> "", frame |-> f, event |-> e]

\* The channel and the direction of a sniffed frame, without its event.
LEMMA Chan ==
    ASSUME NEW f \in AllFrames, NEW e
    PROVE  /\ ChannelOf(Sniff(f, e)) =
              IF ~f.extended /\ ~Listed(f) /\ PDOs(f) = {} /\ OnChannel(f) THEN <<"configured", Channel(f).client>>
              ELSE IF ~f.extended /\ ~Listed(f) /\ PDOs(f) = {} /\ f.id \in (1409 .. 1535) \cup (1537 .. 1663)
              THEN <<"predefined", f.id % 128>>
              ELSE NoChannel
           /\ SdoFrameIn(Sniff(f, e)) =
              SdoFrameOf(IF f.id = ChannelOf(Sniff(f, e))[2] \/ (ChannelOf(Sniff(f, e))[1] = "predefined" /\ f.id > 1536)
                         THEN ClientToServer ELSE ServerToClient, f.data)
<1>1. Sniff(f, e).transaction = "" /\ Sniff(f, e).frame = f BY DEF Sniff
<1> DEFINE i == Sniff(f, e)
<1>2. Sniffed(i) <=> ~f.extended BY <1>1 DEF Sniffed
<1>3. Default(i) <=> ~f.extended /\ ~Listed(f) /\ PDOs(f) = {} /\ ~OnChannel(f) BY <1>1, <1>2 DEF Default
<1>4. ChannelOf(i) =
        IF Sniffed(i) /\ ~Listed(f) /\ PDOs(f) = {} /\ OnChannel(f) THEN <<"configured", Channel(f).client>>
        ELSE IF Default(i) /\ f.id \in (1409 .. 1535) \cup (1537 .. 1663) THEN <<"predefined", f.id % 128>>
        ELSE NoChannel
  BY DEF ChannelOf, Sniff
<1>5. SdoFrameIn(i) =
        SdoFrameOf(IF f.id = ChannelOf(i)[2] \/ (ChannelOf(i)[1] = "predefined" /\ f.id > 1536)
                   THEN ClientToServer ELSE ServerToClient, f.data)
  BY DEF SdoFrameIn, Sniff
<1> HIDE DEF i
<1>6. ChannelOf(i) =
        IF ~f.extended /\ ~Listed(f) /\ PDOs(f) = {} /\ OnChannel(f) THEN <<"configured", Channel(f).client>>
        ELSE IF ~f.extended /\ ~Listed(f) /\ PDOs(f) = {} /\ f.id \in (1409 .. 1535) \cup (1537 .. 1663)
        THEN <<"predefined", f.id % 128>>
        ELSE NoChannel
  BY <1>2, <1>3, <1>4
<1> QED BY <1>5, <1>6 DEF i

\* handleSDO was called for the channel the frame belongs to.
ToChannel(f, key, node, dir) ==
    /\ handleSDO(key, node, dir, f) /\ node \in 1 .. 127 /\ dir \in {ClientToServer, ServerToClient}
    /\ \A e : LET ch == ChannelOf(Sniff(f, e))
               IN  ch \in SdoChannels /\ ch[2] = key /\ SdoFrameIn(Sniff(f, e)) = SdoFrameOf(dir, f.data)

(* HandleFrame sends a frame to the observer exactly when it belongs to an *)
(* SDO channel, and then under that channel's key, with its node and the   *)
(* frame's direction; every other frame leaves the transfers alone.        *)
LEMMA Routing ==
    ASSUME Built, NEW f \in AllFrames, HandleFrame(f)
    PROVE  \/ /\ \A e : ChannelOf(Sniff(f, e)) = NoChannel
              /\ Handled("", f, NoEvent) /\ UNCHANGED transfers
           \/ \E key, node, dir : ToChannel(f, key, node, dir)
<1> DEFINE raw      == ~f.extended /\ f.id \in s.cfg.rawCobIDs
           pdo      == ~f.extended /\ ~raw /\ f.id \in DOMAIN s.cfg.pdos
           channel  == ~f.extended /\ ~raw /\ ~pdo /\ f.id \in DOMAIN s.sdoByCobID
           coded    == ~f.extended /\ ~raw /\ ~pdo /\ ~channel
           funcCode == (f.id \div 128) * 128
           nodeID   == f.id % 128
           code(c)  == coded /\ funcCode = c
           keep     == Handled("", f, NoEvent) /\ UNCHANGED transfers
           clientID == s.sdoByCobID[f.id].clientCobID
<1>1. \/ (raw \/ pdo) /\ keep
      \/ /\ channel
         /\ handleSDO(channelKey(f.id), s.sdoByCobID[f.id].node,
                      IF f.id = clientID THEN ClientToServer ELSE ServerToClient, f)
      \/ code(FuncHeartbeat) /\ keep
      \/ code(FuncEmergency) /\ keep
      \/ code(FuncSDOTx) /\ nodeID # 0 /\ handleSDO(f.id - FuncSDOTx, nodeID, ServerToClient, f)
      \/ code(FuncSDORx) /\ nodeID # 0 /\ handleSDO(f.id - FuncSDORx, nodeID, ClientToServer, f)
      \/ /\ \/ f.extended
            \/ coded /\ funcCode \notin {FuncHeartbeat, FuncEmergency, FuncSDOTx, FuncSDORx}
            \/ coded /\ funcCode # FuncHeartbeat /\ nodeID = 0
            \/ code(FuncHeartbeat)
         /\ keep
  BY DEF HandleFrame
<1>2. f.id \in Nat /\ f.extended \in BOOLEAN BY FramesAssumption
<1>3. raw <=> ~f.extended /\ Listed(f) BY Captures
<1>4. pdo <=> ~f.extended /\ ~Listed(f) /\ PDOs(f) # {} BY Captures, <1>3
<1>5. channel <=> ~f.extended /\ ~Listed(f) /\ PDOs(f) = {} /\ OnChannel(f) BY <1>3, <1>4, ChannelIndex
<1>6. coded <=> ~f.extended /\ ~Listed(f) /\ PDOs(f) = {} /\ ~OnChannel(f) BY <1>3, <1>4, <1>5
<1> HIDE DEF raw, pdo, channel, coded, keep
<1>a. Codes(f.id, funcCode, nodeID) BY <1>2, FunctionCodes
<1>7. CASE (raw \/ pdo) /\ keep
  <2>1. \A e : ChannelOf(Sniff(f, e)) = NoChannel BY <1>7, <1>3, <1>4, Chan
  <2> QED BY <2>1, <1>7 DEF keep
<1>8. CASE /\ coded \/ f.extended
           /\ f.extended \/ funcCode \notin {FuncSDOTx, FuncSDORx} \/ nodeID = 0
           /\ keep
  <2>1. f.extended \/ f.id \notin (1409 .. 1535) \cup (1537 .. 1663)
    <3> HIDE DEF funcCode, nodeID
    <3> QED BY <1>8, <1>a DEF Codes
  <2>2. \A e : ChannelOf(Sniff(f, e)) = NoChannel BY <1>8, <2>1, <1>6, Chan
  <2> QED BY <2>2, <1>8 DEF keep
<1>9. CASE /\ channel
           /\ handleSDO(channelKey(f.id), s.sdoByCobID[f.id].node,
                        IF f.id = clientID THEN ClientToServer ELSE ServerToClient, f)
  <2> DEFINE dir == IF f.id = Channel(f).client THEN ClientToServer ELSE ServerToClient
  <2>1. OnChannel(f) BY <1>9, <1>5
  <2> DEFINE entry == s.sdoByCobID[f.id]
  <2>a. /\ entry = [node |-> Channel(f).node, key |-> Channel(f).client, clientCobID |-> Channel(f).client]
        /\ Channel(f).node \in 1 .. 127 /\ Channel(f).client \in ClientIDs
    BY <2>1, ChannelIndex, Zenon
  <2>b. entry.node = Channel(f).node /\ entry.key = Channel(f).client /\ entry.clientCobID = Channel(f).client
    <3> HIDE DEF entry
    <3> QED BY <2>a
  <2>2. clientID = Channel(f).client /\ channelKey(f.id) = Channel(f).client
        /\ s.sdoByCobID[f.id].node = Channel(f).node /\ Channel(f).node \in 1 .. 127
        /\ Channel(f).client \in ClientIDs
    BY <2>a, <2>b DEF channelKey
  <2>3. handleSDO(Channel(f).client, Channel(f).node, dir, f) BY <1>9, <2>2
  <2>4. ASSUME NEW e
        PROVE  LET ch == ChannelOf(Sniff(f, e))
               IN  ch \in SdoChannels /\ ch[2] = Channel(f).client
                   /\ SdoFrameIn(Sniff(f, e)) = SdoFrameOf(dir, f.data)
    <3>1. ChannelOf(Sniff(f, e)) = <<"configured", Channel(f).client>> BY <1>9, <1>5, Chan
    <3>2. SdoFrameIn(Sniff(f, e)) = SdoFrameOf(dir, f.data) BY <3>1, Chan
    <3> QED BY <3>1, <3>2, <2>2 DEF SdoChannels
  <2>5. dir \in {ClientToServer, ServerToClient} OBVIOUS
  <2> HIDE DEF dir
  <2>6. ToChannel(f, Channel(f).client, Channel(f).node, dir) BY <2>2, <2>3, <2>4, <2>5 DEF ToChannel
  <2> QED BY <2>6
<1>10. CASE code(FuncSDOTx) /\ nodeID # 0 /\ handleSDO(f.id - FuncSDOTx, nodeID, ServerToClient, f)
  <2>1. f.id \in 1409 .. 1535 /\ nodeID \in 1 .. 127 /\ f.id - FuncSDOTx = nodeID
    <3> HIDE DEF funcCode, nodeID
    <3> QED BY <1>10, <1>a DEF Codes
  <2>2. nodeID \in Nodes BY <2>1, KeysAssumption
  <2>3. handleSDO(nodeID, nodeID, ServerToClient, f) BY <1>10, <2>1
  <2>4. ASSUME NEW e
        PROVE  LET ch == ChannelOf(Sniff(f, e))
               IN  ch \in SdoChannels /\ ch[2] = nodeID
                   /\ SdoFrameIn(Sniff(f, e)) = SdoFrameOf(ServerToClient, f.data)
    <3>1. ChannelOf(Sniff(f, e)) = <<"predefined", nodeID>> BY <1>10, <1>6, <2>1, Chan
    <3>2. SdoFrameIn(Sniff(f, e)) = SdoFrameOf(ServerToClient, f.data) BY <3>1, <2>1, Chan
    <3> QED BY <3>1, <3>2, <2>2 DEF SdoChannels
  <2>6. ToChannel(f, nodeID, nodeID, ServerToClient) BY <2>1, <2>3, <2>4 DEF ToChannel
  <2> QED BY <2>6
<1>11. CASE code(FuncSDORx) /\ nodeID # 0 /\ handleSDO(f.id - FuncSDORx, nodeID, ClientToServer, f)
  <2>1. f.id \in 1537 .. 1663 /\ nodeID \in 1 .. 127 /\ f.id - FuncSDORx = nodeID
    <3> HIDE DEF funcCode, nodeID
    <3> QED BY <1>11, <1>a DEF Codes
  <2>2. nodeID \in Nodes BY <2>1, KeysAssumption
  <2>3. handleSDO(nodeID, nodeID, ClientToServer, f) BY <1>11, <2>1
  <2>4. ASSUME NEW e
        PROVE  LET ch == ChannelOf(Sniff(f, e))
               IN  ch \in SdoChannels /\ ch[2] = nodeID
                   /\ SdoFrameIn(Sniff(f, e)) = SdoFrameOf(ClientToServer, f.data)
    <3>1. ChannelOf(Sniff(f, e)) = <<"predefined", nodeID>> BY <1>11, <1>6, <2>1, Chan
    <3>2. SdoFrameIn(Sniff(f, e)) = SdoFrameOf(ClientToServer, f.data) BY <3>1, <2>1, Chan
    <3> QED BY <3>1, <3>2, <2>2 DEF SdoChannels
  <2>6. ToChannel(f, nodeID, nodeID, ClientToServer) BY <2>1, <2>3, <2>4 DEF ToChannel
  <2> QED BY <2>6
<1> QED
  <2>1. FuncHeartbeat \notin {FuncSDOTx, FuncSDORx} /\ FuncEmergency \notin {FuncSDOTx, FuncSDORx}
    BY DEF FuncHeartbeat, FuncEmergency, FuncSDOTx, FuncSDORx
  <2>2. code(FuncHeartbeat) \/ code(FuncEmergency) => coded /\ funcCode \notin {FuncSDOTx, FuncSDORx}
    BY <2>1
  <2> HIDE DEF funcCode, nodeID, clientID, code
  <2> QED BY <1>1, <1>7, <1>8, <1>9, <1>10, <1>11, <2>2

\* What the history variables hold.
Names == {""} \cup UNION {{t.name : t \in ToSet(c.transactions)} : c \in Configs}
Input == [transaction : Names, frame : AllFrames, event : Event \cup {NoEvent}]

Histories ==
    /\ inputs \in Seq(Input)
    /\ seen \in [SdoChannels -> Seq(SdoFrames)]
    /\ event \in [SdoChannels -> Event \cup {NoEvent}]
    /\ \A ch \in SdoChannels : Len(seen[ch]) <= Len(inputs)

\* A transfer in progress belongs to a node.
Owned ==
    /\ transfers \in [Keys -> [transfer : Transfer \cup {NoTransfer}, node : 0 .. 127]]
    /\ \A k \in Keys : transfers[k].transfer # NoTransfer => transfers[k].node \in 1 .. 127

\* The NMT states are bytes, kept by node id.
NmtOK == DOMAIN nmtState \subseteq 0 .. 127 /\ \A n \in DOMAIN nmtState : nmtState[n] \in Byte

(* The inductive invariant.                                                *)
IInv == Built /\ Histories /\ Owned /\ NmtOK /\ dpc \in {"recv", "metrics", "logs"}

\* Every SDO channel has an observer key, and those in OwnKey share it with no other.
LEMMA ChannelsHaveKeys ==
    /\ \A ch \in SdoChannels : ch[2] \in Keys
    /\ OwnKey \subseteq SdoChannels
    /\ \A c \in OwnKey, d \in SdoChannels : c[2] = d[2] => c = d
    /\ NoChannel \notin SdoChannels
BY DEF OwnKey, SdoChannels, Keys, NoChannel

\* Handling an input extends the histories of the input and of its channel.
LEMMA HistoryStep ==
    ASSUME Histories, NEW tr \in Names, NEW f \in AllFrames, NEW e \in Event \cup {NoEvent}, Handled(tr, f, e),
           LET i == [transaction |-> tr, frame |-> f, event |-> e]
           IN  ChannelOf(i) # NoChannel => ChannelOf(i) \in SdoChannels /\ SdoFrameIn(i) \in SdoFrames
    PROVE  Histories'
<1> DEFINE i  == [transaction |-> tr, frame |-> f, event |-> e]
           ch == ChannelOf(i)
           sf == SdoFrameIn(i)
<1>1. i \in Input BY DEF Input
<1>2. /\ inputs' = Append(inputs, i)
      /\ seen' = IF ch = NoChannel THEN seen ELSE [seen EXCEPT ![ch] = Append(@, sf)]
      /\ event' = IF ch = NoChannel THEN event ELSE [event EXCEPT ![ch] = e]
  BY DEF Handled
<1>3. ch # NoChannel => ch \in SdoChannels /\ sf \in SdoFrames OBVIOUS
<1> HIDE DEF i, ch, sf
<1>4. inputs' \in Seq(Input) /\ Len(inputs') = Len(inputs) + 1 BY <1>1, <1>2 DEF Histories
<1>5. CASE ch = NoChannel BY <1>5, <1>2, <1>4 DEF Histories
<1>6. CASE ch # NoChannel
  <2>1. Append(seen[ch], sf) \in Seq(SdoFrames) /\ Len(Append(seen[ch], sf)) = Len(seen[ch]) + 1
    BY <1>6, <1>3 DEF Histories
  <2>2. seen' \in [SdoChannels -> Seq(SdoFrames)] BY <2>1, <1>2, <1>6 DEF Histories
  <2>3. event' \in [SdoChannels -> Event \cup {NoEvent}] BY <1>2, <1>6 DEF Histories
  <2>4. ASSUME NEW c \in SdoChannels PROVE Len(seen'[c]) <= Len(inputs')
    <3>1. seen'[c] = IF c = ch THEN Append(seen[ch], sf) ELSE seen[c] BY <1>2, <1>6 DEF Histories
    <3>2. Len(seen[c]) \in Nat /\ Len(seen[c]) <= Len(inputs) /\ Len(inputs) \in Nat BY DEF Histories
    <3> QED BY <3>1, <3>2, <2>1, <1>4
  <2> QED BY <1>4, <2>2, <2>3, <2>4 DEF Histories
<1> QED BY <1>5, <1>6

\* A frame changes the NMT state of at most its own node.
LEMMA NmtStep ==
    ASSUME NmtOK, NEW f \in AllFrames, HandleFrame(f)
    PROVE  NmtOK'
<1>1. CASE UNCHANGED nmtState BY <1>1 DEF NmtOK
<1>2. CASE f.data # << >> /\ nmtState' = nextNmtState(f.id % 128, f.data[1])
  <2>1. f.id % 128 \in 0 .. 127
    <3>1. f.id \in Nat BY FramesAssumption
    <3> QED BY <3>1, FunctionCodes DEF Codes
  <2>2. f.data \in Seq(Byte) BY FramesAssumption
  <2>3. f.data[1] \in Byte BY <2>2, <1>2
  <2> QED BY <1>2, <2>1, <2>3 DEF nextNmtState, NmtOK
<1>3. UNCHANGED nmtState \/ (f.data # << >> /\ nmtState' = nextNmtState(f.id % 128, f.data[1]))
  BY DEF HandleFrame, handleSDO
<1> QED BY <1>1, <1>2, <1>3

\* On a channel without a transfer only an opening client frame makes one.
LEMMA OnlyOpeningsOpen ==
    ASSUME NEW sf, FrameFields(sf), ObserveOnChannel(NoTransfer, sf).transfer # NoTransfer
    PROVE  /\ sf.dir = ClientToServer /\ sf.len = sdoFrameLength
           /\ sf.cmd = UploadRequest \/ (Specifier(sf.cmd) = 1 /\ ~ExpeditedBit(sf.cmd))
<1>1. observeSegment(NoTransfer, sf).transfer = NoTransfer BY DEF observeSegment, Ignored, Observed
<1>2. observeServer(NoTransfer, sf).transfer = NoTransfer BY DEF observeServer, Ignored, Observed
<1>3. sf.len >= sdoFrameLength BY DEF ObserveOnChannel, Ignored, Observed, FrameFields, sdoFrameLength
<1>4. sf.dir = ClientToServer BY <1>2, <1>3 DEF ObserveOnChannel, Observed, FrameFields, sdoFrameLength
<1>5. ObserveOnChannel(NoTransfer, sf) = observeClient(NoTransfer, sf)
  BY <1>3, <1>4 DEF ObserveOnChannel, ClientToServer, ServerToClient, FrameFields, sdoFrameLength
<1>6. sf.cmd = UploadRequest \/ (Specifier(sf.cmd) = 1 /\ ~ExpeditedBit(sf.cmd))
  BY <1>1, <1>5 DEF observeClient, Ignored, Observed
<1> QED BY <1>3, <1>4, <1>6 DEF FrameFields, sdoFrameLength

\* The observer that the sniffer calls is the one that SdoObserver specifies.
LEMMA SameObserver ==
    ASSUME NEW t, NEW f
    PROVE  Observer!ObserveOnChannel(t, f) = ObserveOnChannel(t, f)
<1> USE DEF Observer!Ignored, Observer!Observed, Observer!NoTransfer, Observer!NoEvent,
            Observer!ClientToServer, Observer!ServerToClient, Observer!sdoFrameLength,
            Observer!UploadRequest, Observer!Abort, Observer!LowBit, Observer!ExpeditedBit,
            Observer!ToggleBit, Observer!Specifier, Observer!expeditedData, Observer!segmentData,
            Observer!complete, Observer!newTransfer, Observer!abortEvent,
            Ignored, Observed, NoTransfer, NoEvent, ClientToServer, ServerToClient, sdoFrameLength,
            UploadRequest, Abort, LowBit, ExpeditedBit, ToggleBit, Specifier, expeditedData, segmentData,
            complete, newTransfer, abortEvent
<1>1. Observer!observeSegment(t, f) = observeSegment(t, f) BY Zenon DEF Observer!observeSegment, observeSegment
<1>2. Observer!observeClient(t, f) = observeClient(t, f) BY <1>1, Zenon DEF Observer!observeClient, observeClient
<1>3. Observer!observeServer(t, f) = observeServer(t, f) BY <1>1, Zenon DEF Observer!observeServer, observeServer
<1> QED BY <1>2, <1>3, Zenon DEF Observer!ObserveOnChannel, ObserveOnChannel

\* handleSDO is a step of SdoObserver on the frame's channel if the channel's
\* key is its own, and leaves the other channels with their own key alone.
LEMMA SdoStep ==
    ASSUME IInv, NEW f \in AllFrames, NEW key, NEW node, NEW dir, ToChannel(f, key, node, dir), Len(inputs) < MaxFrames
    PROVE  /\ Histories' /\ Owned'
           /\ [Observer!Next]_(Observer!vars)
<1> DEFINE sf == SdoFrameOf(dir, f.data)
           t  == transfers[key].transfer
           o  == ObserveOnChannel(t, sf)
           ch == ChannelOf(Sniff(f, o.event))
<1>1. sf \in SdoFrames BY DEF SdoFrames, ToChannel
<1>2. FrameFields(sf) BY <1>1, BytesAssumption DEF FrameFields, SdoFrame
<1>3. ch \in SdoChannels /\ ch[2] = key /\ SdoFrameIn(Sniff(f, o.event)) = sf BY DEF ToChannel
<1>4. key \in Keys BY <1>3, ChannelsHaveKeys
<1>5. t \in Transfer \cup {NoTransfer} BY <1>4 DEF IInv, Owned
<1>6. o.transfer \in Transfer \cup {NoTransfer} /\ o.event \in Event \cup {NoEvent}
  BY <1>2, <1>5, ObserveType
<1>7. /\ transfers' = [transfers EXCEPT ![key] = [transfer |-> o.transfer, node |-> ownerOf(key, node, sf)]]
      /\ Handled("", f, o.event)
  BY DEF ToChannel, handleSDO
<1>8. ch # NoChannel BY <1>3, ChannelsHaveKeys
<1>9. Histories'
  <2>1. "" \in Names BY DEF Names
  <2> HIDE DEF sf, o, t
  <2> QED BY <2>1, <1>1, <1>3, <1>6, <1>7, HistoryStep DEF IInv, Sniff
<1>10. Owned'
  <2>1. ownerOf(key, node, sf) \in 0 .. 127 BY <1>4 DEF ownerOf, IInv, Owned, ToChannel
  <2>2. o.transfer # NoTransfer => ownerOf(key, node, sf) \in 1 .. 127
    <3>1. CASE t = NoTransfer
      <4>1. o.transfer # NoTransfer => ownerOf(key, node, sf) = node
         BY <3>1, <1>2, OnlyOpeningsOpen DEF ownerOf
      <4> QED BY <4>1 DEF ToChannel
    <3>2. CASE t # NoTransfer BY <3>2, <1>4 DEF ownerOf, IInv, Owned, ToChannel
    <3> QED BY <3>1, <3>2
  <2> HIDE DEF o, sf, t
  <2> QED BY <2>1, <2>2, <1>4, <1>6, <1>7 DEF IInv, Owned
<1> DEFINE mapped   == [c \in OwnKey |-> transfers[c[2]].transfer]
           ownSeen  == [c \in OwnKey |-> seen[c]]
           ownEvent == [c \in OwnKey |-> event[c]]
<1>11. ASSUME NEW c \in OwnKey
       PROVE  /\ transfers'[c[2]].transfer = IF c = ch THEN o.transfer ELSE transfers[c[2]].transfer
              /\ seen'[c] = IF c = ch THEN Append(seen[c], sf) ELSE seen[c]
              /\ event'[c] = IF c = ch THEN o.event ELSE event[c]
  <2> HIDE DEF o, sf, ch
  <2>1. c \in SdoChannels /\ c[2] \in Keys /\ (c[2] = key <=> c = ch) BY <1>3, ChannelsHaveKeys
  <2>2. transfers'[c[2]].transfer = IF c = ch THEN o.transfer ELSE transfers[c[2]].transfer
    BY <2>1, <1>4, <1>7 DEF IInv, Owned
  <2>3. seen' = [seen EXCEPT ![ch] = Append(@, sf)] /\ event' = [event EXCEPT ![ch] = o.event]
    BY <1>7, <1>3, <1>8 DEF Handled, Sniff, ch
  <2>4. seen \in [SdoChannels -> Seq(SdoFrames)] /\ event \in [SdoChannels -> Event \cup {NoEvent}]
    BY DEF IInv, Histories
  <2> QED BY <2>1, <2>2, <2>3, <2>4, <1>3
<1>12. CASE ch \in OwnKey
  <2>1. mapped' = [mapped EXCEPT ![ch] = o.transfer]
    <3> HIDE DEF o, ch, sf
    <3> QED BY <1>11, <1>12
  <2>2. ownSeen' = [ownSeen EXCEPT ![ch] = Append(@, sf)]
    <3> HIDE DEF o, ch, sf
    <3> QED BY <1>11, <1>12
  <2>3. ownEvent' = [ownEvent EXCEPT ![ch] = o.event]
    <3> HIDE DEF o, ch, sf
    <3> QED BY <1>11, <1>12
  <2>4. mapped[ch] = t /\ ownSeen[ch] = seen[ch] BY <1>3, <1>12
  <2>5. Len(ownSeen[ch]) < MaxFrames
    <3>1. Len(seen[ch]) \in Nat /\ Len(inputs) \in Nat /\ Len(seen[ch]) <= Len(inputs) BY <1>3 DEF IInv, Histories
    <3> HIDE DEF ch, ownSeen
    <3> QED BY <2>4, <3>1, MaxFramesAssumption
  <2>6. o = Observer!ObserveOnChannel(mapped[ch], sf) BY <2>4, SameObserver
  <2>7. Observer!Observe(ch, sf)
    <3> HIDE DEF ch, sf, o
    <3> QED BY <2>1, <2>2, <2>3, <2>5, <2>6 DEF Observer!Observe
  <2> QED BY <1>1, <1>9, <1>10, <1>12, <2>7 DEF Observer!Next
<1>13. CASE ch \notin OwnKey
  <2>1. mapped' = mapped /\ ownSeen' = ownSeen /\ ownEvent' = ownEvent
    <3> HIDE DEF o, ch, sf
    <3> QED BY <1>11, <1>13
  <2> QED BY <1>9, <1>10, <2>1 DEF Observer!vars
<1> QED BY <1>12, <1>13

\* The inputs that are heartbeats, and NmtStateIsCurrent said of them.
Beats == {k \in DOMAIN inputs : IsHeartbeat(inputs[k])}

Current ==
    /\ \A k \in Beats :
        (\A j \in Beats : j > k => inputs[j].frame.id # inputs[k].frame.id)
        => LET n == inputs[k].frame.id - FuncHeartbeat
           IN  n \in DOMAIN nmtState /\ nmtState[n] = inputs[k].frame.data[1]
    /\ \A n \in DOMAIN nmtState : \E k \in Beats : inputs[k].frame.id = n + FuncHeartbeat

\* Current is NmtStateIsCurrent.
LEMMA CurrentIsEnough == ASSUME Histories, Current PROVE NmtStateIsCurrent
<1>1. inputs \in Seq(Input) BY DEF Histories
<1>2. DOMAIN inputs = 1 .. Len(inputs) /\ Len(inputs) \in Nat BY <1>1
<1> QED BY <1>2 DEF Current, Beats, NmtStateIsCurrent

\* The sniffer starts with the invariants, and where the observer starts.
LEMMA Initially == Init => IInv /\ Current /\ Observer!New
<1> SUFFICES ASSUME Init PROVE IInv /\ Current /\ Observer!New OBVIOUS
<1>1. Built /\ NmtOK /\ dpc \in {"recv", "metrics", "logs"}
  BY DEF Init, Built, NmtOK
<1>2. Histories
  <2>1. inputs = << >> /\ seen = [ch \in SdoChannels |-> << >>] /\ event = [ch \in SdoChannels |-> NoEvent]
    BY DEF Init
  <2>2. << >> \in Seq(Input) /\ << >> \in Seq(SdoFrames) /\ Len(<< >>) = 0 OBVIOUS
  <2> QED BY <2>1, <2>2 DEF Histories
<1>3. Owned BY DEF Init, Owned
<1>4. Current BY DEF Init, Current, Beats
<1>5. Observer!New
  <2>1. \A ch \in OwnKey : ch \in SdoChannels /\ ch[2] \in Keys BY ChannelsHaveKeys
  <2> QED BY <2>1 DEF Init, Observer!New, Observer!NoTransfer, Observer!NoEvent, NoTransfer, NoEvent
<1> QED BY <1>1, <1>2, <1>3, <1>4, <1>5 DEF IInv

\* HandleFrame keeps the invariant and takes at most one step of the observer.
LEMMA FrameStep ==
    ASSUME IInv, NEW f \in AllFrames, HandleFrame(f), Len(inputs) < MaxFrames, UNCHANGED <<cfg, s>>,
           dpc' \in {"recv", "metrics", "logs"}
    PROVE  IInv' /\ [Observer!Next]_(Observer!vars)
<1>1. Built' BY DEF IInv, Built
<1>2. NmtOK' BY NmtStep DEF IInv
<1>3. CASE /\ \A e : ChannelOf(Sniff(f, e)) = NoChannel
           /\ Handled("", f, NoEvent) /\ UNCHANGED transfers
  <2>1. Histories'
    <3>1. "" \in Names BY DEF Names
    <3> QED BY <1>3, <3>1, HistoryStep DEF IInv, Sniff
  <2>2. Owned' BY <1>3 DEF IInv, Owned
  <2>3. UNCHANGED <<seen, event>> BY <1>3 DEF Handled, Sniff
  <2>4. UNCHANGED Observer!vars BY <1>3, <2>3 DEF Observer!vars
  <2> QED BY <1>1, <1>2, <2>1, <2>2, <2>4 DEF IInv
<1>4. CASE \E key, node, dir : ToChannel(f, key, node, dir)
  <2>1. PICK key, node, dir : ToChannel(f, key, node, dir) BY <1>4
  <2> QED BY <2>1, <1>1, <1>2, SdoStep DEF IInv
<1> QED BY <1>3, <1>4, Routing DEF IInv

\* A transaction of an accepted configuration has a name.
LEMMA TransactionNames ==
    ASSUME Built, NEW t \in ToSet(cfg.transactions)
    PROVE  t.name # "" /\ t.name \in Names
<1>1. validateResponse(t) BY DEF Built, Validate
<1>2. t.name # "" BY <1>1 DEF validateResponse
<1>3. cfg \in Configs BY DEF Built
<1> DEFINE named(c) == {x.name : x \in ToSet(c.transactions)}
<1>4. t.name \in named(cfg) OBVIOUS
<1>5. Names = {""} \cup UNION {named(c) : c \in Configs} BY DEF Names
<1> HIDE DEF named
<1>6. t.name \in Names BY <1>3, <1>4, <1>5
<1> QED BY <1>2, <1>6

\* A transaction's response never reaches the observer.
LEMMA ResponseStep ==
    ASSUME IInv, NEW f \in AllFrames, NEW t \in ToSet(cfg.transactions), RawResponse(t, f)
    PROVE  IInv' /\ UNCHANGED Observer!vars
<1> DEFINE i == [transaction |-> t.name, frame |-> f, event |-> NoEvent]
<1>1. t.name # "" /\ t.name \in Names BY TransactionNames DEF IInv
<1>2. ChannelOf(i) = NoChannel
  <2>1. ~Sniffed(i) BY <1>1 DEF Sniffed
  <2>2. ~Default(i) BY <2>1 DEF Default
  <2> QED BY <2>1, <2>2 DEF ChannelOf
<1>3. Handled(t.name, f, NoEvent) /\ dpc' = "metrics" /\ UNCHANGED <<cfg, s, nmtState, transfers>>
  BY DEF RawResponse
<1>4. Histories' BY <1>1, <1>2, <1>3, HistoryStep DEF IInv
<1>5. UNCHANGED <<seen, event>> BY <1>2, <1>3 DEF Handled
<1>6. Built' /\ Owned' /\ NmtOK' BY <1>3 DEF IInv, Built, Owned, NmtOK
<1> QED BY <1>3, <1>4, <1>5, <1>6 DEF IInv, Observer!vars

\* Every step keeps the invariant and is one of the observer, or none.
LEMMA Step ==
    ASSUME IInv, [Next]_vars
    PROVE  IInv' /\ [Observer!Next]_(Observer!vars)
<1>1. ASSUME NEW f \in Frames, Dispatch(f) PROVE IInv' /\ [Observer!Next]_(Observer!vars)
  <2>1. f \in AllFrames BY DEF AllFrames
  <2> QED BY <1>1, <2>1, FrameStep DEF Dispatch
<1>2. ASSUME NEW f \in Frames, NEW t \in ToSet(cfg.transactions), RawResponse(t, f)
      PROVE  IInv' /\ [Observer!Next]_(Observer!vars)
  <2>1. f \in AllFrames BY DEF AllFrames
  <2> QED BY <1>2, <2>1, ResponseStep
<1>3. ASSUME NEW o \in ToSet(cfg.pollObjects), SniffRequest(o)
      PROVE  IInv' /\ [Observer!Next]_(Observer!vars)
  <2>1. PICK f \in PollFrames(cfg, o) : HandleFrame(f) BY <1>3 DEF SniffRequest
  <2>2. f \in AllFrames BY DEF AllFrames, IInv, Built
  <2> QED BY <1>3, <2>1, <2>2, FrameStep DEF SniffRequest, IInv
<1>4. CASE flushMetrics \/ flushLogs \/ UNCHANGED vars
  <2>1. UNCHANGED <<cfg, s, nmtState, transfers, inputs, seen, event>> /\ dpc' \in {"recv", "metrics", "logs"}
    BY <1>4 DEF flushMetrics, flushLogs, vars, IInv
  <2>2. IInv' BY <2>1 DEF IInv, Built, Histories, Owned, NmtOK
  <2>3. UNCHANGED Observer!vars BY <2>1 DEF Observer!vars
  <2> QED BY <2>2, <2>3
<1> QED BY <1>1, <1>2, <1>3, <1>4 DEF Next

(* The invariant holds in every state: the indexes stay those that New     *)
(* built, and no channel has seen more frames than were handled.           *)
THEOREM Invariant == Spec => []IInv
<1>1. IInv /\ [Next]_vars => IInv' BY Step
<1> QED BY <1>1, Initially, PTL DEF Spec

(* Type correctness: in particular a transfer in progress always has an    *)
(* owner, whose node id the event is reported under (handleSDO).           *)
THEOREM TypeCorrect == Spec => []TypeOK
<1>1. IInv => TypeOK BY DEF IInv, TypeOK, Built, Owned, NmtOK
<1> QED BY <1>1, Invariant, PTL

(* The sniffer implements one independent observer for each SDO channel    *)
(* whose key no other channel has, whatever the configuration mixes on the *)
(* bus, channels with a common key included (HandleFrame, New).            *)
THEOREM Implementation == Spec => ObserverIsImplemented
<1>1. IInv /\ [Next]_vars => [Observer!Next]_(Observer!vars) BY Step
<1> QED BY <1>1, Initially, Invariant, PTL DEF Spec, ObserverIsImplemented, Observer!Spec

\* An input adds to the heartbeats at most itself.
LEMMA BeatsGrow ==
    ASSUME Histories, NEW i \in Input, inputs' = Append(inputs, i), UNCHANGED cfg
    PROVE  /\ Beats' = Beats \cup (IF IsHeartbeat(i) THEN {Len(inputs) + 1} ELSE {})
           /\ \A k \in Beats : inputs'[k] = inputs[k] /\ k \in 1 .. Len(inputs)
           /\ inputs'[Len(inputs) + 1] = i /\ Len(inputs) \in Nat
<1>1. inputs \in Seq(Input) BY DEF Histories
<1>2. Len(inputs) \in Nat /\ DOMAIN inputs = 1 .. Len(inputs) BY <1>1
<1>3. DOMAIN inputs' = 1 .. Len(inputs) + 1 /\ inputs'[Len(inputs) + 1] = i BY <1>1
<1>4. \A k \in 1 .. Len(inputs) : inputs'[k] = inputs[k] BY <1>1
<1>5. ASSUME NEW x PROVE IsHeartbeat(x)' <=> IsHeartbeat(x)
  BY DEF IsHeartbeat, Default, Sniffed, Listed, PDOs, OnChannel
<1>6. Beats' = {k \in DOMAIN inputs' : IsHeartbeat(inputs'[k])}
  BY DEF Beats, IsHeartbeat, Default, Sniffed, Listed, PDOs, OnChannel
<1> QED BY <1>2, <1>3, <1>4, <1>6 DEF Beats

\* HandleFrame records the state of a heartbeat, and of no other frame.
LEMMA HeartbeatStep ==
    ASSUME IInv, NEW f \in AllFrames, HandleFrame(f), NEW e
    PROVE  IF IsHeartbeat(Sniff(f, e)) THEN nmtState' = nextNmtState(f.id - FuncHeartbeat, f.data[1])
           ELSE UNCHANGED nmtState
<1> DEFINE raw      == ~f.extended /\ f.id \in s.cfg.rawCobIDs
           pdo      == ~f.extended /\ ~raw /\ f.id \in DOMAIN s.cfg.pdos
           channel  == ~f.extended /\ ~raw /\ ~pdo /\ f.id \in DOMAIN s.sdoByCobID
           coded    == ~f.extended /\ ~raw /\ ~pdo /\ ~channel
           funcCode == (f.id \div 128) * 128
           beat     == coded /\ funcCode = FuncHeartbeat /\ f.data # << >>
<1>1. \/ beat /\ nmtState' = nextNmtState(f.id % 128, f.data[1])
      \/ (raw \/ pdo \/ channel) /\ UNCHANGED nmtState
      \/ funcCode \in {FuncEmergency, FuncSDOTx, FuncSDORx} /\ UNCHANGED nmtState
      \/ /\ f.extended \/ funcCode # FuncHeartbeat \/ f.data = << >>
         /\ UNCHANGED nmtState
  BY DEF HandleFrame, handleSDO
<1>2. f.id \in Nat /\ f.extended \in BOOLEAN BY FramesAssumption
<1>3. Built BY DEF IInv
<1>4. coded <=> ~f.extended /\ ~Listed(f) /\ PDOs(f) = {} /\ ~OnChannel(f) BY <1>3, Captures, ChannelIndex
<1>5. (raw \/ pdo \/ channel \/ f.extended) => ~coded OBVIOUS
<1>6. FuncHeartbeat \notin {FuncEmergency, FuncSDOTx, FuncSDORx}
  BY DEF FuncHeartbeat, FuncEmergency, FuncSDOTx, FuncSDORx
<1>7. IF beat THEN nmtState' = nextNmtState(f.id % 128, f.data[1]) ELSE UNCHANGED nmtState
  <2> HIDE DEF raw, pdo, channel, coded, funcCode
  <2> QED BY <1>1, <1>5, <1>6
<1>8. funcCode = FuncHeartbeat <=> f.id \in 1792 .. 1919 BY <1>2 DEF FuncHeartbeat
<1>9. f.id \in 1792 .. 1919 => f.id % 128 = f.id - FuncHeartbeat BY <1>2 DEF FuncHeartbeat
<1> HIDE DEF raw, pdo, channel, coded, funcCode
<1>10. Default(Sniff(f, e)) <=> coded
  <2>1. Sniff(f, e).transaction = "" /\ Sniff(f, e).frame = f BY DEF Sniff
  <2>2. Sniffed(Sniff(f, e)) <=> ~f.extended BY <2>1 DEF Sniffed
  <2> QED BY <1>4, <2>1, <2>2 DEF Default
<1>11. IsHeartbeat(Sniff(f, e)) <=> coded /\ f.id \in 1792 .. 1919 /\ f.data # << >>
  <2>1. Sniff(f, e).frame = f BY DEF Sniff
  <2> QED BY <1>10, <2>1 DEF IsHeartbeat
<1>12. IsHeartbeat(Sniff(f, e)) <=> beat BY <1>8, <1>11
<1>13. beat => f.id % 128 = f.id - FuncHeartbeat BY <1>8, <1>9
<1> HIDE DEF beat
<1> QED BY <1>7, <1>12, <1>13

\* A frame that is no heartbeat leaves the states, and those told so far, as they are.
LEMMA OtherFrame ==
    ASSUME Histories, Current, NEW i \in Input, inputs' = Append(inputs, i), UNCHANGED <<cfg, nmtState>>,
           ~IsHeartbeat(i)
    PROVE  Current'
<1>1. /\ Beats' = Beats /\ \A k \in Beats : inputs'[k] = inputs[k]
  BY BeatsGrow
<1>2. nmtState' = nmtState OBVIOUS
<1>3. ASSUME NEW k, k \in Beats', \A j \in Beats' : j > k => inputs'[j].frame.id # inputs'[k].frame.id
      PROVE  LET n == inputs'[k].frame.id - FuncHeartbeat
             IN  n \in DOMAIN nmtState' /\ nmtState'[n] = inputs'[k].frame.data[1]
  <2>1. k \in Beats /\ inputs'[k] = inputs[k] BY <1>1, <1>3
  <2>2. \A j \in Beats : j > k => inputs[j].frame.id # inputs[k].frame.id BY <1>1, <1>3, <2>1
  <2> QED BY <1>2, <2>1, <2>2 DEF Current
<1>4. ASSUME NEW n \in DOMAIN nmtState' PROVE \E k \in Beats' : inputs'[k].frame.id = n + FuncHeartbeat
  <2>1. PICK k \in Beats : inputs[k].frame.id = n + FuncHeartbeat BY <1>2 DEF Current
  <2> QED BY <2>1, <1>1
<1> QED BY <1>3, <1>4 DEF Current

\* A heartbeat's COB-ID and its node id determine each other.
LEMMA HeartbeatIDs ==
    \A a \in 1792 .. 1919 : a = (a - FuncHeartbeat) + FuncHeartbeat
BY DEF FuncHeartbeat

\* A heartbeat makes its state the current one of its node, and of no other.
LEMMA Heartbeat ==
    ASSUME Histories, Current, NEW i \in Input, inputs' = Append(inputs, i), UNCHANGED cfg, IsHeartbeat(i),
           nmtState' = nextNmtState(i.frame.id - FuncHeartbeat, i.frame.data[1])
    PROVE  Current'
<1> DEFINE last == Len(inputs) + 1
           node == i.frame.id - FuncHeartbeat
<1>1. /\ Beats' = Beats \cup {last}
      /\ \A k \in Beats : inputs'[k] = inputs[k] /\ k \in 1 .. Len(inputs)
      /\ inputs'[last] = i /\ Len(inputs) \in Nat
  BY BeatsGrow
<1>2. i.frame.id \in 1792 .. 1919 BY DEF IsHeartbeat
<1>3. \A k \in Beats : inputs[k].frame.id \in 1792 .. 1919 BY DEF Beats, IsHeartbeat
<1>4. /\ DOMAIN nmtState' = DOMAIN nmtState \cup {node}
      /\ nmtState'[node] = i.frame.data[1]
      /\ \A n \in DOMAIN nmtState : n # node => nmtState'[n] = nmtState[n]
  BY DEF nextNmtState
<1>5. ASSUME NEW k, k \in Beats', \A j \in Beats' : j > k => inputs'[j].frame.id # inputs'[k].frame.id
      PROVE  LET n == inputs'[k].frame.id - FuncHeartbeat
             IN  n \in DOMAIN nmtState' /\ nmtState'[n] = inputs'[k].frame.data[1]
  <2>1. CASE k = last BY <2>1, <1>1, <1>4
  <2>2. CASE k # last
    <3> DEFINE n == inputs[k].frame.id - FuncHeartbeat
    <3>1. k \in Beats /\ inputs'[k] = inputs[k] /\ k \in 1 .. Len(inputs) BY <1>5, <2>2, <1>1
    <3>2. last > k BY <3>1, <1>1
    <3>3. inputs[k].frame.id # i.frame.id BY <1>5, <3>1, <3>2, <1>1
    <3>4. n # node
      <4>1. inputs[k].frame.id \in 1792 .. 1919 BY <3>1, <1>3
      <4>2. inputs[k].frame.id = n + FuncHeartbeat BY ONLY <4>1, HeartbeatIDs
      <4>3. i.frame.id = node + FuncHeartbeat BY ONLY <1>2, HeartbeatIDs
      <4> HIDE DEF n, node
      <4> QED BY <4>2, <4>3, <3>3
    <3>5. \A j \in Beats : j > k => inputs[j].frame.id # inputs[k].frame.id BY <1>5, <1>1, <3>1
    <3>6. n \in DOMAIN nmtState /\ nmtState[n] = inputs[k].frame.data[1] BY <3>1, <3>5 DEF Current
    <3> QED BY <3>1, <3>4, <3>6, <1>4
  <2> QED BY <2>1, <2>2
<1>6. ASSUME NEW n \in DOMAIN nmtState' PROVE \E k \in Beats' : inputs'[k].frame.id = n + FuncHeartbeat
  <2>1. CASE n = node
    <3>1. i.frame.id = node + FuncHeartbeat BY ONLY <1>2, HeartbeatIDs
    <3> HIDE DEF node
    <3>2. i.frame.id = n + FuncHeartbeat BY <2>1, <3>1, Zenon
    <3> QED BY <3>2, <1>1
  <2>2. CASE n # node
    <3>1. n \in DOMAIN nmtState BY <2>2, <1>4
    <3>2. PICK k \in Beats : inputs[k].frame.id = n + FuncHeartbeat BY <3>1 DEF Current
    <3> QED BY <3>2, <1>1
  <2> QED BY <2>1, <2>2
<1> QED BY <1>5, <1>6 DEF Current

\* Every step keeps the NMT states current.
LEMMA CurrentStep ==
    ASSUME IInv, IInv', Current, [Next]_vars
    PROVE  Current'
<1>1. ASSUME NEW f \in AllFrames, HandleFrame(f), UNCHANGED cfg PROVE Current'
  <2>1. PICK e : inputs' = Append(inputs, Sniff(f, e)) BY <1>1 DEF HandleFrame, handleSDO, Handled, Sniff
  <2>2. Sniff(f, e) \in Input
    <3>1. inputs \in Seq(Input) /\ inputs' \in Seq(Input) BY DEF IInv, Histories
    <3>2. inputs'[Len(inputs) + 1] = Sniff(f, e) /\ Len(inputs') = Len(inputs) + 1 /\ Len(inputs) \in Nat
      BY <2>1, <3>1
    <3> QED BY <3>1, <3>2
  <2>3. Sniff(f, e).frame = f BY DEF Sniff
  <2>4. Histories BY DEF IInv
  <2>5. CASE IsHeartbeat(Sniff(f, e))
    <3>1. nmtState' = nextNmtState(f.id - FuncHeartbeat, f.data[1]) BY <1>1, <2>5, HeartbeatStep
    <3> QED BY <1>1, <2>1, <2>2, <2>3, <2>4, <2>5, <3>1, Heartbeat
  <2>6. CASE ~IsHeartbeat(Sniff(f, e))
    <3>1. UNCHANGED nmtState BY <1>1, <2>6, HeartbeatStep
    <3> QED BY <1>1, <2>1, <2>2, <2>4, <2>6, <3>1, OtherFrame
  <2> QED BY <2>5, <2>6
<1>2. ASSUME NEW f \in Frames, Dispatch(f) PROVE Current'
  <2>1. f \in AllFrames BY DEF AllFrames
  <2> QED BY <1>1, <1>2, <2>1 DEF Dispatch
<1>3. ASSUME NEW o \in ToSet(cfg.pollObjects), SniffRequest(o) PROVE Current'
  <2>1. PICK f \in PollFrames(cfg, o) : HandleFrame(f) BY <1>3 DEF SniffRequest
  <2>2. f \in AllFrames BY DEF AllFrames, IInv, Built
  <2> QED BY <1>1, <1>3, <2>1, <2>2 DEF SniffRequest
<1>4. ASSUME NEW f \in Frames, NEW t \in ToSet(cfg.transactions), RawResponse(t, f) PROVE Current'
  <2> DEFINE i == [transaction |-> t.name, frame |-> f, event |-> NoEvent]
  <2>1. inputs' = Append(inputs, i) /\ UNCHANGED <<cfg, nmtState>> BY <1>4 DEF RawResponse, Handled
  <2>2. t.name # "" /\ t.name \in Names BY TransactionNames DEF IInv
  <2>3. i \in Input BY <2>2 DEF Input, AllFrames
  <2>4. ~IsHeartbeat(i) BY <2>2 DEF IsHeartbeat, Default, Sniffed
  <2> HIDE DEF i
  <2> QED BY <2>1, <2>3, <2>4, OtherFrame DEF IInv
<1>5. CASE flushMetrics \/ flushLogs \/ UNCHANGED vars
  <2>1. UNCHANGED <<cfg, nmtState, inputs>> BY <1>5 DEF flushMetrics, flushLogs, vars
  <2>2. Beats' = Beats BY <2>1 DEF Beats, IsHeartbeat, Default, Sniffed, Listed, PDOs, OnChannel
  <2> QED BY <2>1, <2>2 DEF Current
<1> QED BY <1>2, <1>3, <1>4, <1>5 DEF Next

(* The NMT state kept for a node is the one its latest heartbeat told,     *)
(* whatever else the bus carries (handleHeartbeat).                        *)
THEOREM NmtStates == Spec => []NmtStateIsCurrent
<1>1. IInv /\ IInv' /\ Current /\ [Next]_vars => Current' BY CurrentStep
<1>2. IInv /\ Current => NmtStateIsCurrent BY CurrentIsEnough DEF IInv
<1> QED BY <1>1, <1>2, Initially, Invariant, PTL DEF Spec

\* SdoObserver's theorems, of the observer that the sniffer runs.
ObserverTheorems == INSTANCE SdoObserver_proofs WITH
    Channels <- OwnKey, Frames <- SdoFrames,
    transfers <- [ch \in OwnKey |-> transfers[ch[2]].transfer],
    seen <- [ch \in OwnKey |-> seen[ch]], event <- [ch \in OwnKey |-> event[ch]]

\* The reassembly that those theorems are about is the one the sniffer calls.
LEMMA SameReassembly ==
    ASSUME NEW t, NEW f
    PROVE  ObserverTheorems!ObserveOnChannel(t, f) = ObserveOnChannel(t, f)
<1> USE DEF ObserverTheorems!Ignored, ObserverTheorems!Observed, ObserverTheorems!NoTransfer, ObserverTheorems!NoEvent,
            ObserverTheorems!ClientToServer, ObserverTheorems!ServerToClient, ObserverTheorems!sdoFrameLength,
            ObserverTheorems!UploadRequest, ObserverTheorems!Abort, ObserverTheorems!LowBit, ObserverTheorems!ExpeditedBit,
            ObserverTheorems!ToggleBit, ObserverTheorems!Specifier, ObserverTheorems!expeditedData, ObserverTheorems!segmentData,
            ObserverTheorems!complete, ObserverTheorems!newTransfer, ObserverTheorems!abortEvent,
            Ignored, Observed, NoTransfer, NoEvent, ClientToServer, ServerToClient, sdoFrameLength,
            UploadRequest, Abort, LowBit, ExpeditedBit, ToggleBit, Specifier, expeditedData, segmentData,
            complete, newTransfer, abortEvent
<1>1. ObserverTheorems!observeSegment(t, f) = observeSegment(t, f) BY Zenon DEF ObserverTheorems!observeSegment, observeSegment
<1>2. ObserverTheorems!observeClient(t, f) = observeClient(t, f) BY <1>1, Zenon DEF ObserverTheorems!observeClient, observeClient
<1>3. ObserverTheorems!observeServer(t, f) = observeServer(t, f) BY <1>1, Zenon DEF ObserverTheorems!observeServer, observeServer
<1> QED BY <1>2, <1>3, Zenon DEF ObserverTheorems!ObserveOnChannel, ObserveOnChannel

\* The two instances of SdoObserver are the same specification.
LEMMA SameSpec == ObserverIsImplemented => ObserverTheorems!Spec
<1>1. Observer!New => ObserverTheorems!New
  BY DEF Observer!New, ObserverTheorems!New, Observer!NoTransfer, ObserverTheorems!NoTransfer,
         Observer!NoEvent, ObserverTheorems!NoEvent
<1>2. [Observer!Next]_(Observer!vars) => [ObserverTheorems!Next]_(ObserverTheorems!vars)
  BY SameObserver, SameReassembly DEF Observer!Next, ObserverTheorems!Next, Observer!vars, ObserverTheorems!vars,
                      Observer!Observe, ObserverTheorems!Observe
<1> QED BY <1>1, <1>2, PTL DEF ObserverIsImplemented, Observer!Spec, ObserverTheorems!Spec

(* On every SDO channel whose key no other channel has, each transfer that *)
(* the sniffer is told of really took place on that channel, and each one  *)
(* that took place is told (handleSDO, ObserveOnChannel).  From            *)
(* Implementation and the observer's own theorems.  Nothing is said of a   *)
(* channel whose client COB-ID is a node id and of that node's predefined  *)
(* channel, a configuration that Validate accepts.                         *)
THEOREM SniffedTransfers ==
    Spec => [](ObserverTheorems!EventsAreGenuine /\ ObserverTheorems!NoTransferIsMissed)
<1>1. ObserverTheorems!FramesAssumption
  BY BytesAssumption
  DEF ObserverTheorems!FramesAssumption, ObserverTheorems!SdoFrame, ObserverTheorems!ClientToServer,
      ObserverTheorems!ServerToClient, ObserverTheorems!Byte, ObserverTheorems!sdoFrameLength,
      SdoFrame, ClientToServer, ServerToClient, Byte, sdoFrameLength
<1>2. ObserverTheorems!MaxFramesAssumption
  BY MaxFramesAssumption DEF ObserverTheorems!MaxFramesAssumption
<1>3. ObserverTheorems!Spec
      => [](ObserverTheorems!EventsAreGenuine /\ ObserverTheorems!TransfersAreTracked)
  BY <1>1, <1>2, ObserverTheorems!ReassemblyIsSound, PTL
<1>4. ObserverTheorems!Spec => []ObserverTheorems!NoTransferIsMissed
  BY <1>1, <1>2, ObserverTheorems!NothingMissed, PTL
<1> QED BY <1>3, <1>4, Implementation, SameSpec, PTL
=============================================================================
