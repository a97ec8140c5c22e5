---------------------------- MODULE SdoTransfer ----------------------------
(***************************************************************************)
(* SDO frames and the passive reassembly of SDO transfers                  *)
(* (internal/sdoobserver/observer.go), as constant-level operators: what   *)
(* ObserveOnChannel does to the transfer one channel holds, and the event  *)
(* it returns.  SdoObserver and SdoPolling keep the state.                 *)
(*                                                                         *)
(* A frame is [dir, cmd, addr, word, len]: the command byte data[0] as a   *)
(* number, the three bytes data[1..3] as one address, the four bytes       *)
(* data[4..7] as one word.  A segment's payload is data[1..7], so the same *)
(* two fields are its data: a data byte can look like an address, as on    *)
(* the wire.                                                               *)
(***************************************************************************)
EXTENDS Integers, Sequences

CONSTANTS Addr,     \* values of data[1..3]: index and subindex
          Word,     \* values of data[4..7]
          NoAddr    \* address part of a payload that is data[4..7] alone

ClientToServer == "client_to_server"
ServerToClient == "server_to_client"
sdoFrameLength == 8

Byte == 0 .. 255
SdoFrame == [dir : {ClientToServer, ServerToClient}, cmd : Byte,
             addr : Addr, word : Word, len : 0 .. sdoFrameLength]

\* The fields of a command byte.
Specifier(c)    == c \div 32               \* command & 0xE0
ToggleBit(c)    == (c \div 16) % 2 = 1     \* command & 0x10
ExpeditedBit(c) == (c \div 2) % 2 = 1      \* command & 0x02
LowBit(c)       == c % 2 = 1               \* command & 0x01: size given, or last segment

UploadRequest == 64     \* 0x40
Abort         == 128    \* 0x80

(* The payload a frame contributes: which bytes, and how many are kept.    *)
Payload == [addr : Addr \cup {NoAddr}, word : Word, kept : 0 .. 7]

expeditedData(f) ==
    <<[addr |-> NoAddr, word |-> f.word,
       kept |-> IF LowBit(f.cmd) THEN 4 - ((f.cmd \div 4) % 4) ELSE 4]>>

\* One byte too many, the command byte's own: a mutant of segmentData.
segmentDataOffByOne(f) ==
    [addr |-> f.addr, word |-> f.word,
     kept |-> IF LowBit(f.cmd) THEN 8 - ((f.cmd \div 2) % 8) ELSE 8]

segmentData(f) ==
    [addr |-> f.addr, word |-> f.word,
     kept |-> IF LowBit(f.cmd) THEN 7 - ((f.cmd \div 2) % 8) ELSE 7]

(* A transfer in progress, and an event.  NoTransfer is the absent map     *)
(* entry, NoEvent the nil result (with or without an error: the sniffer    *)
(* drops both).                                                            *)
NoTransfer == [operation |-> "none"]
NoEvent    == [operation |-> "none"]

newTransfer(operation, direction, addr) ==
    [operation |-> operation, direction |-> direction, addr |-> addr,
     uploadInitiated |-> FALSE, toggle |-> FALSE, data |-> << >>]

complete(t, data) ==
    [operation |-> t.operation, direction |-> t.direction, addr |-> t.addr, data |-> data]

abortEvent(f) ==
    [operation |-> "abort", direction |-> f.dir, addr |-> f.addr,
     data |-> <<[addr |-> NoAddr, word |-> f.word, kept |-> 4]>>]

Transfer == [operation : {"upload", "download"}, direction : {ClientToServer, ServerToClient},
             addr : Addr, uploadInitiated : BOOLEAN, toggle : BOOLEAN, data : Seq(Payload)]
Event    == [operation : {"upload", "download", "abort"},
             direction : {ClientToServer, ServerToClient}, addr : Addr, data : Seq(Payload)]

(* The outcome of observing one frame.                                     *)
Observed(t, e) == [transfer |-> t, event |-> e]
Ignored(t)     == Observed(t, NoEvent)

\* observeSegment with the toggle check dropped: a mutant of the next definition.
observeSegmentNoToggle(t, f) ==
    IF \/ t = NoTransfer
       \/ t.direction # f.dir
       \/ t.operation = "upload" /\ ~t.uploadInitiated
    THEN Ignored(t)
    ELSE LET data == Append(t.data, segmentData(f))
         IN  IF LowBit(f.cmd) THEN Observed(NoTransfer, complete(t, data))
             ELSE Ignored([t EXCEPT !.data = data, !.toggle = ~@])

observeSegment(t, f) ==
    IF \/ t = NoTransfer
       \/ t.direction # f.dir
       \/ t.operation = "upload" /\ ~t.uploadInitiated
    THEN Ignored(t)
    ELSE IF ToggleBit(f.cmd) # t.toggle THEN Ignored(NoTransfer)
    ELSE LET data == Append(t.data, segmentData(f))
         IN  IF LowBit(f.cmd) THEN Observed(NoTransfer, complete(t, data))
             ELSE Ignored([t EXCEPT !.data = data, !.toggle = ~@])

\* observeClient keeping the data of the transfer it replaces: a mutant.
observeClientKeepsData(t, f) ==
    IF f.cmd = UploadRequest
        THEN Ignored(IF t = NoTransfer THEN newTransfer("upload", ServerToClient, f.addr)
                     ELSE [newTransfer("upload", ServerToClient, f.addr) EXCEPT !.data = t.data])
    ELSE IF Specifier(f.cmd) # 0 THEN Ignored(t)
    ELSE observeSegment(t, f)

observeClient(t, f) ==
    IF f.cmd = UploadRequest
        THEN Ignored(newTransfer("upload", ServerToClient, f.addr))
    ELSE IF Specifier(f.cmd) = 1
        THEN IF ExpeditedBit(f.cmd)
             THEN Observed(t, complete(newTransfer("download", ClientToServer, f.addr),
                                       expeditedData(f)))
             ELSE Ignored(newTransfer("download", ClientToServer, f.addr))
    ELSE IF Specifier(f.cmd) # 0 THEN Ignored(t)
    ELSE observeSegment(t, f)

\* observeServer accepting an initiation response of any object: a mutant.
observeServerAnyAddress(t, f) ==
    IF t = NoTransfer THEN Ignored(t)
    ELSE IF t.operation = "upload" /\ Specifier(f.cmd) = 2
        THEN IF ExpeditedBit(f.cmd) THEN Observed(NoTransfer, complete(t, expeditedData(f)))
             ELSE Ignored([t EXCEPT !.uploadInitiated = TRUE])
    ELSE IF Specifier(f.cmd) # 0 THEN Ignored(t)
    ELSE observeSegment(t, f)

\* observeServer keeping the transfer it has completed: a mutant.
observeServerKeepsTransfer(t, f) ==
    IF t = NoTransfer THEN Ignored(t)
    ELSE IF t.operation = "upload" /\ Specifier(f.cmd) = 2
        THEN IF f.addr # t.addr THEN Ignored(t)
             ELSE IF ExpeditedBit(f.cmd) THEN Observed(t, complete(t, expeditedData(f)))
             ELSE Ignored([t EXCEPT !.uploadInitiated = TRUE])
    ELSE IF Specifier(f.cmd) # 0 THEN Ignored(t)
    ELSE observeSegment(t, f)

observeServer(t, f) ==
    IF t = NoTransfer THEN Ignored(t)
    ELSE IF t.operation = "upload" /\ Specifier(f.cmd) = 2
        THEN IF f.addr # t.addr THEN Ignored(t)
             ELSE IF ExpeditedBit(f.cmd) THEN Observed(NoTransfer, complete(t, expeditedData(f)))
             ELSE Ignored([t EXCEPT !.uploadInitiated = TRUE])
    ELSE IF Specifier(f.cmd) # 0 THEN Ignored(t)
    ELSE observeSegment(t, f)

(* ObserveOnChannel: an empty or truncated frame changes nothing; a server *)
(* abort closes whatever transfer the channel holds, whatever its address. *)
ObserveOnChannel(t, f) ==
    IF f.len < sdoFrameLength THEN Ignored(t)
    ELSE IF f.dir = ServerToClient /\ f.cmd = Abort THEN Observed(NoTransfer, abortEvent(f))
    ELSE IF f.dir = ClientToServer THEN observeClient(t, f)
    ELSE observeServer(t, f)
=============================================================================
