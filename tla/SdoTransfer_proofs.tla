------------------------ MODULE SdoTransfer_proofs -------------------------
(* Facts about the reassembly operators, for any addresses and words.      *)
EXTENDS SdoTransfer, TLAPS

(* What the reassembly needs to know of a frame; a frame may carry more.   *)
FrameFields(f) ==
    /\ f.dir \in {ClientToServer, ServerToClient} /\ f.cmd \in Byte
    /\ f.addr \in Addr /\ f.word \in Word /\ f.len \in 0 .. sdoFrameLength

(* A segment contributes between 0 and 7 bytes and an expedited answer at  *)
(* most 4, whatever the command byte says is unused (frame[1:8-unused] and *)
(* frame[4:8-unused] never slice out of range).                            *)
LEMMA PayloadType ==
    ASSUME NEW f, FrameFields(f)
    PROVE  segmentData(f) \in Payload /\ expeditedData(f) \in Seq(Payload)
<1>1. f.cmd \in Int BY DEF FrameFields, Byte
<1>2. 7 - ((f.cmd \div 2) % 8) \in 0 .. 7 BY <1>1
<1>3. 4 - ((f.cmd \div 4) % 4) \in 0 .. 7 BY <1>1
<1>4. segmentData(f) \in Payload BY <1>2 DEF segmentData, Payload, FrameFields
<1> DEFINE p == [addr |-> NoAddr, word |-> f.word,
                 kept |-> IF LowBit(f.cmd) THEN 4 - ((f.cmd \div 4) % 4) ELSE 4]
<1>5. p \in Payload BY <1>3 DEF Payload, FrameFields
<1>6. expeditedData(f) \in Seq(Payload)
  <2>1. expeditedData(f) = <<p>> BY DEF expeditedData
  <2> HIDE DEF p
  <2> QED BY <2>1, <1>5
<1> QED BY <1>4, <1>6

(* Completing a well-typed transfer gives a well-typed event.              *)
LEMMA CompleteType ==
    ASSUME NEW t \in Transfer, NEW data \in Seq(Payload)
    PROVE  complete(t, data) \in Event
BY DEF complete, Transfer, Event

\* observeClient creates a well-typed transfer.
LEMMA NewTransferType ==
    ASSUME NEW op \in {"upload", "download"}, NEW d \in {ClientToServer, ServerToClient},
           NEW a \in Addr
    PROVE  newTransfer(op, d, a) \in Transfer
BY DEF newTransfer, Transfer

(* Observing any frame leaves a well-typed transfer, or none, and returns  *)
(* a well-typed event, or none (ObserveOnChannel is total).                *)
LEMMA ObserveType ==
    ASSUME NEW t \in Transfer \cup {NoTransfer}, NEW f, FrameFields(f)
    PROVE  /\ ObserveOnChannel(t, f).transfer \in Transfer \cup {NoTransfer}
           /\ ObserveOnChannel(t, f).event \in Event \cup {NoEvent}
<1> DEFINE Good(o) == o.transfer \in Transfer \cup {NoTransfer} /\ o.event \in Event \cup {NoEvent}
<1>1. ASSUME NEW u \in Transfer \cup {NoTransfer} PROVE Good(Ignored(u))
  BY <1>1 DEF Ignored, Observed
<1>2. ASSUME NEW u \in Transfer \cup {NoTransfer}, NEW e \in Event PROVE Good(Observed(u, e))
  BY <1>2 DEF Observed
<1>3. segmentData(f) \in Payload /\ expeditedData(f) \in Seq(Payload) BY PayloadType
<1>4. Good(observeSegment(t, f))
  <2>1. CASE t = NoTransfer \/ t.direction # f.dir \/ (t.operation = "upload" /\ ~t.uploadInitiated)
    <3>1. observeSegment(t, f) = Ignored(t) BY <2>1 DEF observeSegment
    <3> QED BY <3>1, <1>1
  <2>2. CASE /\ ~(t = NoTransfer \/ t.direction # f.dir \/ (t.operation = "upload" /\ ~t.uploadInitiated))
             /\ ToggleBit(f.cmd) # t.toggle
    <3>1. observeSegment(t, f) = Ignored(NoTransfer) BY <2>2 DEF observeSegment
    <3> QED BY <3>1, <1>1
  <2>3. CASE /\ ~(t = NoTransfer \/ t.direction # f.dir \/ (t.operation = "upload" /\ ~t.uploadInitiated))
             /\ ToggleBit(f.cmd) = t.toggle
    <3> DEFINE data == Append(t.data, segmentData(f))
    <3>1. t \in Transfer BY <2>3
    <3>2. data \in Seq(Payload) BY <3>1, <1>3 DEF Transfer
    <3>3. complete(t, data) \in Event BY <3>1, <3>2, CompleteType
    <3>4. [t EXCEPT !.data = data, !.toggle = ~@] \in Transfer BY <3>1, <3>2 DEF Transfer
    <3>5. observeSegment(t, f) = IF LowBit(f.cmd) THEN Observed(NoTransfer, complete(t, data))
                                 ELSE Ignored([t EXCEPT !.data = data, !.toggle = ~@])
      BY <2>3 DEF observeSegment
    <3> HIDE DEF data
    <3>6. CASE LowBit(f.cmd) BY <3>6, <3>5, <3>3, <1>2
    <3>7. CASE ~LowBit(f.cmd) BY <3>7, <3>5, <3>4, <1>1
    <3> QED BY <3>6, <3>7
  <2> QED BY <2>1, <2>2, <2>3
<1>5. ASSUME NEW op \in {"upload", "download"}, NEW d \in {ClientToServer, ServerToClient}
      PROVE  newTransfer(op, d, f.addr) \in Transfer
  BY NewTransferType DEF FrameFields
<1>6. Good(observeClient(t, f))
  <2>1. complete(newTransfer("download", ClientToServer, f.addr), expeditedData(f)) \in Event
    BY <1>3, <1>5, CompleteType
  <2> HIDE DEF Good
  <2> QED BY <1>1, <1>2, <1>4, <1>5, <2>1 DEF observeClient
<1>7. Good(observeServer(t, f))
  <2>1. CASE t = NoTransfer BY <2>1, <1>1 DEF observeServer
  <2>2. CASE t # NoTransfer
    <3>1. t \in Transfer BY <2>2
    <3>2. complete(t, expeditedData(f)) \in Event BY <3>1, <1>3, CompleteType
    <3>3. [t EXCEPT !.uploadInitiated = TRUE] \in Transfer BY <3>1 DEF Transfer
    <3> HIDE DEF Good
    <3> QED BY <2>2, <1>1, <1>2, <1>4, <3>2, <3>3 DEF observeServer
  <2> QED BY <2>1, <2>2
<1>8. abortEvent(f) \in Event
  <2>1. [addr |-> NoAddr, word |-> f.word, kept |-> 4] \in Payload BY DEF Payload, FrameFields
  <2> QED BY <2>1 DEF abortEvent, Event, FrameFields
<1>9. Good(ObserveOnChannel(t, f))
  <2> HIDE DEF Good
  <2> QED BY <1>1, <1>2, <1>6, <1>7, <1>8 DEF ObserveOnChannel
<1> QED BY <1>9
=============================================================================
