------------------------- MODULE SdoPolling_proofs -------------------------
(***************************************************************************)
(* The poller goroutine and the dispatch loop share p.active.  The         *)
(* inductive invariant says who owns it when: a poll is active exactly     *)
(* while the poller is between setting and clearing it, and the dispatch   *)
(* loop only builds a segment request for the poll that is active.         *)
(* Answers stay in order from the server to the observer: none is emitted  *)
(* twice, and a request yields at most one value.                          *)
(***************************************************************************)
EXTENDS SdoPolling, SdoTransfer_proofs, SequenceTheorems

handling == dpc \in {"poll", "segmentSniff", "segmentSend", "sniff"}
polling  == ppc \in {"sniff", "send", "wait", "clear"}

ActiveIsOwned ==
    /\ active # NoPoll <=> polling
    /\ active # NoPoll => active.obj = obj

FrameIsHeld == handling => frame \in BusFrame

SegmentIsForActive ==
    sending => active # NoPoll /\ active.segment /\ frame.node = Objects[active.obj].node

IInv == TypeOK /\ ActiveIsOwned /\ FrameIsHeld /\ SegmentIsForActive

(* The validated settings and the defaults, as the proofs use them.        *)
LEMMA SettingsFacts ==
    /\ Mode \in {"once", "interval"} /\ Retry \in BOOLEAN /\ RetryLimits \subseteq Nat \cup {Unlimited}
    /\ Backoff \in Nat /\ MaxBackoff \in Nat
    /\ DefaultBackoff \in Nat \ {0} /\ DefaultMaxBackoff \in Nat \ {0}
    /\ SegmentCount \in Nat \ {0} /\ Lossy \in BOOLEAN /\ MaxSamples \in Nat /\ MaxRounds \in Nat \ {0}
BY ConfigAssumption, SettingsAssumption DEF validate

\* The nil p.active is none of the polls.
LEMMA NoPollIsNotAPoll == NoPoll \notin Poll
BY DEF NoPoll, Poll

\* A frame on the bus is one the observer can be shown.
LEMMA BusFramesHaveFields == ASSUME NEW f \in BusFrame PROVE FrameFields(f) /\ f.node \in Node
BY DEF BusFrame, FrameFields, sdoFrameLength

\* The zero bytes of a request are a data word.
LEMMA EmptyWordIsWord == EmptyWord \in Word
BY WordAssumption, SettingsFacts DEF EmptyWord

\* Each configured object is a node and an address.
LEMMA ObjectsAreRecords == \A i \in 1 .. Len(Objects) : Objects[i] \in [node : Node, addr : Addr]
<1> DEFINE S == [node : Node, addr : Addr]
<1>1. Objects \in Seq(S) BY ObjectsAssumption
<1> HIDE DEF S
<1>2. \A i \in 1 .. Len(Objects) : Objects[i] \in S BY <1>1
<1> QED BY <1>2 DEF S

\* There is an object to poll, and each has its node and address.
LEMMA ObjectFacts ==
    /\ Len(Objects) \in Nat \ {0}
    /\ \A i \in 1 .. Len(Objects) : Objects[i].node \in Node /\ Objects[i].addr \in Addr
<1> DEFINE S == [node : Node, addr : Addr]
<1>1. Objects \in Seq(S) /\ Objects # << >> BY ObjectsAssumption
<1> HIDE DEF S
<1>2. Len(Objects) \in Nat /\ Len(Objects) # 0 BY <1>1
<1> QED BY <1>2, ObjectsAreRecords

\* What the poller sends is a frame.
LEMMA ClientFrameType ==
    ASSUME NEW n \in Node, NEW c \in Byte, NEW a \in Addr
    PROVE  ClientFrame(n, c, a) \in BusFrame
BY EmptyWordIsWord DEF ClientFrame, BusFrame

\* What a server sends is a frame.
LEMMA ServerFrameType ==
    ASSUME NEW n \in Node, NEW c \in Byte, NEW a \in Addr, NEW w \in Word
    PROVE  ServerFrame(n, c, a, w) \in BusFrame
BY DEF ServerFrame, BusFrame

\* The upload request of poll is a frame.
LEMMA RequestType == ASSUME obj \in 1 .. Len(Objects) PROVE request \in BusFrame
BY ObjectFacts, ClientFrameType DEF request, UploadRequest, Byte

\* The segment request of handleFrame is a frame.
LEMMA SegmentRequestType == ASSUME active \in Poll PROVE segmentRequest \in BusFrame
<1>1. active.obj \in 1 .. Len(Objects) /\ 96 + (IF active.toggle THEN 16 ELSE 0) \in Byte
  BY DEF Poll, Byte
<1> QED BY <1>1, ObjectFacts, NoAddrAssumption, ClientFrameType DEF segmentRequest

\* Each part of each answered value is a data word.
LEMMA WordFacts == \A v \in 0 .. MaxSamples, k \in 0 .. SegmentCount : [sample |-> v, part |-> k] \in Word
BY WordAssumption

(* Sniffing any frame leaves the observer and the builder well typed.      *)
LEMMA HandleFrameType ==
    ASSUME TypeOK, NEW f \in BusFrame, HandleFrame(f)
    PROVE  /\ transfers' \in [Node -> Transfer \cup {NoTransfer}] /\ builder' \in Seq(Value)
           /\ requested' \in [Node -> Addr]
<1> DEFINE o == ObserveOnChannel(transfers[f.node], f)
           a == IF o.event.operation \in {"upload", "download"} THEN NoAddr
                ELSE IF f.cmd = UploadRequest THEN f.addr ELSE requested[f.node]
<1>1. FrameFields(f) /\ f.node \in Node BY BusFramesHaveFields
<1>2. transfers[f.node] \in Transfer \cup {NoTransfer} BY <1>1 DEF TypeOK
<1>3. o.transfer \in Transfer \cup {NoTransfer} /\ o.event \in Event \cup {NoEvent}
  BY <1>1, <1>2, ObserveType
<1>4. /\ transfers' = [transfers EXCEPT ![f.node] = o.transfer]
      /\ builder' = IF o.event.operation \in {"upload", "download"}
                    THEN Append(builder, [node |-> f.node, event |-> o.event]) ELSE builder
      /\ requested' = [requested EXCEPT ![f.node] = a]
  BY DEF HandleFrame
<1>10. a \in Addr BY <1>1, NoAddrAssumption DEF TypeOK, FrameFields
<1>11. requested' \in [Node -> Addr] BY <1>1, <1>4, <1>10 DEF TypeOK
<1> HIDE DEF o, a
<1>5. transfers' \in [Node -> Transfer \cup {NoTransfer}] BY <1>1, <1>3, <1>4 DEF TypeOK
<1>6. builder \in Seq(Value) BY DEF TypeOK
<1>7. o.event.operation \in {"upload", "download"} => o.event \in Event BY <1>3 DEF NoEvent
<1>8. o.event \in Event => [node |-> f.node, event |-> o.event] \in Value BY <1>1 DEF Value
<1>9. builder' \in Seq(Value) BY <1>4, <1>6, <1>7, <1>8
<1> QED BY <1>5, <1>9, <1>11

\* sendFrame keeps the bus well typed.
LEMMA SendType ==
    ASSUME TypeOK, NEW f \in BusFrame, sendFrame(f)
    PROVE  bus' \in [Node -> Seq(BusFrame)]
<1>1. f.node \in Node BY BusFramesHaveFields
<1>2. bus \in [Node -> Seq(BusFrame)] BY DEF TypeOK
<1>3. Append(bus[f.node], f) \in Seq(BusFrame) BY <1>1, <1>2
<1>4. bus' = bus \/ bus' = [bus EXCEPT ![f.node] = Append(bus[f.node], f)] BY DEF sendFrame
<1> QED BY <1>1, <1>2, <1>3, <1>4

-----------------------------------------------------------------------------
(* One lemma per step of each actor.                                       *)

\* doStart establishes the invariant.
LEMMA InitIInv == Init => IInv
<1> SUFFICES ASSUME Init PROVE IInv OBVIOUS
<1>1. TypeOK
  <2>1. Len(Objects) \in Nat \ {0} BY ObjectFacts
  <2>2. firstBackoff \in Nat BY SettingsFacts DEF firstBackoff
  <2>3. /\ ppc = "poll" /\ obj = 1 /\ attempt = 0 /\ backoff = firstBackoff /\ round = 1
        /\ outcome = "none" /\ active = NoPoll /\ dpc = "top" /\ frame = NoEvent
        /\ transfers = [n \in Node |-> NoTransfer] /\ builder = << >> /\ consumed = << >>
        /\ maxRetries \in RetryLimits /\ cancelled = FALSE /\ closed = FALSE
        /\ bus = [n \in Node |-> << >>] /\ rx = << >>
        /\ server = [n \in Node |-> NoUpload] /\ samples = << >> /\ succeeded = {}
        /\ requested = [n \in Node |-> NoAddr]
    BY DEF Init
  <2>4. /\ transfers \in [Node -> Transfer \cup {NoTransfer}] /\ builder \in Seq(Value) /\ consumed \in Seq(Value)
        /\ bus \in [Node -> Seq(BusFrame)] /\ rx \in Seq(BusFrame)
        /\ server \in [Node -> Upload \cup {NoUpload}] /\ samples \in Seq([node : Node, addr : Addr])
        /\ requested \in [Node -> Addr]
    BY <2>3, NoAddrAssumption
  <2>5. cancelled \in BOOLEAN /\ closed \in BOOLEAN BY <2>3
  <2> QED BY <2>1, <2>2, <2>3, <2>4, <2>5 DEF TypeOK
<1>2. ActiveIsOwned /\ FrameIsHeld /\ SegmentIsForActive
  BY DEF Init, ActiveIsOwned, FrameIsHeld, SegmentIsForActive, polling, handling, sending
<1> QED BY <1>1, <1>2 DEF IInv

\* Setting p.active keeps the invariant: the poller enters poll.
LEMMA ActivateIInv == ASSUME IInv, Activate PROVE IInv'
<1> USE DEF IInv, TypeOK, ActiveIsOwned, FrameIsHeld, SegmentIsForActive
<1>1. active' = [obj |-> obj, segment |-> FALSE, toggle |-> FALSE, result |-> "none"] BY DEF Activate
<1>2. active' \in Poll /\ active'.obj = obj BY <1>1 DEF Poll
<1>3. active' # NoPoll BY <1>2, NoPollIsNotAPoll
<1>4. TypeOK' BY <1>2 DEF Activate, dispatcher, output, context, external
<1>5. ActiveIsOwned' BY <1>2, <1>3 DEF Activate, polling
<1>6. FrameIsHeld' /\ SegmentIsForActive' BY DEF Activate, muFree, sending, handling, dispatcher
<1> QED BY <1>4, <1>5, <1>6

\* Sniffing the request changes only transfers and builder.
LEMMA SniffRequestIInv == ASSUME IInv, SniffRequest PROVE IInv'
<1> USE DEF IInv, ActiveIsOwned, FrameIsHeld, SegmentIsForActive
<1>1. HandleFrame(request) /\ request \in BusFrame BY RequestType DEF SniffRequest, TypeOK
<1>2. transfers' \in [Node -> Transfer \cup {NoTransfer}] /\ builder' \in Seq(Value) /\ requested' \in [Node -> Addr]
  BY <1>1, HandleFrameType
<1>3. TypeOK' BY <1>2 DEF TypeOK, SniffRequest, dispatcher, context, external
<1>4. ActiveIsOwned' /\ FrameIsHeld' /\ SegmentIsForActive'
  BY DEF SniffRequest, polling, handling, sending, dispatcher
<1> QED BY <1>3, <1>4

\* Sending the request, or failing to, stays within poll.
LEMMA SendRequestIInv == ASSUME IInv, SendRequest PROVE IInv'
<1> USE DEF IInv, ActiveIsOwned, FrameIsHeld, SegmentIsForActive
<1>1. request \in BusFrame BY RequestType DEF TypeOK
<1>2. bus' \in [Node -> Seq(BusFrame)] /\ ppc' \in {"wait", "clear"} /\ outcome' \in {outcome, "failed"}
  BY <1>1, SendType DEF SendRequest, TypeOK
<1>3. TypeOK' BY <1>2 DEF TypeOK, SendRequest, dispatcher, output, context
<1>4. ActiveIsOwned' /\ FrameIsHeld' /\ SegmentIsForActive'
  BY <1>2 DEF SendRequest, polling, handling, sending, dispatcher
<1> QED BY <1>3, <1>4

\* Whatever ends the select, p.active is still set.
LEMMA AwaitIInv == ASSUME IInv, Await PROVE IInv'
<1> USE DEF IInv, TypeOK, ActiveIsOwned, FrameIsHeld, SegmentIsForActive
<1>1. active \in Poll BY DEF Await, polling
<1>2. outcome' \in {"none", "ok", "failed"} BY <1>1 DEF Await, Poll
<1>3. TypeOK' BY <1>2 DEF Await, dispatcher, output, context, external
<1>4. ActiveIsOwned' /\ FrameIsHeld' /\ SegmentIsForActive'
  BY DEF Await, polling, handling, sending, dispatcher
<1> QED BY <1>3, <1>4

\* run's choice of the next object is well typed.
LEMMA NextObjectType ==
    ASSUME TypeOK, NextObject
    PROVE  /\ ppc' \in {"poll", "interval", "done"} /\ obj' \in 1 .. Len(Objects)
           /\ attempt' \in Nat /\ backoff' \in Nat
<1>1. firstBackoff \in Nat BY SettingsFacts DEF firstBackoff
<1>2. Len(Objects) \in Nat BY ObjectFacts
<1> QED BY <1>1, <1>2 DEF NextObject, TypeOK

\* The deferred clear: the poller leaves poll and p.active together.
LEMMA ConcludeIInv == ASSUME IInv, Conclude PROVE IInv'
<1> USE DEF IInv, ActiveIsOwned, FrameIsHeld, SegmentIsForActive
<1>1. /\ ppc' \in {"poll", "interval", "done", "backoff"} /\ obj' \in 1 .. Len(Objects)
      /\ attempt' \in Nat /\ backoff' \in Nat
  BY NextObjectType DEF Conclude, TypeOK
<1>2. succeeded' \subseteq 1 .. Len(Objects) BY DEF Conclude, TypeOK
<1>3. TypeOK' BY <1>1, <1>2 DEF Conclude, TypeOK, dispatcher, output, context, external
<1>4. ActiveIsOwned' /\ FrameIsHeld' /\ SegmentIsForActive'
  BY <1>1 DEF Conclude, polling, handling, sending, muFree, dispatcher
<1> QED BY <1>3, <1>4

\* After the delay, or a cancelled one, no poll is active.
LEMMA BackoffElapsedIInv == ASSUME IInv, BackoffElapsed PROVE IInv'
<1> USE DEF IInv, ActiveIsOwned, FrameIsHeld, SegmentIsForActive
<1>0. nextBackoff \in Nat BY SettingsFacts DEF nextBackoff, maxBackoff, TypeOK
<1>1. /\ ppc' \in {"poll", "interval", "done"} /\ obj' \in 1 .. Len(Objects)
      /\ attempt' \in Nat /\ backoff' \in Nat
  BY <1>0, NextObjectType DEF BackoffElapsed, TypeOK
<1>2. TypeOK' BY <1>1 DEF BackoffElapsed, TypeOK, dispatcher, output, context, external
<1>3. active = NoPoll /\ active' = active BY DEF BackoffElapsed, polling
<1>4. ActiveIsOwned' BY <1>1, <1>3 DEF polling
<1>5. FrameIsHeld' /\ SegmentIsForActive' BY <1>3 DEF BackoffElapsed, handling, sending, dispatcher
<1> QED BY <1>2, <1>4, <1>5

\* Between rounds no poll is active.
LEMMA IntervalElapsedIInv == ASSUME IInv, IntervalElapsed PROVE IInv'
<1> USE DEF IInv, ActiveIsOwned, FrameIsHeld, SegmentIsForActive
<1>0. firstBackoff \in Nat /\ 1 \in 1 .. Len(Objects)
  BY ObjectFacts, SettingsFacts DEF firstBackoff
<1>1. TypeOK' BY <1>0 DEF IntervalElapsed, TypeOK, dispatcher, output, context, external
<1>2. active = NoPoll /\ active' = active /\ ppc' \in {"poll", "done"} BY DEF IntervalElapsed, polling
<1>3. ActiveIsOwned' BY <1>2 DEF polling
<1>4. FrameIsHeld' /\ SegmentIsForActive' BY <1>2 DEF IntervalElapsed, handling, sending, dispatcher
<1> QED BY <1>1, <1>3, <1>4

\* The head of the dispatch loop touches nothing shared.
LEMMA DispatchTopIInv == ASSUME IInv, DispatchTop PROVE IInv'
<1> USE DEF IInv, ActiveIsOwned, FrameIsHeld, SegmentIsForActive
<1>0. dpc' \in {"recv", "done"} BY DEF DispatchTop
<1>1. TypeOK' BY <1>0 DEF DispatchTop, TypeOK, poller, output, context, external
<1>2. ActiveIsOwned' /\ FrameIsHeld' /\ SegmentIsForActive'
  BY <1>0 DEF DispatchTop, polling, handling, sending, poller
<1> QED BY <1>1, <1>2

\* Recv hands the dispatch loop a frame of the bus.
LEMMA RecvIInv == ASSUME IInv, Recv PROVE IInv'
<1> USE DEF IInv, ActiveIsOwned, FrameIsHeld, SegmentIsForActive
<1>1. CASE rx # << >> /\ frame' = Head(rx) /\ rx' = Tail(rx) /\ dpc' = "poll"
  <2>1. frame' \in BusFrame /\ rx' \in Seq(BusFrame) BY <1>1 DEF TypeOK
  <2>2. TypeOK' BY <1>1, <2>1 DEF Recv, TypeOK, poller, output, context
  <2>3. ActiveIsOwned' /\ FrameIsHeld' /\ SegmentIsForActive'
    BY <1>1, <2>1 DEF Recv, polling, handling, sending, poller
  <2> QED BY <2>2, <2>3
<1>2. CASE dpc' \in {"done", "top"} /\ UNCHANGED <<frame, rx>>
  <2>2. TypeOK' BY <1>2 DEF Recv, TypeOK, poller, output, context
  <2>3. ActiveIsOwned' /\ FrameIsHeld' /\ SegmentIsForActive'
    BY <1>2 DEF Recv, polling, handling, sending, poller
  <2> QED BY <2>2, <2>3
<1> QED BY <1>1, <1>2 DEF Recv

\* The segment request is sniffed under p.mu, for the active poll.
LEMMA SegmentSniffIInv == ASSUME IInv, SegmentSniff PROVE IInv'
<1> USE DEF IInv, ActiveIsOwned, FrameIsHeld, SegmentIsForActive
<1>0. active \in Poll /\ sending BY DEF SegmentSniff, sending, TypeOK
<1>1. HandleFrame(segmentRequest) /\ segmentRequest \in BusFrame
  BY <1>0, SegmentRequestType DEF SegmentSniff
<1>2. transfers' \in [Node -> Transfer \cup {NoTransfer}] /\ builder' \in Seq(Value) /\ requested' \in [Node -> Addr]
  BY <1>1, HandleFrameType
<1>3. TypeOK' BY <1>2 DEF TypeOK, SegmentSniff, poller, context, external
<1>4. ActiveIsOwned' /\ FrameIsHeld' /\ SegmentIsForActive'
  BY <1>0 DEF SegmentSniff, polling, handling, sending, poller
<1> QED BY <1>3, <1>4

\* The segment request is sent under p.mu, for the active poll.
LEMMA SegmentSendIInv == ASSUME IInv, SegmentSend PROVE IInv'
<1> USE DEF IInv, ActiveIsOwned, FrameIsHeld, SegmentIsForActive
<1>0. active \in Poll BY DEF SegmentSend, sending, TypeOK
<1>1. segmentRequest \in BusFrame BY <1>0, SegmentRequestType
<1>2. bus' \in [Node -> Seq(BusFrame)] BY <1>1, SendType DEF SegmentSend, TypeOK
<1>3. TypeOK' BY <1>2 DEF TypeOK, SegmentSend, poller, output, context
<1>4. ActiveIsOwned' /\ FrameIsHeld' /\ SegmentIsForActive'
  BY DEF SegmentSend, polling, handling, sending, poller
<1> QED BY <1>3, <1>4

\* Sniffing the received frame changes only transfers and builder.
LEMMA SniffFrameIInv == ASSUME IInv, SniffFrame PROVE IInv'
<1> USE DEF IInv, ActiveIsOwned, FrameIsHeld, SegmentIsForActive
<1>1. HandleFrame(frame) /\ frame \in BusFrame BY DEF SniffFrame, handling
<1>2. transfers' \in [Node -> Transfer \cup {NoTransfer}] /\ builder' \in Seq(Value) /\ requested' \in [Node -> Addr]
  BY <1>1, HandleFrameType
<1>3. TypeOK' BY <1>2 DEF TypeOK, SniffFrame, poller, context, external
<1>4. ActiveIsOwned' /\ FrameIsHeld' /\ SegmentIsForActive'
  BY DEF SniffFrame, polling, handling, sending, poller
<1> QED BY <1>3, <1>4

\* A flush moves the builder to the consumer.
LEMMA FlushIInv == ASSUME IInv, Flush PROVE IInv'
<1> USE DEF IInv, ActiveIsOwned, FrameIsHeld, SegmentIsForActive
<1>1. consumed' \in Seq(Value) /\ builder' \in Seq(Value) BY DEF Flush, TypeOK
<1>2. TypeOK' BY <1>1 DEF TypeOK, Flush, poller, context, external
<1>3. ActiveIsOwned' /\ FrameIsHeld' /\ SegmentIsForActive'
  BY DEF Flush, polling, handling, sending, poller
<1> QED BY <1>2, <1>3

\* doShutdown may come at any point.
LEMMA ShutdownIInv == ASSUME IInv, Cancel \/ CloseConn PROVE IInv'
<1> USE DEF IInv, ActiveIsOwned, FrameIsHeld, SegmentIsForActive
<1>1. TypeOK' BY DEF TypeOK, Cancel, CloseConn, poller, dispatcher, output, external
<1>2. ActiveIsOwned' /\ FrameIsHeld' /\ SegmentIsForActive'
  BY DEF Cancel, CloseConn, polling, handling, sending, poller, dispatcher
<1> QED BY <1>1, <1>2

\* handleFrame asks for a segment only for the active poll's node.
LEMMA PollerHandleFrameIInv == ASSUME IInv, PollerHandleFrame PROVE IInv'
<1> USE DEF IInv, ActiveIsOwned, FrameIsHeld, SegmentIsForActive
<1>0. /\ dpc = "poll" /\ frame \in BusFrame
      /\ UNCHANGED <<poller, frame, transfers, output, context, external, succeeded>>
  BY DEF PollerHandleFrame, handling
<1>1. CASE active' = active /\ dpc' = "sniff"
  <2>1. TypeOK' BY <1>0, <1>1 DEF TypeOK, poller, output, context, external
  <2>2. ActiveIsOwned' /\ FrameIsHeld' /\ SegmentIsForActive'
    BY <1>0, <1>1 DEF polling, handling, sending, poller
  <2> QED BY <2>1, <2>2
<1>2. CASE active \in Poll /\ dpc' = "sniff" /\ \E r \in {"ok", "failed"} : active' = [active EXCEPT !.result = r]
  <2>1. active' \in Poll /\ active'.obj = active.obj BY <1>2 DEF Poll
  <2>2. active' # NoPoll /\ active # NoPoll BY <1>2, <2>1, NoPollIsNotAPoll
  <2>3. TypeOK' BY <1>0, <1>2, <2>1 DEF TypeOK, poller, output, context, external
  <2>4. ActiveIsOwned' /\ FrameIsHeld' /\ SegmentIsForActive'
    BY <1>0, <1>2, <2>1, <2>2 DEF polling, handling, sending, poller
  <2> QED BY <2>3, <2>4
<1>3. CASE /\ active \in Poll /\ frame.node = Objects[active.obj].node /\ dpc' = "segmentSniff"
           /\ \E b \in BOOLEAN : active' = [active EXCEPT !.segment = TRUE, !.toggle = b]
  <2>1. active' \in Poll /\ active'.obj = active.obj /\ active'.segment BY <1>3 DEF Poll
  <2>2. active' # NoPoll /\ active # NoPoll BY <1>3, <2>1, NoPollIsNotAPoll
  <2>3. TypeOK' BY <1>0, <1>3, <2>1 DEF TypeOK, poller, output, context, external
  <2>4. ActiveIsOwned' /\ FrameIsHeld' BY <1>0, <1>3, <2>1, <2>2 DEF polling, handling, poller
  <2>5. SegmentIsForActive' BY <1>0, <1>3, <2>1, <2>2
  <2> QED BY <2>3, <2>4, <2>5
<1>4. active # NoPoll => active \in Poll BY DEF TypeOK
<1>5. ASSUME NEW ok \in BOOLEAN, active # NoPoll, finish(ok) PROVE IInv'
  <2>1. \/ active' = active
        \/ \E r \in {"ok", "failed"} : active' = [active EXCEPT !.result = r]
    BY <1>5 DEF finish
  <2> QED BY <1>1, <1>2, <1>4, <1>5, <2>1 DEF finish
<1>6. ASSUME NEW b \in BOOLEAN, active # NoPoll, frame.node = Objects[active.obj].node, requestSegment(b)
      PROVE  IInv'
  <2>1. \E c \in BOOLEAN : active' = [active EXCEPT !.segment = TRUE, !.toggle = c] BY <1>6 DEF requestSegment
  <2> QED BY <1>3, <1>4, <1>6, <2>1 DEF requestSegment
<1>7. \/ active' = active /\ dpc' = "sniff"
      \/ active # NoPoll /\ (finish(TRUE) \/ finish(FALSE))
      \/ /\ active # NoPoll /\ frame.node = Objects[active.obj].node
         /\ requestSegment(FALSE) \/ requestSegment(~active.toggle)
  BY DEF PollerHandleFrame
<1>8. (~active.toggle) \in BOOLEAN OBVIOUS
<1> QED BY <1>1, <1>5, <1>6, <1>7, <1>8

\* A reply keeps the receive queue well typed.
LEMMA ReplyType ==
    ASSUME TypeOK, NEW f \in BusFrame, Reply(f)
    PROVE  rx' \in Seq(BusFrame)
<1>1. rx \in Seq(BusFrame) BY DEF TypeOK
<1>2. Append(rx, f) \in Seq(BusFrame) BY <1>1
<1>3. rx' = rx \/ rx' = Append(rx, f) BY DEF Reply
<1> QED BY <1>1, <1>2, <1>3

\* A server's answer to an initiation keeps the invariant.
LEMMA ServerUploadIInv == ASSUME IInv, NEW n \in Node, ServerUpload(n) PROVE IInv'
<1> USE DEF IInv, ActiveIsOwned, FrameIsHeld, SegmentIsForActive
<1> DEFINE f == Head(bus[n])
           v == Len(samples) + 1
<1>1. /\ bus[n] # << >> /\ v <= MaxSamples /\ bus' = [bus EXCEPT ![n] = Tail(bus[n])]
      /\ UNCHANGED <<poller, active, dispatcher, transfers, output, context, succeeded>>
  BY DEF ServerUpload
<1>2. bus[n] \in Seq(BusFrame) BY DEF TypeOK
<1>3. f \in BusFrame /\ Tail(bus[n]) \in Seq(BusFrame) BY <1>1, <1>2
<1>4. bus' \in [Node -> Seq(BusFrame)] BY <1>1, <1>3 DEF TypeOK
<1>5. v \in 1 .. MaxSamples /\ SegmentCount \in Nat \ {0} BY <1>1, SettingsFacts DEF TypeOK
<1>6. f.addr \in Addr BY <1>3 DEF BusFrame
<1>7. samples' \in Seq([node : Node, addr : Addr])
  <2> DEFINE S == [node : Node, addr : Addr]
             x == [node |-> n, addr |-> f.addr]
  <2>1. x \in S BY <1>6
  <2>2. samples' = samples \/ samples' = Append(samples, x) BY DEF ServerUpload
  <2>3. samples \in Seq(S) BY DEF TypeOK
  <2> HIDE DEF S, x
  <2>4. samples' \in Seq(S) BY <2>1, <2>2, <2>3
  <2> QED BY <2>4 DEF S
<1>8. server' \in [Node -> Upload \cup {NoUpload}]
  <2>1. [addr |-> f.addr, next |-> 1, sample |-> v] \in Upload BY <1>5, <1>6 DEF Upload
  <2>2. \/ server' = [server EXCEPT ![n] = NoUpload]
        \/ server' = [server EXCEPT ![n] = [addr |-> f.addr, next |-> 1, sample |-> v]]
    BY DEF ServerUpload
  <2> QED BY <2>1, <2>2 DEF TypeOK
<1>9. rx' \in Seq(BusFrame)
  <2>1. [sample |-> v, part |-> 0] \in Word BY <1>5, WordFacts
  <2>2. ServerFrame(n, 67, f.addr, [sample |-> v, part |-> 0]) \in BusFrame
    BY <1>6, <2>1, ServerFrameType DEF Byte
  <2>3. ServerFrame(n, 65, f.addr, EmptyWord) \in BusFrame
    BY <1>6, EmptyWordIsWord, ServerFrameType DEF Byte
  <2>4. ServerFrame(n, Abort, f.addr, EmptyWord) \in BusFrame
    BY <1>6, EmptyWordIsWord, ServerFrameType DEF Byte, Abort
  <2>5. \/ Reply(ServerFrame(n, 67, f.addr, [sample |-> v, part |-> 0]))
        \/ Reply(ServerFrame(n, 65, f.addr, EmptyWord))
        \/ Reply(ServerFrame(n, Abort, f.addr, EmptyWord))
    BY DEF ServerUpload
  <2> QED BY <2>2, <2>3, <2>4, <2>5, ReplyType
<1> HIDE DEF f, v
<1>10. TypeOK' BY <1>1, <1>4, <1>7, <1>8, <1>9 DEF TypeOK, poller, dispatcher, output, context
<1>11. ActiveIsOwned' /\ FrameIsHeld' /\ SegmentIsForActive'
  BY <1>1 DEF polling, handling, sending, poller, dispatcher
<1> QED BY <1>10, <1>11

\* A server's answer to a segment request keeps the invariant.
LEMMA ServerSegmentIInv == ASSUME IInv, NEW n \in Node, ServerSegment(n) PROVE IInv'
<1> USE DEF IInv, ActiveIsOwned, FrameIsHeld, SegmentIsForActive
<1> DEFINE s == server[n]
           c == (IF s.next % 2 = 0 THEN 16 ELSE 0) + (IF s.next = SegmentCount THEN 1 ELSE 0)
           w == [sample |-> s.sample, part |-> s.next]
           a == IF s = NoUpload THEN NoAddr ELSE s.addr
<1>1. /\ bus[n] # << >> /\ bus' = [bus EXCEPT ![n] = Tail(bus[n])]
      /\ UNCHANGED <<poller, active, dispatcher, transfers, output, context, samples, succeeded>>
  BY DEF ServerSegment
<1>2. bus[n] \in Seq(BusFrame) BY DEF TypeOK
<1>3. Tail(bus[n]) \in Seq(BusFrame) BY <1>1, <1>2
<1>4. bus' \in [Node -> Seq(BusFrame)] BY <1>1, <1>3 DEF TypeOK
<1>5. s \in Upload \cup {NoUpload} /\ SegmentCount \in Nat \ {0} BY SettingsFacts DEF TypeOK
<1>6. \/ s \in Upload /\ Reply(ServerFrame(n, c, NoAddr, w))
         /\ server' = [server EXCEPT ![n] = IF s.next = SegmentCount THEN NoUpload
                                            ELSE [s EXCEPT !.next = s.next + 1]]
      \/ /\ Reply(ServerFrame(n, Abort, a, EmptyWord))
         /\ server' = [server EXCEPT ![n] = NoUpload]
  BY <1>5 DEF ServerSegment
<1>7. server' \in [Node -> Upload \cup {NoUpload}]
  <2>1. s \in Upload /\ s.next # SegmentCount => [s EXCEPT !.next = s.next + 1] \in Upload
    BY <1>5 DEF Upload
  <2> HIDE DEF s
  <2> QED BY <1>6, <2>1 DEF TypeOK
<1>8. rx' \in Seq(BusFrame)
  <2>1. a \in Addr /\ NoAddr \in Addr BY <1>5, NoAddrAssumption DEF Upload
  <2>2. c \in Byte BY DEF Byte
  <2>3. s \in Upload => w \in Word BY <1>5, WordFacts DEF Upload
  <2>4. s \in Upload => ServerFrame(n, c, NoAddr, w) \in BusFrame BY <2>1, <2>2, <2>3, ServerFrameType
  <2>5. ServerFrame(n, Abort, a, EmptyWord) \in BusFrame
    BY <2>1, EmptyWordIsWord, ServerFrameType DEF Byte, Abort
  <2> HIDE DEF s, c, w, a
  <2> QED BY <1>6, <2>4, <2>5, ReplyType
<1> HIDE DEF s, c, w, a
<1>9. TypeOK' BY <1>1, <1>4, <1>7, <1>8 DEF TypeOK, poller, dispatcher, output, context
<1>10. ActiveIsOwned' /\ FrameIsHeld' /\ SegmentIsForActive'
  BY <1>1 DEF polling, handling, sending, poller, dispatcher
<1> QED BY <1>9, <1>10

\* Nothing happens.
LEMMA StutterIInv == ASSUME IInv, UNCHANGED vars PROVE IInv'
<1> USE DEF vars, poller, dispatcher, output, context, external
<1>1. TypeOK' BY DEF IInv, TypeOK
<1>2. ActiveIsOwned' /\ FrameIsHeld' /\ SegmentIsForActive'
  BY DEF IInv, ActiveIsOwned, FrameIsHeld, SegmentIsForActive, polling, handling, sending
<1> QED BY <1>1, <1>2 DEF IInv

\* IInv is inductive.
LEMMA Inductive == IInv /\ [Next]_vars => IInv'
<1> SUFFICES ASSUME IInv, [Next]_vars PROVE IInv' OBVIOUS
<1>1. CASE PollerStep
  BY <1>1, ActivateIInv, SniffRequestIInv, SendRequestIInv, AwaitIInv, ConcludeIInv,
     BackoffElapsedIInv, IntervalElapsedIInv DEF PollerStep
<1>2. CASE DispatcherStep
  BY <1>2, DispatchTopIInv, RecvIInv, PollerHandleFrameIInv, SegmentSniffIInv, SegmentSendIInv,
     SniffFrameIInv, FlushIInv DEF DispatcherStep
<1>3. CASE Cancel \/ CloseConn BY <1>3, ShutdownIInv
<1>4. CASE \E n \in Node : ServerUpload(n) \/ ServerSegment(n)
  BY <1>4, ServerUploadIInv, ServerSegmentIInv
<1>5. CASE UNCHANGED vars BY <1>5, StutterIInv
<1> QED BY <1>1, <1>2, <1>3, <1>4, <1>5 DEF Next, Stopped

(* Whatever the servers answer, and in whatever order the poller, the      *)
(* dispatch loop and shutdown run, the state stays well typed.             *)
THEOREM TypeCorrect == Spec => []TypeOK
<1>1. IInv => TypeOK BY DEF IInv
<1> QED BY <1>1, InitIInv, Inductive, PTL DEF Spec

(* The dispatch loop never sends a segment request for a poll that has     *)
(* timed out or been replaced: p.mu, held across the send in handleFrame,  *)
(* keeps the poller from clearing p.active in between.                     *)
THEOREM SegmentOwnership == Spec => []SegmentRequestsAreOwned
<1>1. IInv => SegmentRequestsAreOwned
  BY DEF IInv, SegmentRequestsAreOwned, ActiveIsOwned, SegmentIsForActive, polling
<1> QED BY <1>1, InitIInv, Inductive, PTL DEF Spec

-----------------------------------------------------------------------------
(* Attempts and delays.  pollUntilSuccess starts an attempt only when one  *)
(* is left, and every delay after the first is capped.                     *)

bound == IF Retry THEN maxRetries + 1 ELSE 1

AttemptsRemain ==
    maxRetries # Unlimited => attempt <= bound /\ (ppc \in {"poll", "backoff"} => attempt < bound)

\* One attempt is always allowed.
LEMMA BoundType == ASSUME maxRetries \in RetryLimits PROVE maxRetries # Unlimited => bound \in Nat \ {0}
<1>1. maxRetries # Unlimited => maxRetries \in Nat BY SettingsFacts
<1> QED BY <1>1, SettingsFacts DEF bound

\* The configuration does not change.
LEMMA LimitIsFixed == [Next]_vars => maxRetries' = maxRetries
<1> SUFFICES ASSUME [Next]_vars PROVE maxRetries' = maxRetries OBVIOUS
<1> USE DEF context, vars
<1>1. CASE PollerStep
  BY <1>1 DEF PollerStep, Activate, SniffRequest, SendRequest, Await, Conclude, BackoffElapsed, IntervalElapsed
<1>2. CASE DispatcherStep
  BY <1>2 DEF DispatcherStep, DispatchTop, Recv, PollerHandleFrame, SegmentSniff, SegmentSend, SniffFrame, Flush
<1>3. CASE \E n \in Node : ServerUpload(n) \/ ServerSegment(n) BY <1>3 DEF ServerUpload, ServerSegment
<1> QED BY <1>1, <1>2, <1>3 DEF Next, Stopped, Cancel, CloseConn

\* pollUntilSuccess retries only while retries remain.
LEMMA AttemptsInductive == IInv /\ AttemptsRemain /\ [Next]_vars => AttemptsRemain'
<1> SUFFICES ASSUME TypeOK, AttemptsRemain, [Next]_vars, maxRetries # Unlimited PROVE AttemptsRemain'
  BY LimitIsFixed DEF IInv, AttemptsRemain
<1>0. maxRetries' = maxRetries /\ bound' = bound /\ bound \in Nat \ {0} /\ maxRetries \in Nat
  BY LimitIsFixed, BoundType, SettingsFacts DEF TypeOK, bound
<1> USE <1>0
<1>1. attempt \in Nat BY DEF TypeOK
<1>2. CASE Activate BY <1>1, <1>2 DEF Activate, AttemptsRemain
<1>3. CASE SniffRequest \/ SendRequest \/ Await BY <1>3 DEF SniffRequest, SendRequest, Await, AttemptsRemain
<1>4. ASSUME NextObject PROVE AttemptsRemain' BY <1>1, <1>4 DEF NextObject, AttemptsRemain
<1>5. CASE Conclude
  <2>1. CASE outcome = "ok" \/ cancelled \/ ~Retry \/ ~retriesRemain BY <1>4, <1>5, <2>1 DEF Conclude
  <2>2. CASE ~(outcome = "ok" \/ cancelled \/ ~Retry \/ ~retriesRemain)
    <3>1. ppc' = "backoff" /\ attempt' = attempt BY <1>5, <2>2 DEF Conclude
    <3>2. Retry /\ attempt - 1 < maxRetries BY <2>2 DEF retriesRemain
    <3>3. attempt < bound BY <1>1, <3>2, SettingsFacts DEF bound
    <3> QED BY <3>1, <3>3, <1>1 DEF AttemptsRemain
  <2> QED BY <2>1, <2>2
<1>6. CASE BackoffElapsed BY <1>1, <1>4, <1>6 DEF BackoffElapsed, AttemptsRemain
<1>7. CASE IntervalElapsed BY <1>1, <1>7 DEF IntervalElapsed, AttemptsRemain
<1>8. CASE DispatcherStep
  BY <1>8 DEF DispatcherStep, DispatchTop, Recv, PollerHandleFrame, SegmentSniff, SegmentSend,
     SniffFrame, Flush, poller, AttemptsRemain
<1>9. CASE Cancel \/ CloseConn BY <1>9 DEF Cancel, CloseConn, poller, AttemptsRemain
<1>10. CASE \E n \in Node : ServerUpload(n) \/ ServerSegment(n)
  BY <1>10 DEF ServerUpload, ServerSegment, poller, AttemptsRemain
<1>11. CASE UNCHANGED vars BY <1>11 DEF vars, poller, AttemptsRemain
<1> QED BY <1>2, <1>3, <1>5, <1>6, <1>7, <1>8, <1>9, <1>10, <1>11 DEF Next, PollerStep, Stopped

(* An object is tried at most max_retries + 1 times, and once when retry   *)
(* is off, whatever the bus and the servers do.                            *)
THEOREM AttemptsBounded == Spec => []AttemptsAreBounded
<1>1. Init => AttemptsRemain
  <2>1. Init => maxRetries \in RetryLimits /\ attempt = 0 BY DEF Init
  <2> QED BY <2>1, BoundType DEF AttemptsRemain
<1>2. AttemptsRemain => AttemptsAreBounded BY DEF AttemptsRemain, AttemptsAreBounded, bound
<1> QED BY <1>1, <1>2, InitIInv, Inductive, AttemptsInductive, PTL DEF Spec

(* A delay has elapsed before every attempt but the first, and capped the  *)
(* next one.                                                               *)
Capped == attempt > 1 \/ (ppc = "poll" /\ attempt > 0) => backoff <= maxBackoff

(* Whatever backoff and max_backoff SDOPollConfig.validate accepts, set or *)
(* left to their defaults, no delay from the second retry on is longer     *)
(* than the maximum.                                                       *)
THEOREM DelaysBounded == Spec => []LaterDelaysAreBounded
<1>0. maxBackoff \in Nat BY SettingsFacts DEF maxBackoff
<1>1. Init => Capped BY DEF Init, Capped
<1>2. Capped => LaterDelaysAreBounded BY DEF Capped, LaterDelaysAreBounded, DelaysAreBounded
<1>3. IInv /\ Capped /\ [Next]_vars => Capped'
  <2> SUFFICES ASSUME TypeOK, Capped, [Next]_vars PROVE Capped' BY DEF IInv
  <2>0. attempt \in Nat /\ backoff \in Nat BY DEF TypeOK
  <2>1. ASSUME NextObject PROVE Capped' BY <2>0, <2>1 DEF NextObject, Capped
  <2>2. nextBackoff <= maxBackoff BY <1>0 DEF nextBackoff, TypeOK
  <2>3. CASE Activate BY <2>0, <2>3 DEF Activate, Capped
  <2>4. CASE SniffRequest \/ SendRequest \/ Await BY <2>4 DEF SniffRequest, SendRequest, Await, Capped
  <2>5. CASE Conclude BY <2>1, <2>5 DEF Conclude, Capped
  <2>6. CASE BackoffElapsed BY <2>1, <2>2, <2>6 DEF BackoffElapsed, Capped
  <2>7. CASE IntervalElapsed BY <2>7 DEF IntervalElapsed, Capped
  <2>8. CASE DispatcherStep
    BY <2>8 DEF DispatcherStep, DispatchTop, Recv, PollerHandleFrame, SegmentSniff, SegmentSend,
       SniffFrame, Flush, poller, Capped
  <2>9. CASE Cancel \/ CloseConn BY <2>9 DEF Cancel, CloseConn, poller, Capped
  <2>10. CASE \E n \in Node : ServerUpload(n) \/ ServerSegment(n)
    BY <2>10 DEF ServerUpload, ServerSegment, poller, Capped
  <2>11. CASE UNCHANGED vars BY <2>11 DEF vars, poller, Capped
  <2> QED BY <2>3, <2>4, <2>5, <2>6, <2>7, <2>8, <2>9, <2>10, <2>11 DEF Next, PollerStep, Stopped
<1> QED BY <1>1, <1>2, <1>3, InitIInv, Inductive, PTL DEF Spec

-----------------------------------------------------------------------------
(* Success.  A frame with an object's address that is not an abort proves  *)
(* that the object's node answered; handleFrame needs one before it enters *)
(* segment mode or finishes a poll successfully.                           *)

Answered(given, o) == \E v \in 1 .. Len(given) : given[v] = o

Truthful(given, f) == f.dir = ServerToClient /\ f.cmd # Abort /\ f.addr # NoAddr =>
                          Answered(given, [node |-> f.node, addr |-> f.addr])

AnswersAreTruthful ==
    /\ \A i \in 1 .. Len(rx) : Truthful(samples, rx[i])
    /\ handling => Truthful(samples, frame)

ProgressWasAnswered ==
    active # NoPoll /\ (active.segment \/ active.result = "ok") => Answered(samples, Objects[active.obj])

OutcomeWasAnswered == outcome = "ok" => ppc = "clear" /\ Answered(samples, Objects[obj])

AInv == AnswersAreTruthful /\ ProgressWasAnswered /\ OutcomeWasAnswered /\ SuccessWasAnswered

(* An answer, once given, stays given.                                     *)
LEMMA AnsweredStays ==
    ASSUME NEW S, NEW given \in Seq(S), NEW x \in S
    PROVE  /\ \A o : Answered(given, o) => Answered(Append(given, x), o)
           /\ Answered(Append(given, x), x)
<1> DEFINE more == Append(given, x)
<1>1. /\ Len(given) \in Nat /\ Len(more) = Len(given) + 1
      /\ \A v \in 1 .. Len(given) : more[v] = given[v]
      /\ more[Len(given) + 1] = x
  OBVIOUS
<1> HIDE DEF more
<1>2. Len(given) + 1 \in 1 .. Len(more) /\ \A v \in 1 .. Len(given) : v \in 1 .. Len(more)
  BY <1>1
<1>3. Answered(more, x) BY <1>1, <1>2 DEF Answered
<1>4. \A o : Answered(given, o) => Answered(more, o) BY <1>1, <1>2 DEF Answered
<1> QED BY <1>3, <1>4 DEF more

\* A frame stays truthful when more answers are given.
LEMMA TruthfulStays ==
    ASSUME NEW old, NEW new, \A o : Answered(old, o) => Answered(new, o), NEW f, Truthful(old, f)
    PROVE  Truthful(new, f)
BY DEF Truthful

(* A step that leaves these alone keeps AInv.                              *)
LEMMA QuietStep ==
    ASSUME AInv, UNCHANGED <<samples, rx, active, outcome, obj, succeeded>>,
           ppc' = ppc \/ outcome # "ok", handling' => handling /\ frame' = frame
    PROVE  AInv'
<1>1. AnswersAreTruthful' BY DEF AInv, AnswersAreTruthful
<1>2. ProgressWasAnswered' BY DEF AInv, ProgressWasAnswered
<1>3. OutcomeWasAnswered' BY DEF AInv, OutcomeWasAnswered
<1>4. SuccessWasAnswered' BY DEF AInv, SuccessWasAnswered
<1> QED BY <1>1, <1>2, <1>3, <1>4 DEF AInv

\* The poller's steps turn only an answered result into a success.
LEMMA PollerStepAInv == ASSUME IInv, AInv, PollerStep PROVE AInv'
<1>0. active \in Poll \cup {NoPoll} BY DEF IInv, TypeOK
<1>1. CASE Activate
  <2>1. active'.segment = FALSE /\ active'.result = "none" /\ outcome # "ok"
    BY <1>1 DEF Activate, AInv, OutcomeWasAnswered
  <2>2. AnswersAreTruthful' BY <1>1 DEF Activate, AInv, AnswersAreTruthful, handling, dispatcher, external
  <2>3. ProgressWasAnswered' BY <2>1 DEF ProgressWasAnswered
  <2>4. OutcomeWasAnswered' BY <1>1, <2>1 DEF Activate, OutcomeWasAnswered
  <2>5. SuccessWasAnswered' BY <1>1 DEF Activate, AInv, SuccessWasAnswered, external
  <2> QED BY <2>2, <2>3, <2>4, <2>5 DEF AInv
<1>2. CASE SniffRequest
  <2>1. outcome # "ok" BY <1>2 DEF SniffRequest, AInv, OutcomeWasAnswered
  <2> QED BY <1>2, <2>1, QuietStep DEF SniffRequest, handling, dispatcher, external
<1>3. CASE SendRequest
  <2>1. outcome # "ok" /\ outcome' # "ok" BY <1>3 DEF SendRequest, AInv, OutcomeWasAnswered
  <2>2. AnswersAreTruthful' BY <1>3 DEF SendRequest, AInv, AnswersAreTruthful, handling, dispatcher
  <2>3. ProgressWasAnswered' BY <1>3 DEF SendRequest, AInv, ProgressWasAnswered
  <2>4. OutcomeWasAnswered' BY <2>1 DEF OutcomeWasAnswered
  <2>5. SuccessWasAnswered' BY <1>3 DEF SendRequest, AInv, SuccessWasAnswered
  <2> QED BY <2>2, <2>3, <2>4, <2>5 DEF AInv
<1>4. CASE Await
  <2>1. active # NoPoll /\ active.obj = obj BY <1>4 DEF Await, IInv, ActiveIsOwned, polling
  <2>2. AnswersAreTruthful' BY <1>4 DEF Await, AInv, AnswersAreTruthful, handling, dispatcher, external
  <2>3. ProgressWasAnswered' BY <1>4 DEF Await, AInv, ProgressWasAnswered, external
  <2>4. OutcomeWasAnswered'
    BY <1>4, <2>1 DEF Await, AInv, OutcomeWasAnswered, ProgressWasAnswered, external
  <2>5. SuccessWasAnswered' BY <1>4 DEF Await, AInv, SuccessWasAnswered, external
  <2> QED BY <2>2, <2>3, <2>4, <2>5 DEF AInv
<1>5. CASE Conclude
  <2>1. active' = NoPoll /\ outcome' = "none" /\ samples' = samples BY <1>5 DEF Conclude, external
  <2>2. AnswersAreTruthful' BY <1>5 DEF Conclude, AInv, AnswersAreTruthful, handling, dispatcher, external
  <2>3. ProgressWasAnswered' BY <2>1 DEF ProgressWasAnswered
  <2>4. OutcomeWasAnswered' BY <2>1 DEF OutcomeWasAnswered
  <2>5. outcome = "ok" => Answered(samples, Objects[obj]) BY DEF AInv, OutcomeWasAnswered
  <2>6. SuccessWasAnswered'
    BY <1>5, <2>1, <2>5 DEF Conclude, AInv, SuccessWasAnswered, Answered
  <2> QED BY <2>2, <2>3, <2>4, <2>6 DEF AInv
<1>6. CASE BackoffElapsed \/ IntervalElapsed
  <2>1. /\ outcome # "ok" /\ UNCHANGED <<outcome, active, dpc, frame, samples, rx, succeeded>>
    BY <1>6 DEF BackoffElapsed, IntervalElapsed, AInv, OutcomeWasAnswered, dispatcher, external
  <2>2. AnswersAreTruthful' BY <2>1 DEF AInv, AnswersAreTruthful, handling
  <2>3. ProgressWasAnswered' BY <2>1 DEF AInv, ProgressWasAnswered
  <2>4. OutcomeWasAnswered' BY <2>1 DEF OutcomeWasAnswered
  <2>5. SuccessWasAnswered' BY <2>1 DEF AInv, SuccessWasAnswered
  <2> QED BY <2>2, <2>3, <2>4, <2>5 DEF AInv
<1> QED BY <1>1, <1>2, <1>3, <1>4, <1>5, <1>6 DEF PollerStep

(* handleFrame: only a frame with the polled address opens segment mode or *)
(* completes a poll outside it.                                            *)
LEMMA PollerHandleFrameAInv == ASSUME IInv, AInv, PollerHandleFrame PROVE AInv'
<1>0. /\ dpc = "poll" /\ frame \in BusFrame /\ active \in Poll \cup {NoPoll} /\ handling
      /\ UNCHANGED <<ppc, obj, outcome, frame, samples, rx, succeeded>>
  BY DEF IInv, TypeOK, FrameIsHeld, PollerHandleFrame, handling, poller, external
<1>1. AnswersAreTruthful' BY <1>0 DEF AInv, AnswersAreTruthful
<1>2. OutcomeWasAnswered' BY <1>0 DEF AInv, OutcomeWasAnswered
<1>3. SuccessWasAnswered' BY <1>0 DEF AInv, SuccessWasAnswered
<1>4. ProgressWasAnswered'
  <2> DEFINE o == Objects[active.obj]
             own == active # NoPoll /\ frame.dir = ServerToClient /\ frame.node = o.node /\ frame.cmd # Abort
  <2>1. ASSUME own, frame.addr = o.addr PROVE Answered(samples, o)
    <3>1. active.obj \in 1 .. Len(Objects) BY <1>0, <2>1 DEF Poll
    <3>2. o \in [node : Node, addr : Addr] /\ o.addr # NoAddr
      BY <3>1, ObjectFacts, ObjectsAreRecords, NoAddrAssumption
    <3>3. o = [node |-> frame.node, addr |-> frame.addr] BY <2>1, <3>2
    <3>4. Truthful(samples, frame) BY <1>0 DEF AInv, AnswersAreTruthful
    <3> HIDE DEF o
    <3> QED BY <2>1, <3>2, <3>3, <3>4 DEF Truthful
  <2>2. \/ active' = active
        \/ /\ active # NoPoll
           /\ active' = [active EXCEPT !.result = "failed"]
        \/ /\ own /\ (active.segment \/ frame.addr = o.addr)
           /\ \/ active' = [active EXCEPT !.result = "ok"]
              \/ \E b : active' = [active EXCEPT !.segment = TRUE, !.toggle = b]
    BY DEF PollerHandleFrame, addressMatches, finish, requestSegment
  <2>3. active.segment /\ active # NoPoll => Answered(samples, o) BY DEF AInv, ProgressWasAnswered
  <2>4. CASE active' = active BY <1>0, <2>4 DEF AInv, ProgressWasAnswered
  <2>5. CASE active # NoPoll /\ active' = [active EXCEPT !.result = "failed"]
    <3>1. active'.obj = active.obj /\ active'.segment = active.segment /\ active'.result # "ok"
      BY <1>0, <2>5 DEF Poll
    <3> QED BY <1>0, <2>3, <2>5, <3>1 DEF ProgressWasAnswered
  <2>6. CASE /\ own /\ (active.segment \/ frame.addr = o.addr)
             /\ \/ active' = [active EXCEPT !.result = "ok"]
                \/ \E b : active' = [active EXCEPT !.segment = TRUE, !.toggle = b]
    <3>1. active'.obj = active.obj BY <1>0, <2>6 DEF Poll
    <3>2. Answered(samples, o) BY <2>1, <2>3, <2>6
    <3> QED BY <1>0, <3>1, <3>2 DEF ProgressWasAnswered
  <2> QED BY <2>2, <2>4, <2>5, <2>6
<1> QED BY <1>1, <1>2, <1>3, <1>4 DEF AInv

\* The frame Recv returns is one of the truthful ones queued.
LEMMA RecvAInv == ASSUME IInv, AInv, Recv PROVE AInv'
<1>0. /\ rx \in Seq(BusFrame) /\ UNCHANGED <<ppc, obj, outcome, active, samples, succeeded>>
      /\ AnswersAreTruthful
  BY DEF Recv, IInv, TypeOK, AInv, poller
<1>1. AnswersAreTruthful'
  <2>1. CASE rx # << >> /\ frame' = Head(rx) /\ rx' = Tail(rx)
    <3>1. /\ 1 \in 1 .. Len(rx) /\ frame' = rx[1]
          /\ \A i \in 1 .. Len(rx') : i + 1 \in 1 .. Len(rx) /\ rx'[i] = rx[i + 1]
      BY <1>0, <2>1
    <3> QED BY <1>0, <3>1 DEF AnswersAreTruthful
  <2>2. CASE dpc' \in {"done", "top"} /\ UNCHANGED <<frame, rx>>
    BY <1>0, <2>2 DEF AnswersAreTruthful, handling
  <2> QED BY <2>1, <2>2 DEF Recv
<1>2. ProgressWasAnswered' BY <1>0 DEF AInv, ProgressWasAnswered
<1>3. OutcomeWasAnswered' BY <1>0 DEF AInv, OutcomeWasAnswered
<1>4. SuccessWasAnswered' BY <1>0 DEF AInv, SuccessWasAnswered
<1> QED BY <1>1, <1>2, <1>3, <1>4 DEF AInv

\* handleFrame finishes a poll only with an answer to its object.
LEMMA DispatcherStepAInv == ASSUME IInv, AInv, DispatcherStep PROVE AInv'
<1>1. CASE DispatchTop BY <1>1, QuietStep DEF DispatchTop, handling, poller, external
<1>2. CASE SegmentSniff BY <1>2, QuietStep DEF SegmentSniff, handling, poller, external
<1>3. CASE SegmentSend BY <1>3, QuietStep DEF SegmentSend, handling, poller
<1>4. CASE SniffFrame BY <1>4, QuietStep DEF SniffFrame, handling, poller, external
<1>5. CASE Flush BY <1>5, QuietStep DEF Flush, handling, poller, external
<1> QED BY <1>1, <1>2, <1>3, <1>4, <1>5, RecvAInv, PollerHandleFrameAInv DEF DispatcherStep

(* A server records an answer with the frame that gives it.                *)
LEMMA ServerAInv ==
    ASSUME IInv, AInv, UNCHANGED <<ppc, obj, outcome, active, dpc, frame, succeeded>>,
           NEW x \in [node : Node, addr : Addr], NEW f \in BusFrame, Reply(f), Truthful(samples', f),
           samples' = samples \/ samples' = Append(samples, x)
    PROVE  AInv'
<1>1. \A o : Answered(samples, o) => Answered(samples', o)
  <2> DEFINE S == [node : Node, addr : Addr]
  <2>1. samples \in Seq(S) /\ x \in S BY DEF IInv, TypeOK
  <2> HIDE DEF S
  <2>2. \A o : Answered(samples, o) => Answered(Append(samples, x), o) BY <2>1, AnsweredStays
  <2> QED BY <2>2
<1>2. \A g : Truthful(samples, g) => Truthful(samples', g) BY <1>1, TruthfulStays
<1>3. AnswersAreTruthful'
  <2>1. \A i \in 1 .. Len(rx) : Truthful(samples', rx[i]) BY <1>2 DEF AInv, AnswersAreTruthful
  <2>2. rx \in Seq(BusFrame) BY DEF IInv, TypeOK
  <2>3. \A i \in 1 .. Len(rx') : Truthful(samples', rx'[i])
    <3>1. CASE rx' = rx BY <2>1, <3>1
    <3>2. CASE rx' = Append(rx, f)
      <4>1. \A i \in 1 .. Len(rx') : (i \in 1 .. Len(rx) /\ rx'[i] = rx[i]) \/ rx'[i] = f BY <2>2, <3>2
      <4> QED BY <2>1, <4>1
    <3> QED BY <3>1, <3>2 DEF Reply
  <2>4. handling' => Truthful(samples', frame') BY <1>2 DEF AInv, AnswersAreTruthful, handling
  <2> QED BY <2>3, <2>4 DEF AnswersAreTruthful
<1>4. ProgressWasAnswered' BY <1>1 DEF AInv, ProgressWasAnswered
<1>5. OutcomeWasAnswered' BY <1>1 DEF AInv, OutcomeWasAnswered
<1>6. SuccessWasAnswered'
  <2>1. \A i \in succeeded : Answered(samples, Objects[i]) BY DEF AInv, SuccessWasAnswered, Answered
  <2>2. \A i \in succeeded' : Answered(samples', Objects[i]) BY <1>1, <2>1
  <2> QED BY <2>2 DEF SuccessWasAnswered, Answered
<1> QED BY <1>3, <1>4, <1>5, <1>6 DEF AInv

\* An answer to an initiation is recorded when it is given.
LEMMA ServerUploadAInv == ASSUME IInv, AInv, NEW n \in Node, ServerUpload(n) PROVE AInv'
<1> DEFINE f == Head(bus[n])
           x == [node |-> n, addr |-> f.addr]
           w == [sample |-> Len(samples) + 1, part |-> 0]
<1>1. bus[n] # << >> /\ bus[n] \in Seq(BusFrame) BY DEF IInv, TypeOK, ServerUpload
<1>2. f \in BusFrame BY <1>1
<1>3. f.addr \in Addr BY <1>2 DEF BusFrame
<1>4. x \in [node : Node, addr : Addr] BY <1>3
<1>5. UNCHANGED <<ppc, obj, outcome, active, dpc, frame, succeeded>>
  BY DEF ServerUpload, poller, dispatcher
<1>6. \/ /\ Reply(ServerFrame(n, 67, f.addr, w)) \/ Reply(ServerFrame(n, 65, f.addr, EmptyWord))
         /\ samples' = Append(samples, x)
      \/ Reply(ServerFrame(n, Abort, f.addr, EmptyWord)) /\ samples' = samples
  BY DEF ServerUpload
<1>7. w \in Word
  <2>1. Len(samples) + 1 <= MaxSamples /\ Len(samples) \in Nat BY DEF IInv, TypeOK, ServerUpload
  <2> QED BY <2>1, WordFacts, SettingsFacts
<1>8. Answered(Append(samples, x), x)
  <2> DEFINE S == [node : Node, addr : Addr]
  <2>1. samples \in Seq(S) /\ x \in S BY <1>4 DEF IInv, TypeOK
  <2> HIDE DEF S, x
  <2> QED BY <2>1, AnsweredStays
<1>9. /\ ServerFrame(n, 67, f.addr, w) \in BusFrame
      /\ ServerFrame(n, 65, f.addr, EmptyWord) \in BusFrame
      /\ ServerFrame(n, Abort, f.addr, EmptyWord) \in BusFrame
  <2>1. 67 \in Byte /\ 65 \in Byte /\ Abort \in Byte BY DEF Byte, Abort
  <2> HIDE DEF f, w
  <2> QED BY <1>3, <1>7, <2>1, EmptyWordIsWord, ServerFrameType
<1>10. /\ Truthful(Append(samples, x), ServerFrame(n, 67, f.addr, w))
       /\ Truthful(Append(samples, x), ServerFrame(n, 65, f.addr, EmptyWord))
       /\ Truthful(samples, ServerFrame(n, Abort, f.addr, EmptyWord))
  BY <1>8 DEF Truthful, ServerFrame, Abort
<1> HIDE DEF f, x, w
<1> QED BY <1>4, <1>5, <1>6, <1>9, <1>10, ServerAInv

\* A segment's frame claims no object's address.
LEMMA ServerSegmentAInv == ASSUME IInv, AInv, NEW n \in Node, ServerSegment(n) PROVE AInv'
<1> DEFINE s == server[n]
           c == (IF s.next % 2 = 0 THEN 16 ELSE 0) + (IF s.next = SegmentCount THEN 1 ELSE 0)
           w == [sample |-> s.sample, part |-> s.next]
           a == IF s = NoUpload THEN NoAddr ELSE s.addr
<1>1. UNCHANGED <<ppc, obj, outcome, active, dpc, frame, samples, succeeded>>
  BY DEF ServerSegment, poller, dispatcher
<1>2. s \in Upload \cup {NoUpload} /\ SegmentCount \in Nat \ {0} BY SettingsFacts DEF IInv, TypeOK
<1>3. (s # NoUpload /\ Reply(ServerFrame(n, c, NoAddr, w))) \/ Reply(ServerFrame(n, Abort, a, EmptyWord))
  BY DEF ServerSegment
<1>4. a \in Addr /\ NoAddr \in Addr BY <1>2, NoAddrAssumption DEF Upload
<1>5. c \in Byte BY DEF Byte
<1>6. s \in Upload => w \in Word BY <1>2, WordFacts DEF Upload
<1>7. /\ s \in Upload => ServerFrame(n, c, NoAddr, w) \in BusFrame
      /\ ServerFrame(n, Abort, a, EmptyWord) \in BusFrame
  BY <1>4, <1>5, <1>6, EmptyWordIsWord, ServerFrameType DEF Byte, Abort
<1>8. [node |-> n, addr |-> NoAddr] \in [node : Node, addr : Addr] BY <1>4
<1> HIDE DEF s, c, w, a
<1>9. /\ Truthful(samples', ServerFrame(n, c, NoAddr, w))
      /\ Truthful(samples', ServerFrame(n, Abort, a, EmptyWord))
  BY DEF Truthful, ServerFrame
<1> QED BY <1>1, <1>2, <1>3, <1>7, <1>8, <1>9, ServerAInv

\* AInv holds initially.
LEMMA InitAInv == Init => AInv
BY DEF Init, AInv, AnswersAreTruthful, ProgressWasAnswered, OutcomeWasAnswered, SuccessWasAnswered, handling

\* AInv is inductive.
LEMMA AnswersInductive == IInv /\ AInv /\ [Next]_vars => AInv'
<1> SUFFICES ASSUME IInv, AInv, [Next]_vars PROVE AInv' OBVIOUS
<1>1. CASE PollerStep BY <1>1, PollerStepAInv
<1>2. CASE DispatcherStep BY <1>2, DispatcherStepAInv
<1>3. CASE Cancel \/ CloseConn
  BY <1>3, QuietStep DEF Cancel, CloseConn, poller, dispatcher, external, handling
<1>4. CASE \E n \in Node : ServerUpload(n) \/ ServerSegment(n)
  BY <1>4, ServerUploadAInv, ServerSegmentAInv
<1>5. CASE UNCHANGED vars
  BY <1>5, QuietStep DEF vars, poller, dispatcher, external, handling
<1> QED BY <1>1, <1>2, <1>3, <1>4, <1>5 DEF Next, Stopped

(* No abort, stray segment or other object's answer completes a poll: an   *)
(* object counts as polled only if its node answered a request for it.     *)
THEOREM SuccessAnswered == Spec => []SuccessWasAnswered
<1>1. AInv => SuccessWasAnswered BY DEF AInv
<1> QED BY <1>1, InitIInv, Inductive, InitAInv, AnswersInductive, PTL DEF Spec

-----------------------------------------------------------------------------
(* No value twice.  The servers number their answers, the bus keeps their  *)
(* order, and the observer forgets a transfer when it reports it.  So once *)
(* a value is emitted, everything still to come from its node belongs to   *)
(* later answers.                                                          *)

Carries(f) == f.cmd \in {0, 1, 16, 17, 67}    \* an expedited answer or a segment
Ends(f)    == f.cmd \in {1, 17, 67}           \* and the last one of its answer
Sample(f)  == f.word.sample

\* The frames the observer has not seen yet, in the order it will see them.
queue == IF handling THEN <<frame>> \o rx ELSE rx

\* u is the number of an answer of node n.
Known(given, n, u) == u \in 1 .. Len(given) /\ given[u].node = n

WellFormed(given, f) ==
    /\ f \in BusFrame /\ f.dir = ServerToClient /\ f.cmd \in {0, 1, 16, 17, 65, 67, 128}
    /\ Carries(f) => Known(given, f.node, Sample(f))

InOrder(f, g) ==
    f.node = g.node /\ Carries(f) /\ Carries(g) =>
        Sample(f) <= Sample(g) /\ (Ends(f) => Sample(f) < Sample(g))

QueueInOrder ==
    /\ \A i \in 1 .. Len(queue) : WellFormed(samples, queue[i])
    /\ \A i, j \in 1 .. Len(queue) : i < j => InOrder(queue[i], queue[j])

\* The answers of node n in q are not later than u; not earlier than u.
UpTo(q, n, u) ==
    \A i \in 1 .. Len(q) : q[i].node = n /\ Carries(q[i]) =>
        Sample(q[i]) <= u /\ (Ends(q[i]) => Sample(q[i]) < u)
From(q, n, u) == \A i \in 1 .. Len(q) : q[i].node = n /\ Carries(q[i]) => u <= Sample(q[i])

ServersAreLast ==
    \A n \in Node : server[n] # NoUpload =>
        Known(samples, n, server[n].sample) /\ UpTo(queue, n, server[n].sample)

\* All that is still to come from node n is of answer u or later.
ToCome(q, up, n, u) == From(q, n, u) /\ (up # NoUpload => u <= up.sample)

begun(t) == t # NoTransfer /\ t.data # << >>
start(t) == t.data[1].word.sample

TransfersAreNext ==
    \A n \in Node : begun(transfers[n]) =>
        /\ Known(samples, n, start(transfers[n]))
        /\ ToCome(queue, server[n], n, start(transfers[n]))

First(x) == x.event.data[1].word.sample

\* All that is still to come from the node of value x is later than x.
Past(x, given, q, up, t) ==
    /\ Known(given, x.node, First(x)) /\ ToCome(q, up, x.node, First(x) + 1)
    /\ begun(t) => First(x) < start(t)

EmittedIsPast ==
    /\ \A i \in 1 .. Len(builder) : Past(builder[i], samples, queue, server[builder[i].node], transfers[builder[i].node])
    /\ \A i \in 1 .. Len(consumed) : Past(consumed[i], samples, queue, server[consumed[i].node], transfers[consumed[i].node])

EmittedOnce ==
    /\ \A i, j \in 1 .. Len(builder) : i # j => First(builder[i]) # First(builder[j])
    /\ \A i, j \in 1 .. Len(consumed) : i # j => First(consumed[i]) # First(consumed[j])
    /\ \A i \in 1 .. Len(builder), j \in 1 .. Len(consumed) : First(builder[i]) # First(consumed[j])

OInv == QueueInOrder /\ ServersAreLast /\ TransfersAreNext /\ EmittedIsPast /\ EmittedOnce

\* A request the poller sends completes nothing and carries no data.
LEMMA ClientFrameEffect ==
    ASSUME NEW t, NEW f, f.dir = ClientToServer, f.len = sdoFrameLength, f.cmd \in {UploadRequest, 96, 112}
    PROVE  /\ ObserveOnChannel(t, f).event = NoEvent
           /\ begun(ObserveOnChannel(t, f).transfer) => ObserveOnChannel(t, f).transfer = t
<1>1. ObserveOnChannel(t, f) = observeClient(t, f)
  BY DEF ObserveOnChannel, sdoFrameLength, ClientToServer, ServerToClient
<1>2. Specifier(96) = 3 /\ Specifier(112) = 3 /\ UploadRequest = 64 BY DEF Specifier, UploadRequest
<1>3. observeClient(t, f) = Ignored(newTransfer("upload", ServerToClient, f.addr)) \/ observeClient(t, f) = Ignored(t)
  BY <1>2 DEF observeClient
<1>4. newTransfer("upload", ServerToClient, f.addr).data = << >> BY DEF newTransfer
<1>5. \A u : Ignored(u).transfer = u /\ Ignored(u).event = NoEvent BY DEF Ignored, Observed
<1> QED BY <1>1, <1>3, <1>4, <1>5 DEF begun

\* Which answer a transfer, and an event, begin with.
LEMMA ServerFrameEffect ==
    ASSUME NEW t \in Transfer \cup {NoTransfer}, NEW f \in BusFrame, f.dir = ServerToClient,
           f.cmd \in {0, 1, 16, 17, 65, 67, 128}
    PROVE  LET o == ObserveOnChannel(t, f)
           IN  /\ begun(o.transfer) => \/ begun(t) /\ start(o.transfer) = start(t)
                                       \/ Carries(f) /\ start(o.transfer) = Sample(f)
               /\ o.event.operation \in {"upload", "download"} =>
                    /\ Ends(f) /\ Carries(f) /\ o.transfer = NoTransfer
                    /\ \/ begun(t) /\ o.event.data[1].word.sample = start(t)
                       \/ o.event.data[1].word.sample = Sample(f)
<1> DEFINE o == ObserveOnChannel(t, f)
<1>0. FrameFields(f) /\ f.len = sdoFrameLength /\ f.dir # ClientToServer
  BY BusFramesHaveFields DEF BusFrame, ClientToServer, ServerToClient
<1>1. /\ Specifier(0) = 0 /\ Specifier(1) = 0 /\ Specifier(16) = 0 /\ Specifier(17) = 0
      /\ Specifier(65) = 2 /\ Specifier(67) = 2 /\ Abort = 128
      /\ LowBit(1) /\ LowBit(17) /\ ~LowBit(0) /\ ~LowBit(16) /\ ExpeditedBit(67) /\ ~ExpeditedBit(65)
  BY DEF Specifier, LowBit, ExpeditedBit, Abort
<1>2. /\ \A u : Ignored(u).transfer = u /\ Ignored(u).event.operation = "none"
      /\ \A u, e : Observed(u, e).transfer = u /\ Observed(u, e).event = e
      /\ ~begun(NoTransfer)
  BY DEF Ignored, Observed, NoEvent, begun
<1>3. CASE f.cmd = 128
  <2>1. o = Observed(NoTransfer, abortEvent(f)) BY <1>0, <1>1, <1>3 DEF ObserveOnChannel, sdoFrameLength
  <2>2. abortEvent(f).operation = "abort" BY DEF abortEvent
  <2> HIDE DEF o
  <2> QED BY <1>2, <2>1, <2>2 DEF o
<1>4. CASE f.cmd # 128
  <2>1. o = observeServer(t, f) BY <1>0, <1>1, <1>4 DEF ObserveOnChannel, sdoFrameLength
  <2>2. CASE t = NoTransfer \/ o = Ignored(t) \/ o = Ignored(NoTransfer)
    <3>1. o = Ignored(t) \/ o = Ignored(NoTransfer) BY <2>1, <2>2 DEF observeServer
    <3> HIDE DEF o
    <3> QED BY <1>2, <3>1 DEF o
  <2>3. CASE t # NoTransfer /\ f.cmd = 65 /\ o # Ignored(t)
    <3> DEFINE u == [t EXCEPT !.uploadInitiated = TRUE]
    <3>1. o = Ignored(u) BY <1>1, <2>1, <2>3 DEF observeServer
    <3>2. t \in Transfer BY <2>3
    <3>3. u # NoTransfer /\ u.data = t.data BY <3>2 DEF Transfer, NoTransfer
    <3> HIDE DEF o, u
    <3>4. begun(o.transfer) => begun(t) /\ start(o.transfer) = start(t)
      BY <1>2, <2>3, <3>1, <3>3 DEF begun, start
    <3> QED BY <1>2, <3>1, <3>4 DEF o
  <2>4. CASE t # NoTransfer /\ f.cmd = 67 /\ o # Ignored(t)
    <3>1. o = Observed(NoTransfer, complete(t, expeditedData(f))) BY <1>1, <2>1, <2>4 DEF observeServer
    <3>2. complete(t, expeditedData(f)).data[1].word = f.word BY DEF complete, expeditedData
    <3>3. Ends(f) /\ Carries(f) BY <2>4 DEF Ends, Carries
    <3> HIDE DEF o
    <3> QED BY <1>2, <3>1, <3>2, <3>3 DEF o, Sample
  <2>5. CASE t # NoTransfer /\ f.cmd \in {0, 1, 16, 17} /\ o # Ignored(t) /\ o # Ignored(NoTransfer)
    <3> DEFINE data == Append(t.data, segmentData(f))
               u == [t EXCEPT !.data = data, !.toggle = ~@]
    <3>1. o = observeSegment(t, f) BY <1>1, <2>1, <2>5 DEF observeServer
    <3>2. o = IF LowBit(f.cmd) THEN Observed(NoTransfer, complete(t, data)) ELSE Ignored(u)
      BY <2>5, <3>1 DEF observeSegment
    <3>3. t \in Transfer /\ t.data \in Seq(Payload) BY <2>5 DEF Transfer
    <3>4. segmentData(f) \in Payload /\ segmentData(f).word = f.word BY <1>0, PayloadType DEF segmentData
    <3>5. data \in Seq(Payload) /\ u.data = data BY <3>3, <3>4 DEF Transfer
    <3>6. IF t.data = << >> THEN data[1] = segmentData(f) ELSE data[1] = t.data[1] BY <3>3, <3>4
    <3>7. complete(t, data).data = data BY DEF complete
    <3> HIDE DEF o, u, data
    <3>8. Carries(f) /\ (LowBit(f.cmd) => Ends(f)) BY <1>1, <2>5 DEF Ends, Carries
    <3>9. data[1].word.sample = Sample(f) \/ (begun(t) /\ data[1].word.sample = start(t))
      BY <2>5, <3>4, <3>6 DEF begun, start, Sample
    <3>10. CASE LowBit(f.cmd) BY <1>2, <3>2, <3>7, <3>8, <3>9, <3>10 DEF o
    <3>11. CASE ~LowBit(f.cmd) BY <1>2, <3>2, <3>5, <3>8, <3>9, <3>11 DEF o, start
    <3> QED BY <3>10, <3>11
  <2> QED BY <1>4, <2>2, <2>3, <2>4, <2>5
<1> QED BY <1>3, <1>4

\* A step that leaves the queue, the servers, the observer and the output alone.
LEMMA OrderQuiet ==
    ASSUME OInv, queue' = queue, UNCHANGED <<samples, server, transfers, builder, consumed>>
    PROVE  OInv'
<1>1. QueueInOrder' BY DEF OInv, QueueInOrder
<1>2. ServersAreLast' BY DEF OInv, ServersAreLast
<1>3. TransfersAreNext' BY DEF OInv, TransfersAreNext
<1>4. EmittedIsPast' BY DEF OInv, EmittedIsPast
<1>5. EmittedOnce' BY DEF OInv, EmittedOnce
<1> QED BY <1>1, <1>2, <1>3, <1>4, <1>5 DEF OInv

\* A request of the poller that the observer is shown.
LEMMA RequestSniffed ==
    ASSUME IInv, OInv, queue' = queue, UNCHANGED <<samples, server, consumed>>,
           NEW f \in BusFrame, f.dir = ClientToServer, f.cmd \in {UploadRequest, 96, 112}, HandleFrame(f)
    PROVE  OInv'
<1> DEFINE o == ObserveOnChannel(transfers[f.node], f)
<1>1. f.node \in Node /\ f.len = sdoFrameLength BY DEF BusFrame
<1>2. o.event = NoEvent /\ (begun(o.transfer) => o.transfer = transfers[f.node])
  BY <1>1, ClientFrameEffect
<1>3. builder' = builder /\ transfers' = [transfers EXCEPT ![f.node] = o.transfer]
  BY <1>2 DEF HandleFrame, NoEvent
<1> HIDE DEF o
<1>4. \A n \in Node : begun(transfers'[n]) => transfers'[n] = transfers[n]
  BY <1>1, <1>2, <1>3 DEF IInv, TypeOK
<1>5. QueueInOrder' BY DEF OInv, QueueInOrder
<1>6. ServersAreLast' BY DEF OInv, ServersAreLast
<1>7. TransfersAreNext' BY <1>4 DEF OInv, TransfersAreNext
<1>8. EmittedIsPast'
  <2>1. \A x \in Value : Past(x, samples, queue, server[x.node], transfers[x.node])
                           => Past(x, samples', queue', server'[x.node], transfers'[x.node])
    <3>1. \A x \in Value : x.node \in Node BY DEF Value
    <3> QED BY <1>4, <3>1 DEF Past
  <2>2. /\ \A i \in 1 .. Len(builder) : builder[i] \in Value
        /\ \A i \in 1 .. Len(consumed) : consumed[i] \in Value
    BY DEF IInv, TypeOK
  <2> QED BY <1>3, <2>1, <2>2 DEF OInv, EmittedIsPast
<1>9. EmittedOnce' BY <1>3 DEF OInv, EmittedOnce
<1> QED BY <1>5, <1>6, <1>7, <1>8, <1>9 DEF OInv

\* The queue holds frames, and the frame being handled is its first.
LEMMA QueueFacts ==
    ASSUME IInv
    PROVE  /\ queue \in Seq(BusFrame)
           /\ handling => /\ Len(queue) = Len(rx) + 1 /\ queue[1] = frame
                          /\ \A i \in 1 .. Len(rx) : queue[i + 1] = rx[i]
           /\ ~handling => queue = rx
<1>1. rx \in Seq(BusFrame) BY DEF IInv, TypeOK
<1>2. CASE handling
  <2>1. frame \in BusFrame BY <1>2 DEF IInv, FrameIsHeld
  <2> DEFINE one == <<frame>>
  <2>2. one \in Seq(BusFrame) /\ Len(one) = 1 /\ one[1] = frame BY <2>1
  <2>3. queue = one \o rx BY <1>2 DEF queue
  <2> HIDE DEF one
  <2>3a. /\ one \o rx \in Seq(BusFrame) /\ Len(one \o rx) = Len(one) + Len(rx)
         /\ \A i \in 1 .. Len(one) + Len(rx) : (one \o rx)[i] = IF i <= Len(one) THEN one[i] ELSE rx[i - Len(one)]
    BY <1>1, <2>2, ConcatProperties
  <2>4. /\ queue \in Seq(BusFrame) /\ Len(queue) = 1 + Len(rx)
        /\ \A i \in 1 .. 1 + Len(rx) : queue[i] = IF i <= 1 THEN one[i] ELSE rx[i - 1]
    BY <2>2, <2>3, <2>3a
  <2>5. queue[1] = frame BY <1>1, <2>2, <2>4
  <2>6. \A i \in 1 .. Len(rx) : queue[i + 1] = rx[i] BY <1>1, <2>4
  <2> QED BY <1>2, <2>4, <2>5, <2>6
<1>3. CASE ~handling BY <1>1, <1>3 DEF queue
<1> QED BY <1>2, <1>3

\* Recv takes the first frame of the queue into its hands.
LEMMA RecvKeepsQueue == ASSUME IInv, IInv', Recv PROVE queue' = queue
<1>1. rx \in Seq(BusFrame) /\ ~handling BY DEF IInv, TypeOK, Recv, handling
<1>2. queue = rx BY <1>1, QueueFacts
<1>3. CASE rx # << >> /\ frame' = Head(rx) /\ rx' = Tail(rx) /\ dpc' = "poll"
  <2>1. queue' = <<Head(rx)>> \o Tail(rx) BY <1>3 DEF queue, handling
  <2>2. Head(rx) \in BusFrame /\ Tail(rx) \in Seq(BusFrame) BY <1>1, <1>3
  <2>3. Len(queue') = Len(rx) /\ \A i \in 1 .. Len(rx) : queue'[i] = rx[i] BY <1>1, <1>3, <2>1, <2>2
  <2>4. queue' \in Seq(BusFrame) BY <2>1, <2>2
  <2> QED BY <1>1, <1>2, <2>3, <2>4, SeqEqual
<1>4. CASE dpc' \in {"done", "top"} /\ UNCHANGED <<frame, rx>> BY <1>2, <1>4 DEF queue, handling
<1> QED BY <1>3, <1>4 DEF Recv

\* The values emitted so far are values.
LEMMA OutputType ==
    ASSUME IInv
    PROVE  /\ \A i \in 1 .. Len(builder) : builder[i] \in Value /\ builder[i].node \in Node
           /\ \A i \in 1 .. Len(consumed) : consumed[i] \in Value /\ consumed[i].node \in Node
<1>1. \A x \in Value : x.node \in Node BY DEF Value
<1>2. builder \in Seq(Value) /\ consumed \in Seq(Value) BY DEF IInv, TypeOK
<1> HIDE DEF Value
<1> QED BY <1>1, <1>2

(* The received frame is shown to the observer: it continues the answer    *)
(* its channel is at, or begins a later one, and an event ends the answer. *)
LEMMA SniffFrameOInv == ASSUME IInv, OInv, SniffFrame PROVE OInv'
<1> DEFINE n == frame.node
           t == transfers[n]
           o == ObserveOnChannel(t, frame)
           x == [node |-> n, event |-> o.event]
<1>1. /\ dpc = "sniff" /\ handling /\ ~handling' /\ HandleFrame(frame)
      /\ UNCHANGED <<samples, server, consumed, rx>>
  BY DEF SniffFrame, handling, external
<1>2. /\ queue' = rx /\ Len(queue) = Len(rx) + 1 /\ queue[1] = frame /\ Len(rx) \in Nat
      /\ \A i \in 1 .. Len(rx) : queue[i + 1] = rx[i]
  BY <1>1, QueueFacts DEF queue, IInv, TypeOK
<1>3. 1 \in 1 .. Len(queue) /\ \A i \in 1 .. Len(rx) : i + 1 \in 1 .. Len(queue) BY <1>2
<1>4. WellFormed(samples, frame) /\ \A i \in 1 .. Len(rx) : InOrder(frame, rx[i]) /\ WellFormed(samples, rx[i])
  <2>1. \A i \in 1 .. Len(rx) : 1 < i + 1 BY <1>2
  <2> QED BY <1>2, <1>3, <2>1 DEF OInv, QueueInOrder
<1>5. n \in Node /\ t \in Transfer \cup {NoTransfer} /\ transfers \in [Node -> Transfer \cup {NoTransfer}]
  BY <1>4 DEF WellFormed, BusFrame, IInv, TypeOK
<1>6. /\ begun(o.transfer) => \/ begun(t) /\ start(o.transfer) = start(t)
                              \/ Carries(frame) /\ start(o.transfer) = Sample(frame)
      /\ o.event.operation \in {"upload", "download"} =>
           /\ Ends(frame) /\ Carries(frame) /\ o.transfer = NoTransfer
           /\ \/ begun(t) /\ First(x) = start(t)
              \/ First(x) = Sample(frame)
  BY <1>4, <1>5, ServerFrameEffect DEF WellFormed, First
<1>7. /\ transfers' = [transfers EXCEPT ![n] = o.transfer]
      /\ builder' = IF o.event.operation \in {"upload", "download"} THEN Append(builder, x) ELSE builder
  BY <1>1 DEF HandleFrame
<1>8. x.node = n OBVIOUS
<1>9. transfers'[n] = o.transfer /\ \A m \in Node : m # n => transfers'[m] = transfers[m] BY <1>5, <1>7
<1> HIDE DEF n, t, o, x
<1>10. \A m, u : From(queue, m, u) => From(queue', m, u) BY <1>2, <1>3 DEF From
<1>11. QueueInOrder'
  <2>1. \A i, j \in 1 .. Len(rx) : i < j => i + 1 < j + 1 BY <1>2
  <2>2. \A i, j \in 1 .. Len(rx) : i < j => InOrder(rx[i], rx[j])
    <3> SUFFICES ASSUME NEW i \in 1 .. Len(rx), NEW j \in 1 .. Len(rx), i < j PROVE InOrder(rx[i], rx[j]) OBVIOUS
    <3>1. InOrder(queue[i + 1], queue[j + 1]) BY <1>3, <2>1 DEF OInv, QueueInOrder
    <3> QED BY <1>2, <3>1
  <2> QED BY <1>1, <1>2, <1>4, <2>2 DEF QueueInOrder
<1>12. ServersAreLast'
  <2>1. \A m, u : UpTo(queue, m, u) => UpTo(queue', m, u) BY <1>2, <1>3 DEF UpTo
  <2> QED BY <1>1, <2>1 DEF OInv, ServersAreLast
<1>13. Carries(frame) => /\ Known(samples, n, Sample(frame))
                         /\ server[n] # NoUpload => /\ Sample(frame) <= server[n].sample
                                                    /\ Ends(frame) => Sample(frame) < server[n].sample
  BY <1>2, <1>3, <1>4, <1>5 DEF n, OInv, ServersAreLast, UpTo, WellFormed
<1>14. Carries(frame) => From(rx, n, Sample(frame)) BY <1>4 DEF n, From, InOrder
<1>15. begun(t) => /\ Known(samples, n, start(t)) /\ ToCome(queue, server[n], n, start(t))
                   /\ Carries(frame) => start(t) <= Sample(frame)
  BY <1>2, <1>3, <1>5 DEF n, t, OInv, TransfersAreNext, ToCome, From
<1>16. TransfersAreNext'
  <2> SUFFICES ASSUME NEW m \in Node, begun(transfers'[m])
               PROVE  /\ Known(samples, m, start(transfers'[m]))
                      /\ ToCome(rx, server[m], m, start(transfers'[m]))
    BY <1>1, <1>2 DEF TransfersAreNext
  <2>1. CASE m # n BY <1>2, <1>9, <1>10, <2>1 DEF OInv, TransfersAreNext, ToCome
  <2>2. CASE m = n
    <3>1. CASE begun(t) /\ start(o.transfer) = start(t) BY <1>2, <1>9, <1>10, <1>15, <2>2, <3>1 DEF ToCome
    <3>2. CASE Carries(frame) /\ start(o.transfer) = Sample(frame)
      BY <1>9, <1>13, <1>14, <2>2, <3>2 DEF ToCome
    <3> QED BY <1>6, <1>9, <2>2, <3>1, <3>2
  <2> QED BY <2>1, <2>2
<1>17. ASSUME NEW y \in Value, Past(y, samples, queue, server[y.node], transfers[y.node])
       PROVE  /\ Past(y, samples', queue', server'[y.node], transfers'[y.node])
              /\ Carries(frame) /\ y.node = n => First(y) < Sample(frame)
  <2>1. y.node \in Node BY DEF Value
  <2>2. First(y) \in Nat BY <1>17 DEF Past, Known
  <2>3. ToCome(queue', server[y.node], y.node, First(y) + 1) BY <1>10, <1>17 DEF Past, ToCome
  <2>4. Carries(frame) /\ y.node = n => First(y) < Sample(frame)
    <3> SUFFICES ASSUME Carries(frame), y.node = n PROVE First(y) < Sample(frame) OBVIOUS
    <3>1. First(y) + 1 <= Sample(frame) BY <1>2, <1>3, <1>17 DEF n, Past, ToCome, From
    <3>2. Sample(frame) \in Nat BY <1>13 DEF Known
    <3> QED BY <2>2, <3>1, <3>2
  <2>5. begun(transfers'[y.node]) => First(y) < start(transfers'[y.node])
    <3>1. CASE y.node # n BY <1>9, <1>17, <2>1, <3>1 DEF Past
    <3>2. CASE y.node = n BY <1>6, <1>9, <1>17, <2>4, <3>2 DEF t, Past
    <3> QED BY <3>1, <3>2
  <2> QED BY <1>1, <1>17, <2>3, <2>4, <2>5 DEF Past
<1>18. ASSUME o.event.operation \in {"upload", "download"}
       PROVE  /\ Past(x, samples', queue', server'[x.node], transfers'[x.node])
              /\ \A y \in Value : Past(y, samples, queue, server[y.node], transfers[y.node]) => First(y) # First(x)
  <2>1. Carries(frame) /\ Ends(frame) /\ ~begun(transfers'[n]) BY <1>6, <1>9, <1>18 DEF begun
  <2>2. Sample(frame) \in Nat /\ Known(samples, n, Sample(frame)) BY <1>13, <2>1 DEF Known
  <2>3. First(x) \in Nat /\ Known(samples, n, First(x)) /\ First(x) <= Sample(frame)
    BY <1>6, <1>15, <1>18, <2>1, <2>2 DEF Known
  <2>4. From(rx, n, First(x) + 1)
    <3> SUFFICES ASSUME NEW i \in 1 .. Len(rx), rx[i].node = n, Carries(rx[i]) PROVE First(x) + 1 <= Sample(rx[i])
      BY DEF From
    <3>1. Sample(frame) < Sample(rx[i]) BY <1>4, <2>1 DEF n, InOrder
    <3>2. Sample(rx[i]) \in Nat BY <1>4 DEF WellFormed, Known
    <3> QED BY <2>2, <2>3, <3>1, <3>2
  <2>5. server[n] # NoUpload => First(x) + 1 <= server[n].sample
    <3> SUFFICES ASSUME server[n] # NoUpload PROVE First(x) + 1 <= server[n].sample OBVIOUS
    <3>1. Sample(frame) < server[n].sample BY <1>13, <2>1
    <3>2. server[n].sample \in Nat BY <1>5 DEF OInv, ServersAreLast, Known
    <3> QED BY <2>2, <2>3, <3>1, <3>2
  <2>6. Past(x, samples', queue', server'[x.node], transfers'[x.node])
    BY <1>1, <1>2, <1>8, <2>1, <2>3, <2>4, <2>5 DEF Past, ToCome
  <2>7. ASSUME NEW y \in Value, Past(y, samples, queue, server[y.node], transfers[y.node])
        PROVE  First(y) # First(x)
    <3>1. First(y) \in Nat /\ Known(samples, y.node, First(y)) BY <2>7 DEF Past, Known
    <3>2. CASE y.node # n BY <2>3, <3>1, <3>2 DEF Known
    <3>3. CASE y.node = n
      <4>1. First(y) < Sample(frame) BY <1>17, <2>1, <2>7, <3>3
      <4>2. begun(t) => First(y) < start(t) BY <2>7, <3>3 DEF t, Past
      <4> QED BY <1>6, <1>18, <2>2, <2>3, <3>1, <4>1, <4>2
    <3> QED BY <3>2, <3>3
  <2> QED BY <2>6, <2>7
<1>19. (builder \in Seq(Value) /\ x \in Value) \/ ~(o.event.operation \in {"upload", "download"})
  <2>1. o.event \in Event \cup {NoEvent} BY <1>4, <1>5, BusFramesHaveFields, ObserveType DEF o, WellFormed
  <2> QED BY <1>5, <2>1 DEF x, Value, NoEvent, IInv, TypeOK
<1>20. EmittedIsPast' /\ EmittedOnce'
  <2>1. /\ \A i \in 1 .. Len(builder) : Past(builder[i], samples', queue', server'[builder[i].node], transfers'[builder[i].node])
        /\ \A i \in 1 .. Len(consumed) : Past(consumed[i], samples', queue', server'[consumed[i].node], transfers'[consumed[i].node])
    BY <1>17, OutputType DEF OInv, EmittedIsPast
  <2>2. CASE builder' = builder BY <1>1, <2>1, <2>2 DEF OInv, EmittedIsPast, EmittedOnce
  <2>3. CASE o.event.operation \in {"upload", "download"}
    <3>1. builder' = Append(builder, x) /\ builder \in Seq(Value) /\ x \in Value BY <1>7, <1>19, <2>3
    <3>2. /\ Len(builder') = Len(builder) + 1 /\ Len(builder) \in Nat /\ builder'[Len(builder) + 1] = x
          /\ \A i \in 1 .. Len(builder) : builder'[i] = builder[i]
      BY <3>1, AppendProperties
    <3>3. \A i \in 1 .. Len(builder') : i = Len(builder) + 1 \/ i \in 1 .. Len(builder) BY <3>2
    <3>4. /\ \A i \in 1 .. Len(builder) : First(builder[i]) # First(x)
          /\ \A i \in 1 .. Len(consumed) : First(consumed[i]) # First(x)
      BY <1>18, <2>3, OutputType DEF OInv, EmittedIsPast
    <3>5. EmittedIsPast' BY <1>1, <1>18, <2>1, <2>3, <3>2, <3>3 DEF EmittedIsPast
    <3>6. EmittedOnce' BY <1>1, <3>2, <3>3, <3>4 DEF OInv, EmittedOnce
    <3> QED BY <3>5, <3>6
  <2> QED BY <1>7, <2>2, <2>3
<1> QED BY <1>11, <1>12, <1>16, <1>20 DEF OInv

\* A concatenation has the elements of the one and of the other.
LEMMA ConcatElements ==
    ASSUME NEW S, NEW a \in Seq(S), NEW b \in Seq(S)
    PROVE  /\ Len(a) \in Nat /\ Len(b) \in Nat /\ Len(a \o b) = Len(a) + Len(b) /\ a \o b \in Seq(S)
           /\ \A i \in 1 .. Len(a \o b) : \/ i \in 1 .. Len(a) /\ (a \o b)[i] = a[i]
                                          \/ /\ i > Len(a) /\ i - Len(a) \in 1 .. Len(b)
                                             /\ (a \o b)[i] = b[i - Len(a)]
<1>1. /\ a \o b \in Seq(S) /\ Len(a \o b) = Len(a) + Len(b)
      /\ \A i \in 1 .. Len(a) + Len(b) : (a \o b)[i] = IF i <= Len(a) THEN a[i] ELSE b[i - Len(a)]
  BY ConcatProperties
<1>2. Len(a) \in Nat /\ Len(b) \in Nat OBVIOUS
<1> QED BY <1>1, <1>2

\* Values that are emitted once, in either order.
LEMMA ConcatOnce ==
    ASSUME NEW a \in Seq(Value), NEW b \in Seq(Value),
           \A i, j \in 1 .. Len(a) : i # j => First(a[i]) # First(a[j]),
           \A i, j \in 1 .. Len(b) : i # j => First(b[i]) # First(b[j]),
           \A i \in 1 .. Len(a), j \in 1 .. Len(b) : First(a[i]) # First(b[j])
    PROVE  \A i, j \in 1 .. Len(a \o b) : i # j => First((a \o b)[i]) # First((a \o b)[j])
<1> SUFFICES ASSUME NEW i \in 1 .. Len(a \o b), NEW j \in 1 .. Len(a \o b), i # j
             PROVE  First((a \o b)[i]) # First((a \o b)[j])
  OBVIOUS
<1>0. Len(a) \in Nat /\ Len(b) \in Nat /\ Len(a \o b) = Len(a) + Len(b) BY ConcatElements
<1>1. \/ i \in 1 .. Len(a) /\ (a \o b)[i] = a[i]
      \/ i > Len(a) /\ i - Len(a) \in 1 .. Len(b) /\ (a \o b)[i] = b[i - Len(a)]
  BY ConcatElements
<1>2. \/ j \in 1 .. Len(a) /\ (a \o b)[j] = a[j]
      \/ j > Len(a) /\ j - Len(a) \in 1 .. Len(b) /\ (a \o b)[j] = b[j - Len(a)]
  BY ConcatElements
<1>3. i - Len(a) # j - Len(a) BY <1>0
<1> QED BY <1>1, <1>2, <1>3

\* A flush moves the values from the builder to the consumer.
LEMMA FlushOInv == ASSUME IInv, OInv, Flush PROVE OInv'
<1>1. /\ consumed' = consumed \o builder /\ builder' = << >> /\ ~handling /\ ~handling'
      /\ UNCHANGED <<samples, server, transfers, rx>>
  BY DEF Flush, handling, external
<1>2. queue' = queue BY <1>1 DEF queue
<1>3. builder \in Seq(Value) /\ consumed \in Seq(Value) BY DEF IInv, TypeOK
<1>4. QueueInOrder' BY <1>1, <1>2 DEF OInv, QueueInOrder
<1>5. ServersAreLast' BY <1>1, <1>2 DEF OInv, ServersAreLast
<1>6. TransfersAreNext' BY <1>1, <1>2 DEF OInv, TransfersAreNext
<1>7. Len(builder') = 0 BY <1>1
<1>8. EmittedIsPast'
  <2>1. \A i \in 1 .. Len(consumed') :
          Past(consumed'[i], samples, queue, server[consumed'[i].node], transfers[consumed'[i].node])
    <3> TAKE i \in 1 .. Len(consumed')
    <3>1. \/ i \in 1 .. Len(consumed) /\ consumed'[i] = consumed[i]
          \/ i - Len(consumed) \in 1 .. Len(builder) /\ consumed'[i] = builder[i - Len(consumed)]
      BY <1>1, <1>3, ConcatElements
    <3> QED BY <3>1 DEF OInv, EmittedIsPast
  <2> QED BY <1>1, <1>2, <1>7, <2>1 DEF EmittedIsPast
<1>9. EmittedOnce'
  <2>1. \A i, j \in 1 .. Len(consumed \o builder) :
            i # j => First((consumed \o builder)[i]) # First((consumed \o builder)[j])
    BY <1>3, ConcatOnce DEF OInv, EmittedOnce
  <2>2. \A i, j \in 1 .. Len(consumed') : i # j => First(consumed'[i]) # First(consumed'[j]) BY <1>1, <2>1
  <2> QED BY <1>7, <2>2 DEF EmittedOnce
<1> QED BY <1>4, <1>5, <1>6, <1>8, <1>9 DEF OInv

\* A reply becomes the last frame of the queue, or is lost.
LEMMA ReplyQueue ==
    ASSUME IInv, IInv', NEW f \in BusFrame, Reply(f), UNCHANGED <<dpc, frame>>
    PROVE  \/ queue' = queue
           \/ /\ Len(queue') = Len(queue) + 1 /\ queue'[Len(queue) + 1] = f
              /\ \A i \in 1 .. Len(queue) : queue'[i] = queue[i]
<1>1. rx \in Seq(BusFrame) /\ Len(rx) \in Nat BY DEF IInv, TypeOK
<1>2. CASE rx' = rx BY <1>2 DEF queue, handling
<1>3. CASE rx' = Append(rx, f)
  <2>1. /\ Len(rx') = Len(rx) + 1 /\ rx'[Len(rx) + 1] = f
        /\ \A i \in 1 .. Len(rx) : rx'[i] = rx[i]
    BY <1>1, <1>3, AppendProperties
  <2>2. CASE ~handling BY <2>1, <2>2 DEF queue, handling
  <2>3. CASE handling
    <3>1. handling' BY <2>3 DEF handling
    <3>2. /\ Len(queue) = Len(rx) + 1 /\ queue[1] = frame
          /\ \A i \in 1 .. Len(rx) : queue[i + 1] = rx[i]
      BY <2>3, QueueFacts
    <3>3. /\ Len(queue') = Len(rx') + 1 /\ queue'[1] = frame
          /\ \A i \in 1 .. Len(rx') : queue'[i + 1] = rx'[i]
      <4>1. /\ queue' = <<frame'>> \o rx' /\ frame' \in BusFrame /\ rx' \in Seq(BusFrame) /\ frame' = frame
        BY <3>1 DEF queue, IInv, FrameIsHeld, TypeOK
      <4>2. <<frame'>> \in Seq(BusFrame) /\ Len(<<frame'>>) = 1 /\ <<frame'>>[1] = frame BY <4>1
      <4> DEFINE one == <<frame'>>
      <4> HIDE DEF one
      <4>3. one \in Seq(BusFrame) /\ Len(one) = 1 /\ one[1] = frame /\ queue' = one \o rx' BY <4>1, <4>2 DEF one
      <4>4. /\ Len(one \o rx') = Len(one) + Len(rx') /\ Len(rx') \in Nat
            /\ \A i \in 1 .. Len(one) + Len(rx') : (one \o rx')[i] = IF i <= Len(one) THEN one[i] ELSE rx'[i - Len(one)]
        BY <4>1, <4>3, ConcatProperties
      <4>5. /\ Len(queue') = 1 + Len(rx') /\ Len(rx') \in Nat
            /\ \A i \in 1 .. 1 + Len(rx') : queue'[i] = IF i <= 1 THEN one[i] ELSE rx'[i - 1]
        BY <4>3, <4>4
      <4>6. queue'[1] = frame BY <4>3, <4>5
      <4>7. \A i \in 1 .. Len(rx') : queue'[i + 1] = rx'[i] BY <4>5
      <4> QED BY <4>5, <4>6, <4>7
    <3>4. Len(queue') = Len(queue) + 1 BY <1>1, <2>1, <3>2, <3>3
    <3>5. queue'[Len(queue) + 1] = f
      <4>1. Len(rx) + 1 \in 1 .. Len(rx') BY <1>1, <2>1
      <4>2. queue'[(Len(rx) + 1) + 1] = rx'[Len(rx) + 1] BY <3>3, <4>1
      <4> QED BY <2>1, <3>2, <4>2
    <3>6. \A i \in 1 .. Len(queue) : queue'[i] = queue[i]
      <4> TAKE i \in 1 .. Len(queue)
      <4>1. CASE i = 1 BY <3>2, <3>3, <4>1
      <4>2. CASE i # 1
        <5>1. i - 1 \in 1 .. Len(rx) /\ i - 1 \in 1 .. Len(rx') /\ (i - 1) + 1 = i BY <1>1, <2>1, <3>2, <4>2
        <5>2. queue[(i - 1) + 1] = rx[i - 1] /\ queue'[(i - 1) + 1] = rx'[i - 1] BY <3>2, <3>3, <5>1
        <5> QED BY <2>1, <5>1, <5>2
      <4> QED BY <4>1, <4>2
    <3> QED BY <3>4, <3>5, <3>6
  <2> QED BY <2>2, <2>3
<1> QED BY <1>2, <1>3 DEF Reply

(* A server's frame is of a new answer or of the one it is at, and it      *)
(* leaves the server at that answer or a new one.                          *)
LEMMA ServerOInv ==
    ASSUME IInv, IInv', OInv, UNCHANGED <<dpc, frame, transfers, builder, consumed>>, NEW n \in Node,
           NEW f \in BusFrame, Reply(f), f.node = n, f.dir = ServerToClient, f.cmd \in {0, 1, 16, 17, 65, 67, 128},
           NEW up, server' = [server EXCEPT ![n] = up],
           \A m, u : Known(samples, m, u) => Known(samples', m, u),
           Carries(f) => \/ Sample(f) = Len(samples) + 1 /\ Known(samples', n, Sample(f)) /\ up = NoUpload
                         \/ server[n] # NoUpload /\ Sample(f) = server[n].sample,
           up # NoUpload => \/ up.sample = Len(samples) + 1 /\ Known(samples', n, up.sample) /\ ~Carries(f)
                            \/ server[n] # NoUpload /\ up.sample = server[n].sample /\ ~Ends(f)
    PROVE  OInv'
<1>0. Len(samples) \in Nat BY DEF IInv, TypeOK
<1>1. server'[n] = up /\ \A m \in Node : m # n => server'[m] = server[m] BY DEF IInv, TypeOK
<1>2. \A m, u : Known(samples, m, u) => u \in Nat /\ u >= 1 /\ u <= Len(samples) BY <1>0 DEF Known
<1>3. server[n] # NoUpload => Known(samples, n, server[n].sample) /\ UpTo(queue, n, server[n].sample)
  BY DEF OInv, ServersAreLast
<1>4. Carries(f) => Sample(f) \in Nat /\ Known(samples', n, Sample(f)) BY <1>0, <1>2, <1>3
<1>5. \A i \in 1 .. Len(queue) : /\ WellFormed(samples, queue[i])
                                 /\ Carries(queue[i]) => Sample(queue[i]) \in Nat /\ Sample(queue[i]) <= Len(samples)
  BY <1>2 DEF OInv, QueueInOrder, WellFormed
<1>6. \A i \in 1 .. Len(queue) : InOrder(queue[i], f)
  <2> SUFFICES ASSUME NEW i \in 1 .. Len(queue), queue[i].node = n, Carries(queue[i]), Carries(f)
               PROVE  Sample(queue[i]) <= Sample(f) /\ (Ends(queue[i]) => Sample(queue[i]) < Sample(f))
    BY DEF InOrder
  <2>1. CASE Sample(f) = Len(samples) + 1 BY <1>0, <1>5, <2>1
  <2>2. CASE server[n] # NoUpload /\ Sample(f) = server[n].sample BY <1>3, <2>2 DEF UpTo
  <2> QED BY <2>1, <2>2
\* f comes after everything of node n that is under way, and so does what the server is at
<1>7. ASSUME NEW u \in Nat, u <= Len(samples) + 1, server[n] # NoUpload => u <= server[n].sample
      PROVE  /\ Carries(f) => u <= Sample(f)
             /\ up # NoUpload => u <= up.sample
  BY <1>0, <1>7
<1>8. \/ queue' = queue
      \/ /\ Len(queue') = Len(queue) + 1 /\ queue'[Len(queue) + 1] = f
         /\ \A i \in 1 .. Len(queue) : queue'[i] = queue[i]
  BY ReplyQueue
<1>9. Len(queue) \in Nat BY QueueFacts
<1>10. \A i \in 1 .. Len(queue') : \/ i \in 1 .. Len(queue) /\ queue'[i] = queue[i]
                                   \/ i = Len(queue) + 1 /\ queue'[i] = f
  BY <1>8, <1>9
<1>11. QueueInOrder'
  <2>1. \A i \in 1 .. Len(queue') : WellFormed(samples', queue'[i])
    <3>1. WellFormed(samples', f) BY <1>4 DEF WellFormed
    <3>2. \A i \in 1 .. Len(queue) : WellFormed(samples', queue[i]) BY <1>5 DEF WellFormed
    <3> QED BY <1>10, <3>1, <3>2
  <2>2. ASSUME NEW i \in 1 .. Len(queue'), NEW j \in 1 .. Len(queue'), i < j PROVE InOrder(queue'[i], queue'[j])
    <3>1. i \in 1 .. Len(queue) /\ queue'[i] = queue[i] BY <1>9, <1>10, <2>2
    <3>2. CASE j \in 1 .. Len(queue) /\ queue'[j] = queue[j]
      BY <2>2, <3>1, <3>2 DEF OInv, QueueInOrder
    <3>3. CASE queue'[j] = f BY <1>6, <3>1, <3>3
    <3> QED BY <1>10, <3>2, <3>3
  <2> QED BY <2>1, <2>2 DEF QueueInOrder
<1>12. ServersAreLast'
  <2> SUFFICES ASSUME NEW m \in Node, server'[m] # NoUpload
               PROVE  Known(samples', m, server'[m].sample) /\ UpTo(queue', m, server'[m].sample)
    BY DEF ServersAreLast
  <2>1. CASE m # n
    <3>1. Known(samples, m, server[m].sample) /\ UpTo(queue, m, server[m].sample) /\ server'[m] = server[m]
      BY <1>1, <2>1 DEF OInv, ServersAreLast
    <3> QED BY <1>10, <2>1, <3>1 DEF UpTo
  <2>2. CASE m = n
    <3>1. CASE up.sample = Len(samples) + 1 /\ Known(samples', n, up.sample) /\ ~Carries(f)
      BY <1>0, <1>1, <1>5, <1>10, <2>2, <3>1 DEF UpTo
    <3>2. CASE server[n] # NoUpload /\ up.sample = server[n].sample /\ ~Ends(f)
      <4>1. Known(samples', n, up.sample) /\ UpTo(queue, n, up.sample) BY <1>3, <3>2
      <4>2. Carries(f) => Sample(f) <= up.sample
        <5>1. up # NoUpload /\ up.sample \in Nat BY <1>1, <1>2, <1>3, <2>2, <3>2
        <5> QED BY <3>2, <5>1
      <4> QED BY <1>1, <1>10, <2>2, <3>2, <4>1, <4>2 DEF UpTo
    <3> QED BY <1>1, <2>2, <3>1, <3>2
  <2> QED BY <2>1, <2>2
<1>13. ASSUME NEW m \in Node, NEW u \in Nat, u <= Len(samples) + 1, ToCome(queue, server[m], m, u)
       PROVE  ToCome(queue', server'[m], m, u)
  <2>1. CASE m # n BY <1>1, <1>10, <1>13, <2>1 DEF ToCome, From
  <2>2. CASE m = n
    <3>1. (Carries(f) => u <= Sample(f)) /\ (up # NoUpload => u <= up.sample) BY <1>7, <1>13, <2>2 DEF ToCome
    <3> QED BY <1>1, <1>10, <1>13, <2>2, <3>1 DEF ToCome, From
  <2> QED BY <2>1, <2>2
<1>14. TransfersAreNext'
  <2> SUFFICES ASSUME NEW m \in Node, begun(transfers[m])
               PROVE  /\ Known(samples', m, start(transfers[m]))
                      /\ ToCome(queue', server'[m], m, start(transfers[m]))
    BY DEF TransfersAreNext
  <2>1. Known(samples, m, start(transfers[m])) /\ ToCome(queue, server[m], m, start(transfers[m]))
    BY DEF OInv, TransfersAreNext
  <2>2. start(transfers[m]) \in Nat /\ start(transfers[m]) <= Len(samples) + 1 BY <1>0, <1>2, <2>1
  <2> QED BY <1>13, <2>1, <2>2
<1>15. ASSUME NEW y, y.node \in Node, Past(y, samples, queue, server[y.node], transfers[y.node])
       PROVE  Past(y, samples', queue', server'[y.node], transfers'[y.node])
  <2>1. First(y) + 1 \in Nat /\ First(y) + 1 <= Len(samples) + 1 BY <1>0, <1>2, <1>15 DEF Past
  <2> QED BY <1>13, <1>15, <2>1 DEF Past
<1>16. EmittedIsPast' BY <1>15, OutputType DEF OInv, EmittedIsPast
<1>17. EmittedOnce' BY DEF OInv, EmittedOnce
<1> QED BY <1>11, <1>12, <1>14, <1>16, <1>17 DEF OInv

\* The number of a new answer is its place in samples.
LEMMA NewAnswer ==
    ASSUME NEW S, NEW given \in Seq(S), NEW x \in S
    PROVE  /\ \A m, u : Known(given, m, u) => Known(Append(given, x), m, u)
           /\ Known(Append(given, x), x.node, Len(given) + 1)
<1> DEFINE more == Append(given, x)
<1>1. /\ Len(given) \in Nat /\ Len(more) = Len(given) + 1 /\ more[Len(given) + 1] = x
      /\ \A v \in 1 .. Len(given) : more[v] = given[v]
  BY AppendProperties
<1> HIDE DEF more
<1>2. \A m, u : Known(given, m, u) => Known(more, m, u) BY <1>1 DEF Known
<1>3. Known(more, x.node, Len(given) + 1) BY <1>1 DEF Known
<1> QED BY <1>2, <1>3 DEF more

\* An answer to an initiation is a new one, or a refusal without data.
LEMMA ServerUploadOInv == ASSUME IInv, IInv', OInv, NEW n \in Node, ServerUpload(n) PROVE OInv'
<1> DEFINE a == Head(bus[n]).addr
           x == [node |-> n, addr |-> a]
           v == Len(samples) + 1
           f67 == ServerFrame(n, 67, a, [sample |-> v, part |-> 0])
           f65 == ServerFrame(n, 65, a, EmptyWord)
           f128 == ServerFrame(n, Abort, a, EmptyWord)
           up == [addr |-> a, next |-> 1, sample |-> v]
<1>1. bus[n] # << >> /\ bus[n] \in Seq(BusFrame) /\ v <= MaxSamples /\ Len(samples) \in Nat
  BY DEF IInv, TypeOK, ServerUpload
<1>2. a \in Addr
  <2>1. Head(bus[n]) \in BusFrame BY <1>1
  <2> QED BY <2>1 DEF BusFrame
<1>3. UNCHANGED <<dpc, frame, transfers, builder, consumed>> BY DEF ServerUpload, dispatcher, output
<1>4. \/ Reply(f67) /\ server' = [server EXCEPT ![n] = NoUpload] /\ samples' = Append(samples, x)
      \/ Reply(f65) /\ server' = [server EXCEPT ![n] = up] /\ samples' = Append(samples, x)
      \/ Reply(f128) /\ server' = [server EXCEPT ![n] = NoUpload] /\ samples' = samples
  BY DEF ServerUpload
<1>5. [sample |-> v, part |-> 0] \in Word BY <1>1, WordFacts, SettingsFacts
<1>6. f67 \in BusFrame /\ f65 \in BusFrame /\ f128 \in BusFrame
  <2>1. 67 \in Byte /\ 65 \in Byte /\ Abort \in Byte BY DEF Byte, Abort
  <2> QED BY <1>2, <1>5, <2>1, EmptyWordIsWord, ServerFrameType
<1>7. /\ f67.node = n /\ f67.dir = ServerToClient /\ f67.cmd = 67 /\ Sample(f67) = v
      /\ f65.node = n /\ f65.dir = ServerToClient /\ f65.cmd = 65
      /\ f128.node = n /\ f128.dir = ServerToClient /\ f128.cmd = 128
      /\ up.sample = v /\ up # NoUpload /\ x.node = n
  BY DEF ServerFrame, Abort, Sample, NoUpload
<1>8. /\ \A m, u : Known(samples, m, u) => Known(Append(samples, x), m, u)
      /\ Known(Append(samples, x), n, v)
  <2> DEFINE S == [node : Node, addr : Addr]
  <2>1. samples \in Seq(S) /\ x \in S BY <1>2 DEF IInv, TypeOK
  <2> HIDE DEF S, x
  <2> QED BY <1>7, <2>1, NewAnswer
<1> HIDE DEF a, x, v, f67, f65, f128, up
<1>9. ~Carries(f65) /\ ~Carries(f128) BY <1>7 DEF Carries
<1>10. CASE Reply(f67) /\ server' = [server EXCEPT ![n] = NoUpload] /\ samples' = Append(samples, x)
  <2>1. Sample(f67) = Len(samples) + 1 /\ Known(samples', n, Sample(f67)) BY <1>7, <1>8, <1>10 DEF v
  <2>2. \A m, u : Known(samples, m, u) => Known(samples', m, u) BY <1>8, <1>10
  <2>3. f67.cmd \in {0, 1, 16, 17, 65, 67, 128} BY <1>7
  <2> QED BY <1>3, <1>6, <1>7, <1>10, <2>1, <2>2, <2>3, ServerOInv
<1>11. CASE Reply(f65) /\ server' = [server EXCEPT ![n] = up] /\ samples' = Append(samples, x)
  <2>1. up.sample = Len(samples) + 1 /\ Known(samples', n, up.sample) BY <1>7, <1>8, <1>11 DEF v
  <2>2. \A m, u : Known(samples, m, u) => Known(samples', m, u) BY <1>8, <1>11
  <2>3. f65.cmd \in {0, 1, 16, 17, 65, 67, 128} BY <1>7
  <2> QED BY <1>3, <1>6, <1>7, <1>9, <1>11, <2>1, <2>2, <2>3, ServerOInv
<1>12. CASE Reply(f128) /\ server' = [server EXCEPT ![n] = NoUpload] /\ samples' = samples
  BY <1>3, <1>6, <1>7, <1>9, <1>12, ServerOInv
<1> QED BY <1>4, <1>10, <1>11, <1>12

\* A segment is of the answer the server is at; the last one ends it.
LEMMA ServerSegmentOInv == ASSUME IInv, IInv', OInv, NEW n \in Node, ServerSegment(n) PROVE OInv'
<1> DEFINE s == server[n]
           c == (IF s.next % 2 = 0 THEN 16 ELSE 0) + (IF s.next = SegmentCount THEN 1 ELSE 0)
           w == [sample |-> s.sample, part |-> s.next]
           a == IF s = NoUpload THEN NoAddr ELSE s.addr
           f == ServerFrame(n, c, NoAddr, w)
           f128 == ServerFrame(n, Abort, a, EmptyWord)
           up == IF s.next = SegmentCount THEN NoUpload ELSE [s EXCEPT !.next = s.next + 1]
<1>1. UNCHANGED <<dpc, frame, transfers, builder, consumed, samples>>
  BY DEF ServerSegment, dispatcher, output
<1>2. s \in Upload \cup {NoUpload} /\ SegmentCount \in Nat \ {0} BY SettingsFacts DEF IInv, TypeOK
<1>3. \/ s \in Upload /\ s # NoUpload /\ Reply(f) /\ server' = [server EXCEPT ![n] = up]
      \/ Reply(f128) /\ server' = [server EXCEPT ![n] = NoUpload]
  BY <1>2 DEF ServerSegment
<1>4. a \in Addr /\ NoAddr \in Addr BY <1>2, NoAddrAssumption DEF Upload
<1>5. c \in {0, 1, 16, 17} /\ (s.next # SegmentCount => c \in {0, 16}) OBVIOUS
<1>6. s \in Upload => w \in Word BY <1>2, WordFacts DEF Upload
<1>7. (s \in Upload => f \in BusFrame) /\ f128 \in BusFrame
  BY <1>4, <1>5, <1>6, EmptyWordIsWord, ServerFrameType DEF Byte, Abort
<1>8. /\ f.node = n /\ f.dir = ServerToClient /\ f.cmd = c /\ Sample(f) = s.sample
      /\ f128.node = n /\ f128.dir = ServerToClient /\ f128.cmd = 128
  BY DEF ServerFrame, Abort, Sample
<1>9. s \in Upload /\ s.next # SegmentCount => up.sample = s.sample /\ ~Ends(f)
  <2>1. s \in Upload /\ s.next # SegmentCount => up.sample = s.sample BY DEF Upload
  <2> HIDE DEF f, c
  <2>2. s.next # SegmentCount => ~Ends(f) BY <1>5, <1>8 DEF Ends
  <2> QED BY <2>1, <2>2
<1>10. s.next = SegmentCount => up = NoUpload OBVIOUS
<1> HIDE DEF c, w, a, f, f128, up
<1>11. ~Carries(f128) BY <1>8 DEF Carries
<1>12. CASE s \in Upload /\ s # NoUpload /\ Reply(f) /\ server' = [server EXCEPT ![n] = up]
  <2>1. \A m, u : Known(samples, m, u) => Known(samples', m, u) BY <1>1
  <2>2. f \in BusFrame /\ f.cmd \in {0, 1, 16, 17, 65, 67, 128} BY <1>5, <1>7, <1>8, <1>12
  <2>3. server[n] # NoUpload /\ Sample(f) = server[n].sample BY <1>8, <1>12
  <2>4. up # NoUpload => up.sample = server[n].sample /\ ~Ends(f) BY <1>9, <1>10, <1>12
  <2> QED BY <1>1, <1>8, <1>12, <2>1, <2>2, <2>3, <2>4, ServerOInv
<1>13. CASE Reply(f128) /\ server' = [server EXCEPT ![n] = NoUpload]
  BY <1>1, <1>7, <1>8, <1>11, <1>13, ServerOInv
<1> QED BY <1>3, <1>12, <1>13

\* OInv is inductive.
LEMMA OrderInductive == IInv /\ IInv' /\ OInv /\ [Next]_vars => OInv'
<1> SUFFICES ASSUME IInv, IInv', OInv, [Next]_vars PROVE OInv' OBVIOUS
<1> USE DEF poller, dispatcher, output, context, external
<1>1. CASE SniffRequest
  <2>1. /\ HandleFrame(request) /\ UNCHANGED <<samples, server, consumed, dpc, frame, rx>> BY <1>1 DEF SniffRequest
  <2>2. queue' = queue BY <2>1 DEF queue, handling
  <2>3. request \in BusFrame BY RequestType DEF IInv, TypeOK
  <2>4. request.dir = ClientToServer /\ request.cmd = UploadRequest BY DEF request, ClientFrame
  <2> QED BY <2>1, <2>2, <2>3, <2>4, RequestSniffed
<1>2. CASE SegmentSniff
  <2>1. /\ HandleFrame(segmentRequest) /\ UNCHANGED <<samples, server, consumed, frame, rx>>
        /\ handling /\ handling' /\ sending
    BY <1>2 DEF SegmentSniff, handling, sending
  <2>2. queue' = queue BY <2>1 DEF queue
  <2>3. active \in Poll BY <2>1 DEF IInv, TypeOK, SegmentIsForActive
  <2>4. segmentRequest \in BusFrame BY <2>3, SegmentRequestType
  <2>5. segmentRequest.dir = ClientToServer /\ segmentRequest.cmd \in {96, 112} BY DEF segmentRequest, ClientFrame
  <2> QED BY <2>1, <2>2, <2>4, <2>5, RequestSniffed
<1>3. CASE \/ Activate \/ SendRequest \/ Await \/ Conclude \/ BackoffElapsed \/ IntervalElapsed
           \/ DispatchTop \/ PollerHandleFrame \/ SegmentSend \/ Cancel \/ CloseConn \/ UNCHANGED vars
  <2>1. UNCHANGED <<samples, server, transfers, builder, consumed, rx, frame>>
    BY <1>3 DEF Activate, SendRequest, Await, Conclude, BackoffElapsed, IntervalElapsed,
                DispatchTop, PollerHandleFrame, SegmentSend, Cancel, CloseConn, vars
  <2>2. handling' <=> handling
    <3>1. CASE Activate \/ SendRequest \/ Await \/ Conclude \/ BackoffElapsed \/ IntervalElapsed \/ Cancel \/ CloseConn \/ UNCHANGED vars
      BY <3>1 DEF Activate, SendRequest, Await, Conclude, BackoffElapsed, IntervalElapsed, Cancel, CloseConn, vars, handling
    <3>2. CASE DispatchTop \/ SegmentSend BY <3>2 DEF DispatchTop, SegmentSend, handling
    <3>3. CASE PollerHandleFrame
      <4>1. dpc = "poll" /\ dpc' \in {"sniff", "segmentSniff"} BY <3>3 DEF PollerHandleFrame, finish, requestSegment
      <4> QED BY <4>1 DEF handling
    <3> QED BY <1>3, <3>1, <3>2, <3>3
  <2>3. queue' = queue BY <2>1, <2>2 DEF queue
  <2> QED BY <2>1, <2>3, OrderQuiet
<1>4. CASE Recv BY <1>4, RecvKeepsQueue, OrderQuiet DEF Recv
<1>5. CASE SniffFrame BY <1>5, SniffFrameOInv
<1>6. CASE Flush BY <1>6, FlushOInv
<1>7. CASE \E n \in Node : ServerUpload(n) \/ ServerSegment(n) BY <1>7, ServerUploadOInv, ServerSegmentOInv
<1> QED BY <1>1, <1>2, <1>3, <1>4, <1>5, <1>6, <1>7 DEF Next, PollerStep, DispatcherStep, Stopped

\* OInv holds initially.
LEMMA InitOInv == Init => OInv
<1> SUFFICES ASSUME Init PROVE OInv OBVIOUS
<1>1. queue = << >> /\ Len(queue) = 0 BY DEF Init, queue, handling
<1>2. QueueInOrder BY <1>1 DEF QueueInOrder
<1>3. ServersAreLast BY DEF Init, ServersAreLast
<1>4. TransfersAreNext BY DEF Init, TransfersAreNext, begun
<1>5. EmittedIsPast /\ EmittedOnce BY DEF Init, EmittedIsPast, EmittedOnce
<1> QED BY <1>2, <1>3, <1>4, <1>5 DEF OInv

(* However the retry of a poll and the late answer to its first attempt    *)
(* overlap, whatever is lost, and whichever node answers when: no answer   *)
(* of a server reaches the pipeline twice (delete in observeServer and     *)
(* observeSegment).                                                        *)
THEOREM EmittedAtMostOnce == Spec => []NoValueTwice
<1>1. IInv /\ OInv => NoValueTwice
  <2> SUFFICES ASSUME IInv, OInv PROVE NoValueTwice OBVIOUS
  <2>1. builder \in Seq(Value) /\ consumed \in Seq(Value) BY DEF IInv, TypeOK
  <2>2. \A i, j \in 1 .. Len(builder \o consumed) :
            i # j => First((builder \o consumed)[i]) # First((builder \o consumed)[j])
    BY <2>1, ConcatOnce DEF OInv, EmittedOnce
  <2> QED BY <2>2 DEF NoValueTwice, emitted, First
<1> QED BY <1>1, InitIInv, Inductive, InitOInv, OrderInductive, PTL DEF Spec

-----------------------------------------------------------------------------
(* One value per request.  A transfer is open only for the object that was *)
(* last requested of its node, and the value that completes it closes it.  *)

OpenForRequest == \A n \in Node : transfers[n] # NoTransfer => transfers[n].addr = requested[n]

\* A server's frame opens no transfer, and its value is the open transfer's.
LEMMA ServerFrameObject ==
    ASSUME NEW t \in Transfer \cup {NoTransfer}, NEW f \in BusFrame, f.dir = ServerToClient,
           f.cmd \in {0, 1, 16, 17, 65, 67, 128}
    PROVE  LET o == ObserveOnChannel(t, f)
           IN  /\ o.transfer # NoTransfer => t # NoTransfer /\ o.transfer.addr = t.addr
               /\ o.event.operation \in {"upload", "download"} => t # NoTransfer /\ o.event.addr = t.addr
<1> DEFINE o == ObserveOnChannel(t, f)
           begunUpload == [t EXCEPT !.uploadInitiated = TRUE]
           longer == [t EXCEPT !.data = Append(t.data, segmentData(f)), !.toggle = ~@]
<1>0. f.len = sdoFrameLength /\ f.dir # ClientToServer BY DEF BusFrame, ClientToServer, ServerToClient
<1>1. /\ \A u : Ignored(u).transfer = u /\ Ignored(u).event.operation = "none"
      /\ \A u, e : Observed(u, e).transfer = u /\ Observed(u, e).event = e
      /\ \A d : complete(t, d).addr = t.addr
      /\ abortEvent(f).operation = "abort"
  BY DEF Ignored, Observed, NoEvent, complete, abortEvent
<1>2. t # NoTransfer => begunUpload.addr = t.addr /\ longer.addr = t.addr BY DEF Transfer
<1>3. CASE f.cmd = Abort
  <2>1. o = Observed(NoTransfer, abortEvent(f)) BY <1>0, <1>3 DEF ObserveOnChannel, sdoFrameLength
  <2> HIDE DEF o
  <2> QED BY <1>1, <2>1 DEF o
<1>4. CASE f.cmd # Abort
  <2>1. o = observeServer(t, f) BY <1>0, <1>4 DEF ObserveOnChannel, sdoFrameLength
  <2>2. \/ o = Ignored(t) \/ o = Ignored(NoTransfer)
        \/ /\ t # NoTransfer
           /\ \/ o = Ignored(begunUpload) \/ o = Ignored(longer)
              \/ \E d : o = Observed(NoTransfer, complete(t, d))
    BY <2>1 DEF observeServer, observeSegment
  <2> HIDE DEF o, begunUpload, longer
  <2> QED BY <1>1, <1>2, <2>2 DEF o
<1> QED BY <1>3, <1>4

\* A request opens a transfer for the object it asks for, or changes none.
LEMMA ClientFrameObject ==
    ASSUME NEW t, NEW f \in BusFrame, f.dir = ClientToServer, f.cmd \in {UploadRequest, 96, 112}
    PROVE  LET o == ObserveOnChannel(t, f)
           IN  /\ o.event = NoEvent
               /\ IF f.cmd = UploadRequest THEN o.transfer.addr = f.addr ELSE o.transfer = t
<1> DEFINE o == ObserveOnChannel(t, f)
<1>0. f.len = sdoFrameLength BY DEF BusFrame
<1>1. o = observeClient(t, f) BY <1>0 DEF ObserveOnChannel, sdoFrameLength, ClientToServer, ServerToClient
<1>2. Specifier(96) = 3 /\ Specifier(112) = 3 /\ UploadRequest = 64 BY DEF Specifier, UploadRequest
<1>3. o = IF f.cmd = UploadRequest THEN Ignored(newTransfer("upload", ServerToClient, f.addr)) ELSE Ignored(t)
  BY <1>1, <1>2 DEF observeClient
<1>4. newTransfer("upload", ServerToClient, f.addr).addr = f.addr BY DEF newTransfer
<1>5. \A u : Ignored(u).transfer = u /\ Ignored(u).event = NoEvent BY DEF Ignored, Observed
<1> HIDE DEF o
<1> QED BY <1>3, <1>4, <1>5 DEF o

\* A value is added only for what was requested last.
Due == Len(builder') > Len(builder) =>
           LET value == builder'[Len(builder')] IN requested[value.node] = value.event.addr

\* Showing the observer a frame of the poller or of a server.
LEMMA HandleFrameObject ==
    ASSUME IInv, OpenForRequest, NEW f \in BusFrame, HandleFrame(f),
           \/ f.dir = ClientToServer /\ f.cmd \in {UploadRequest, 96, 112}
           \/ f.dir = ServerToClient /\ f.cmd \in {0, 1, 16, 17, 65, 67, 128}
    PROVE  OpenForRequest' /\ Due
<1> DEFINE n == f.node
           t == transfers[n]
           o == ObserveOnChannel(t, f)
           value == o.event.operation \in {"upload", "download"}
           v == [node |-> n, event |-> o.event]
<1>1. n \in Node /\ FrameFields(f) BY BusFramesHaveFields
<1>2. /\ transfers \in [Node -> Transfer \cup {NoTransfer}] /\ t \in Transfer \cup {NoTransfer}
      /\ requested \in [Node -> Addr] /\ builder \in Seq(Value)
  BY <1>1 DEF IInv, TypeOK
<1>3. /\ transfers' = [transfers EXCEPT ![n] = o.transfer]
      /\ builder' = IF value THEN Append(builder, v) ELSE builder
      /\ requested' = [requested EXCEPT ![n] = IF value THEN NoAddr ELSE IF f.cmd = UploadRequest THEN f.addr ELSE @]
  BY DEF HandleFrame
<1>4. t # NoTransfer => t.addr = requested[n] BY <1>1 DEF OpenForRequest
<1>5. UploadRequest = 64 /\ NoEvent.operation = "none" BY DEF UploadRequest, NoEvent
<1>6. /\ value => o.transfer = NoTransfer /\ o.event.addr = requested[n]
      /\ ~value /\ o.transfer # NoTransfer => o.transfer.addr = IF f.cmd = UploadRequest THEN f.addr ELSE requested[n]
  <2>1. CASE f.dir = ClientToServer /\ f.cmd \in {UploadRequest, 96, 112}
    <3>1. o.event = NoEvent /\ IF f.cmd = UploadRequest THEN o.transfer.addr = f.addr ELSE o.transfer = t
      BY <2>1, ClientFrameObject
    <3> HIDE DEF o, t
    <3> QED BY <1>4, <1>5, <3>1
  <2>2. CASE f.dir = ServerToClient /\ f.cmd \in {0, 1, 16, 17, 65, 67, 128}
    <3>1. /\ o.transfer # NoTransfer => t # NoTransfer /\ o.transfer.addr = t.addr
          /\ value => t # NoTransfer /\ o.event.addr = t.addr
      BY <1>2, <2>2, ServerFrameObject
    <3>2. value => o.transfer = NoTransfer BY <1>2, <2>2, ServerFrameEffect
    <3> HIDE DEF o, t
    <3> QED BY <1>4, <1>5, <2>2, <3>1, <3>2
  <2> QED BY <2>1, <2>2
<1>7. value => v \in Value
  <2>1. o.event \in Event \cup {NoEvent} BY <1>1, <1>2, ObserveType
  <2>2. value => o.event \in Event BY <1>5, <2>1
  <2> QED BY <1>1, <2>2 DEF Value
<1>8. v.node = n /\ v.event = o.event OBVIOUS
<1> HIDE DEF n, t, o, v
<1>9. OpenForRequest' BY <1>1, <1>2, <1>3, <1>6 DEF OpenForRequest
<1>10. Due
  <2>1. value => builder'[Len(builder')] = v BY <1>2, <1>3, <1>7
  <2>2. ~value => Len(builder') = Len(builder) /\ Len(builder) \in Nat BY <1>2, <1>3
  <2> QED BY <1>6, <1>8, <2>1, <2>2 DEF Due
<1> QED BY <1>9, <1>10

\* OpenForRequest is inductive, and every value is due.
LEMMA RequestInductive == IInv /\ OInv /\ OpenForRequest /\ [Next]_vars => OpenForRequest' /\ Due
<1> SUFFICES ASSUME IInv, OInv, OpenForRequest, [Next]_vars PROVE OpenForRequest' /\ Due OBVIOUS
<1> USE DEF output, vars
<1>0. builder \in Seq(Value) BY DEF IInv, TypeOK
<1>1. ASSUME UNCHANGED <<transfers, requested, builder>> PROVE OpenForRequest' /\ Due
  BY <1>0, <1>1 DEF OpenForRequest, Due
<1>2. CASE SniffRequest
  <2>1. HandleFrame(request) BY <1>2 DEF SniffRequest
  <2>2. request \in BusFrame BY RequestType DEF IInv, TypeOK
  <2>3. request.dir = ClientToServer /\ request.cmd = UploadRequest BY DEF request, ClientFrame
  <2> QED BY <2>1, <2>2, <2>3, HandleFrameObject
<1>3. CASE SegmentSniff
  <2>1. HandleFrame(segmentRequest) /\ sending BY <1>3 DEF SegmentSniff, sending
  <2>2. active \in Poll BY <2>1 DEF IInv, TypeOK, SegmentIsForActive
  <2>3. segmentRequest \in BusFrame BY <2>2, SegmentRequestType
  <2>4. segmentRequest.dir = ClientToServer /\ segmentRequest.cmd \in {96, 112} BY DEF segmentRequest, ClientFrame
  <2> QED BY <2>1, <2>3, <2>4, HandleFrameObject
<1>4. CASE SniffFrame
  <2>1. HandleFrame(frame) /\ handling BY <1>4 DEF SniffFrame, handling
  <2>2. frame \in BusFrame BY <2>1 DEF IInv, FrameIsHeld
  <2>3. WellFormed(samples, frame)
    <3>1. queue = <<frame>> \o rx /\ rx \in Seq(BusFrame) BY <2>1 DEF queue, IInv, TypeOK
    <3>2. 1 \in 1 .. Len(queue) /\ queue[1] = frame BY <2>2, <3>1
    <3> QED BY <3>2 DEF OInv, QueueInOrder
  <2> QED BY <2>1, <2>2, <2>3, HandleFrameObject DEF WellFormed
<1>5. CASE Flush
  <2>1. UNCHANGED <<transfers, requested>> /\ builder' = << >> BY <1>5 DEF Flush
  <2> QED BY <1>0, <2>1 DEF OpenForRequest, Due
<1>6. CASE PollerStep /\ ~SniffRequest
  BY <1>1, <1>6 DEF PollerStep, Activate, SendRequest, Await, Conclude, BackoffElapsed, IntervalElapsed
<1>7. CASE DispatcherStep /\ ~SegmentSniff /\ ~SniffFrame /\ ~Flush
  BY <1>1, <1>7 DEF DispatcherStep, DispatchTop, Recv, PollerHandleFrame, SegmentSend
<1>8. CASE Cancel \/ CloseConn BY <1>1, <1>8 DEF Cancel, CloseConn
<1>9. CASE \E n \in Node : ServerUpload(n) \/ ServerSegment(n) BY <1>1, <1>9 DEF ServerUpload, ServerSegment
<1>10. CASE UNCHANGED vars BY <1>1, <1>10
<1> QED BY <1>2, <1>3, <1>4, <1>5, <1>6, <1>7, <1>8, <1>9, <1>10 DEF Next, Stopped

(* However the retry of a poll and the late answer to its first attempt    *)
(* overlap, a request yields at most one value, and one of the object that *)
(* was requested: a completed transfer is deleted, and the address of the  *)
(* answer compared (observeServer, observeSegment).                        *)
THEOREM ValuesAreRequested == Spec => OneValuePerRequest
<1>1. Init => OpenForRequest BY DEF Init, OpenForRequest
<1>2. IInv /\ OInv /\ OpenForRequest /\ [Next]_vars => OpenForRequest' BY RequestInductive
<1>3. IInv /\ OInv /\ OpenForRequest /\ [Next]_vars =>
        [Len(builder') > Len(builder) =>
           LET value == builder'[Len(builder')] IN requested[value.node] = value.event.addr]_vars
  BY RequestInductive DEF Due
<1> QED
  BY <1>1, <1>2, <1>3, InitIInv, Inductive, InitOInv, OrderInductive, PTL DEF Spec, OneValuePerRequest
=============================================================================
