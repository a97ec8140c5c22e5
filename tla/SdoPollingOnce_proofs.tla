----------------------- MODULE SdoPollingOnce_proofs -----------------------
(***************************************************************************)
(* Polling each object once, without retries: every emitted value is       *)
(* whole, and with one object per node every successful poll is emitted.   *)
(* Neither holds otherwise (see the runs sdo_polling_torn and              *)
(* sdo_polling_shared_emission).                                           *)
(*                                                                         *)
(* The argument follows one transfer: its request is the last of its node  *)
(* until it is answered, and from then on only one frame of the node is    *)
(* under way at a time, the next segment or the request for it.            *)
(***************************************************************************)
EXTENDS SdoPolling_proofs

\* Each object is requested once.
Once == ~Retry /\ Mode = "once"

\* The poller has acted on the frame, the observer has yet to see it.
acted == dpc \in {"segmentSniff", "segmentSend", "sniff"}

\* The frames the poller has not looked at.
unread == IF dpc = "poll" THEN <<frame>> \o rx ELSE rx

\* The transfer of a channel once the observer has seen what the poller has.
seen(n) == IF acted /\ frame.node = n THEN ObserveOnChannel(transfers[n], frame).transfer ELSE transfers[n]

sendingTo(n)  == sending /\ frame.node = n
segmentsOf(n) == active # NoPoll /\ active.segment /\ Objects[active.obj].node = n
sent(i)       == i < obj \/ (i = obj /\ ppc \in {"wait", "clear", "done"})

Segment(f) == f.cmd \in {0, 1, 16, 17}

\* e is one of the values given by node n, whole.
Whole(n, e, given) ==
    \E v \in 1 .. Len(given) :
        /\ given[v] = [node |-> n, addr |-> e.addr]
        /\ \/ Len(e.data) = 1 /\ CarriesPart(e.data[1], v, 0)
           \/ Len(e.data) = SegmentCount /\ \A k \in 1 .. SegmentCount : CarriesPart(e.data[k], v, k)

NeverRepeats == ppc \notin {"backoff", "interval"}

\* The objects that have been requested.
askedObjects == {Objects[i] : i \in {j \in 1 .. Len(Objects) : sent(j)}}

RequestsAreSent ==
    /\ \A n \in Node : \A j \in 1 .. Len(bus[n]) :
           bus[n][j].cmd = UploadRequest => [node |-> n, addr |-> bus[n][j].addr] \in askedObjects
    /\ \A v \in 1 .. Len(samples) : samples[v] \in askedObjects

\* The transfer, if there is one, is an upload that has collected nothing before it is answered.
IsUpload(t) == t # NoTransfer => /\ t.operation = "upload" /\ t.direction = ServerToClient
                                 /\ ~t.uploadInitiated => t.data = << >> /\ ~t.toggle

UploadsOnly == \A n \in Node : IsUpload(transfers[n])

\* The observer waits for the object being polled, or for nothing.
LatestRequest ==
    LET t == transfers[Objects[obj].node]
    IN  ppc \in {"send", "wait", "clear"} /\ t # NoTransfer => t.addr = Objects[obj].addr

\* The server of node n is at one of the values given.
IsAt(n, up, given) == up # NoUpload => /\ up.sample \in 1 .. Len(given)
                                       /\ given[up.sample] = [node |-> n, addr |-> up.addr]

ServersAnswer == \A n \in Node : IsAt(n, server[n], samples)

\* What an answer under way says of the values given so far.
Honest(f, given) ==
    /\ f.cmd \in {65, 67} =>
           \E v \in 1 .. Len(given) : /\ given[v] = [node |-> f.node, addr |-> f.addr]
                                      /\ f.cmd = 67 => f.word = [sample |-> v, part |-> 0]
    /\ Segment(f) => f.addr = NoAddr

AnswersAreHonest ==
    /\ \A p \in 1 .. Len(rx) : Honest(rx[p], samples)
    /\ handling => Honest(frame, samples)

(* A transfer of object a of node n that has not been answered: q are the  *)
(* unread frames, b the requests to n, up what its server is at, and seg   *)
(* says that the poller asks n for segments.                               *)
Awaits(n, a, q, b, up, given, seg) ==
    /\ \A j \in 1 .. Len(b) : b[j].cmd = UploadRequest /\ b[j].addr = a =>
           j = Len(b) /\ ~Answered(given, [node |-> n, addr |-> a])
    /\ \A p \in 1 .. Len(q) : q[p].node = n /\ q[p].cmd = 65 /\ q[p].addr = a =>
           /\ b = << >> /\ ~seg
           /\ \A r \in 1 .. Len(q) : r > p => q[r].node # n
           /\ up # NoUpload => up.addr = a /\ up.next = 1

(* One that waits for part k of value v: at most one frame is under way,   *)
(* that part or the request for it; snd says it is about to be requested.  *)
Continues(n, v, k, q, b, up, snd) ==
    /\ \A p \in 1 .. Len(q) : q[p].node = n =>
           /\ b = << >> /\ ~snd
           /\ \A r \in 1 .. Len(q) : q[r].node = n => r = p
           /\ \/ q[p].cmd = Abort
              \/ /\ Segment(q[p]) /\ (LowBit(q[p].cmd) => k = SegmentCount)
                 /\ q[p].word = [sample |-> v, part |-> k]
                 /\ up # NoUpload => up.sample = v /\ up.next = k + 1
    /\ b # << >> => Len(b) = 1 /\ b[1].cmd # UploadRequest /\ ~snd
    /\ (b # << >> \/ snd) /\ up # NoUpload => up.sample = v /\ up.next = k

Collects(n, u, q, b, up, given, snd) ==
    \E v \in 1 .. Len(given) :
        /\ given[v] = [node |-> n, addr |-> u.addr]
        /\ \A k \in 1 .. Len(u.data) : CarriesPart(u.data[k], v, k)
        /\ Continues(n, v, Len(u.data) + 1, q, b, up, snd)

Follows(n, u, q, b, up, given, seg, snd) ==
    u # NoTransfer => IF u.uploadInitiated THEN Collects(n, u, q, b, up, given, snd)
                      ELSE Awaits(n, u.addr, q, b, up, given, seg)

TransfersFollow ==
    \A n \in Node : Follows(n, seen(n), unread, bus[n], server[n], samples, segmentsOf(n), sendingTo(n))

\* What the observer will report for the frame the poller has acted on.
pending == ObserveOnChannel(transfers[frame.node], frame).event

PendingIsWhole == acted /\ pending.operation \in {"upload", "download"} => Whole(frame.node, pending, samples)

EmittedAreWhole ==
    /\ \A i \in 1 .. Len(builder) : Whole(builder[i].node, builder[i].event, samples)
    /\ \A i \in 1 .. Len(consumed) : Whole(consumed[i].node, consumed[i].event, samples)

WInv == /\ NeverRepeats /\ RequestsAreSent /\ UploadsOnly /\ LatestRequest /\ ServersAnswer
        /\ AnswersAreHonest /\ TransfersFollow /\ PendingIsWhole /\ EmittedAreWhole

-----------------------------------------------------------------------------
(* What the observer makes of a server's frame.                            *)

\* The fields of the command bytes a server sends.
LEMMA ServerCommands ==
    /\ Specifier(0) = 0 /\ Specifier(1) = 0 /\ Specifier(16) = 0 /\ Specifier(17) = 0
    /\ Specifier(65) = 2 /\ Specifier(67) = 2 /\ Abort = 128 /\ UploadRequest = 64
    /\ ExpeditedBit(67) /\ ~ExpeditedBit(65)
    /\ LowBit(1) /\ LowBit(17) /\ ~LowBit(0) /\ ~LowBit(16)
BY DEF Specifier, ExpeditedBit, LowBit, Abort, UploadRequest

\* A frame a server sends.
Served(f) == f \in BusFrame /\ f.dir = ServerToClient /\ f.cmd \in {0, 1, 16, 17, 65, 67, 128}

\* Without a transfer nothing is reported but an abort.
LEMMA NothingObserved ==
    ASSUME NEW f, Served(f)
    PROVE  LET o == ObserveOnChannel(NoTransfer, f)
           IN  o.transfer = NoTransfer /\ o.event.operation \notin {"upload", "download"}
<1>1. f.len = sdoFrameLength /\ f.dir # ClientToServer BY DEF Served, BusFrame, ClientToServer, ServerToClient
<1>2. observeServer(NoTransfer, f) = Ignored(NoTransfer) BY DEF observeServer
<1>3. \/ ObserveOnChannel(NoTransfer, f) = Observed(NoTransfer, abortEvent(f))
      \/ ObserveOnChannel(NoTransfer, f) = Ignored(NoTransfer)
  BY <1>1, <1>2 DEF ObserveOnChannel, sdoFrameLength
<1> QED BY <1>3 DEF Observed, Ignored, NoEvent, abortEvent

\* Each kind of frame, shown to an upload.
LEMMA UploadObserved ==
    ASSUME NEW t \in Transfer, t.operation = "upload", t.direction = ServerToClient, NEW f, Served(f)
    PROVE  LET o == ObserveOnChannel(t, f)
               more == Append(t.data, segmentData(f))
           IN  /\ f.cmd = 128 => o = Observed(NoTransfer, abortEvent(f))
               /\ f.cmd = 65 => o = Ignored(IF f.addr = t.addr THEN [t EXCEPT !.uploadInitiated = TRUE] ELSE t)
               /\ f.cmd = 67 => o = IF f.addr = t.addr THEN Observed(NoTransfer, complete(t, expeditedData(f)))
                                    ELSE Ignored(t)
               /\ Segment(f) => o = IF ~t.uploadInitiated THEN Ignored(t)
                                    ELSE IF ToggleBit(f.cmd) # t.toggle THEN Ignored(NoTransfer)
                                    ELSE IF LowBit(f.cmd) THEN Observed(NoTransfer, complete(t, more))
                                    ELSE Ignored([t EXCEPT !.data = more, !.toggle = ~@])
<1>1. f.len = sdoFrameLength /\ f.dir # ClientToServer BY DEF Served, BusFrame, ClientToServer, ServerToClient
<1>2. t # NoTransfer BY DEF Transfer, NoTransfer
<1>3. f.cmd = 128 => ObserveOnChannel(t, f) = Observed(NoTransfer, abortEvent(f))
  BY <1>1, ServerCommands DEF ObserveOnChannel, sdoFrameLength, Served
<1>4. f.cmd # 128 => ObserveOnChannel(t, f) = observeServer(t, f)
  BY <1>1, ServerCommands DEF ObserveOnChannel, sdoFrameLength, Served
<1>5. f.cmd = 65 => observeServer(t, f) = Ignored(IF f.addr = t.addr THEN [t EXCEPT !.uploadInitiated = TRUE] ELSE t)
  BY <1>2, ServerCommands DEF observeServer
<1>6. f.cmd = 67 => observeServer(t, f) = IF f.addr = t.addr THEN Observed(NoTransfer, complete(t, expeditedData(f)))
                                          ELSE Ignored(t)
  BY <1>2, ServerCommands DEF observeServer
<1>7. Segment(f) => observeServer(t, f) = observeSegment(t, f)
  BY <1>2, ServerCommands DEF observeServer, Segment
<1>8. observeSegment(t, f) = IF ~t.uploadInitiated THEN Ignored(t)
                             ELSE IF ToggleBit(f.cmd) # t.toggle THEN Ignored(NoTransfer)
                             ELSE IF LowBit(f.cmd) THEN Observed(NoTransfer, complete(t, Append(t.data, segmentData(f))))
                             ELSE Ignored([t EXCEPT !.data = Append(t.data, segmentData(f)), !.toggle = ~@])
  BY <1>2 DEF observeSegment, Served
<1>9. Segment(f) => f.cmd # 128 BY DEF Segment
<1> QED BY <1>3, <1>4, <1>5, <1>6, <1>7, <1>8, <1>9

\* The two parts of an outcome.
LEMMA Outcome ==
    /\ \A u : Ignored(u).transfer = u /\ Ignored(u).event = NoEvent
    /\ \A u, e : Observed(u, e).transfer = u /\ Observed(u, e).event = e
    /\ NoEvent.operation \notin {"upload", "download"}
BY DEF Ignored, Observed, NoEvent

\* Observing keeps an upload and its object, or ends it.
LEMMA SameObject ==
    ASSUME NEW t \in Transfer \cup {NoTransfer}, IsUpload(t), NEW f, Served(f)
    PROVE  LET u == ObserveOnChannel(t, f).transfer
           IN  /\ u \in Transfer \cup {NoTransfer} /\ IsUpload(u)
               /\ u # NoTransfer => t # NoTransfer /\ u.addr = t.addr
<1> DEFINE o == ObserveOnChannel(t, f)
           more == Append(t.data, segmentData(f))
           longer == [t EXCEPT !.data = more, !.toggle = ~@]
           begunUpload == [t EXCEPT !.uploadInitiated = TRUE]
<1>1. CASE t = NoTransfer BY <1>1, NothingObserved DEF IsUpload
<1>2. CASE t # NoTransfer
  <2>0. t \in Transfer /\ t.operation = "upload" /\ t.direction = ServerToClient /\ (~t.uploadInitiated => t.data = << >> /\ ~t.toggle)
    BY <1>2 DEF IsUpload
  <2>1. /\ begunUpload.addr = t.addr /\ begunUpload.uploadInitiated
        /\ begunUpload.operation = t.operation /\ begunUpload.direction = t.direction
    BY <2>0 DEF Transfer
  <2>2. /\ longer.addr = t.addr /\ longer.uploadInitiated = t.uploadInitiated
        /\ longer.operation = t.operation /\ longer.direction = t.direction
    BY <2>0 DEF Transfer
  <2>3. /\ f.cmd = 128 => o = Observed(NoTransfer, abortEvent(f))
        /\ f.cmd = 65 => o = Ignored(IF f.addr = t.addr THEN begunUpload ELSE t)
        /\ f.cmd = 67 => o = IF f.addr = t.addr THEN Observed(NoTransfer, complete(t, expeditedData(f))) ELSE Ignored(t)
        /\ Segment(f) => o = IF ~t.uploadInitiated THEN Ignored(t)
                             ELSE IF ToggleBit(f.cmd) # t.toggle THEN Ignored(NoTransfer)
                             ELSE IF LowBit(f.cmd) THEN Observed(NoTransfer, complete(t, more))
                             ELSE Ignored(longer)
    BY <2>0, UploadObserved
  <2>4. f.cmd \in {65, 67, 128} \/ Segment(f) BY DEF Served, Segment
  <2>5. o.transfer \in Transfer \cup {NoTransfer} BY BusFramesHaveFields, ObserveType DEF Served
  <2> HIDE DEF o, more, longer, begunUpload
  <2>6. o.transfer \in {NoTransfer, t, begunUpload} \/ (o.transfer = longer /\ t.uploadInitiated) BY <2>3, <2>4, Outcome
  <2>7. IsUpload(o.transfer) BY <2>0, <2>1, <2>2, <2>6 DEF IsUpload
  <2>8. o.transfer # NoTransfer => o.transfer.addr = t.addr BY <2>1, <2>2, <2>6
  <2> QED BY <1>2, <2>5, <2>7, <2>8 DEF o
<1> QED BY <1>1, <1>2

\* What the observer makes of a request.
LEMMA RequestObserved ==
    ASSUME NEW t, NEW f \in BusFrame, f.dir = ClientToServer
    PROVE  /\ f.cmd = UploadRequest => ObserveOnChannel(t, f) = Ignored(newTransfer("upload", ServerToClient, f.addr))
           /\ f.cmd \in {96, 112} => ObserveOnChannel(t, f) = Ignored(t)
<1>1. ObserveOnChannel(t, f) = observeClient(t, f)
  BY DEF ObserveOnChannel, sdoFrameLength, ClientToServer, ServerToClient, BusFrame
<1>2. Specifier(96) = 3 /\ Specifier(112) = 3 /\ UploadRequest = 64 BY DEF Specifier, UploadRequest
<1> QED BY <1>1, <1>2 DEF observeClient

-----------------------------------------------------------------------------
(* The frames under way.                                                   *)

\* The unread frames are frames of servers, and the first is the one in hand.
LEMMA UnreadFacts ==
    ASSUME IInv, OInv
    PROVE  /\ unread \in Seq(BusFrame) /\ Len(unread) \in Nat
           /\ \A p \in 1 .. Len(unread) : Served(unread[p]) /\ \E r \in 1 .. Len(queue) : unread[p] = queue[r]
           /\ dpc = "poll" => /\ Len(unread) = Len(rx) + 1 /\ unread[1] = frame
                              /\ \A p \in 1 .. Len(rx) : unread[p + 1] = rx[p]
           /\ dpc # "poll" => unread = rx
           /\ handling => Served(frame) /\ frame = queue[1] /\ 1 \in 1 .. Len(queue)
<1>1. \A r \in 1 .. Len(queue) : Served(queue[r]) BY DEF OInv, QueueInOrder, WellFormed, Served
<1>2. rx \in Seq(BusFrame) /\ Len(rx) \in Nat BY DEF IInv, TypeOK
<1>3. CASE dpc = "poll"
  <2>1. handling /\ unread = queue BY <1>3 DEF handling, unread, queue
  <2> QED BY <1>1, <1>2, <1>3, <2>1, QueueFacts
<1>4. CASE dpc # "poll"
  <2>1. unread = rx BY <1>4 DEF unread
  <2>2. CASE handling
    <3>1. \A p \in 1 .. Len(rx) : p + 1 \in 1 .. Len(queue) /\ queue[p + 1] = rx[p] BY <1>2, <2>2, QueueFacts
    <3>2. 1 \in 1 .. Len(queue) /\ queue[1] = frame BY <1>2, <2>2, QueueFacts
    <3> QED BY <1>1, <1>2, <1>4, <2>1, <3>1, <3>2
  <2>3. CASE ~handling BY <1>1, <1>2, <1>4, <2>1, <2>3, QueueFacts
  <2> QED BY <2>2, <2>3
<1> QED BY <1>3, <1>4

\* An unread frame is honest, and so is the one in hand.
LEMMA UnreadHonest ==
    ASSUME IInv, OInv, AnswersAreHonest
    PROVE  /\ \A p \in 1 .. Len(unread) : Honest(unread[p], samples)
           /\ handling => Honest(frame, samples)
<1>1. rx \in Seq(BusFrame) /\ Len(rx) \in Nat BY DEF IInv, TypeOK
<1>2. CASE dpc = "poll"
  <2>1. \A p \in 1 .. Len(unread) : p = 1 \/ p - 1 \in 1 .. Len(rx) BY <1>1, <1>2, UnreadFacts
  <2>2. \A p \in 1 .. Len(rx) : unread[p + 1] = rx[p] BY <1>2, UnreadFacts
  <2>3. \A p \in 1 .. Len(unread) : p # 1 => unread[p] = rx[p - 1]
    <3> SUFFICES ASSUME NEW p \in 1 .. Len(unread), p # 1 PROVE unread[p] = rx[p - 1] OBVIOUS
    <3>1. p - 1 \in 1 .. Len(rx) /\ (p - 1) + 1 = p BY <2>1
    <3>2. unread[(p - 1) + 1] = rx[p - 1] BY <2>2, <3>1
    <3> QED BY <3>1, <3>2
  <2>4. handling /\ unread[1] = frame BY <1>2, UnreadFacts DEF handling
  <2> QED BY <2>1, <2>3, <2>4 DEF AnswersAreHonest
<1>3. CASE dpc # "poll" BY <1>3, UnreadFacts DEF AnswersAreHonest
<1> QED BY <1>2, <1>3

\* An object that has been answered has been requested.
LEMMA AnsweredIsSent ==
    ASSUME RequestsAreSent, NEW o, Answered(samples, o) PROVE o \in askedObjects
BY DEF RequestsAreSent, Answered

\* The configured objects differ.
LEMMA ObjectsDiffer ==
    ASSUME NEW i \in 1 .. Len(Objects), Objects[i] \in askedObjects PROVE sent(i)
<1>1. \A j \in 1 .. Len(Objects) : Objects[i] = Objects[j] => i = j BY ConfigAssumption DEF validate
<1> QED BY <1>1 DEF askedObjects

\* The object about to be requested has not been answered.
LEMMA NotYetAnswered ==
    ASSUME IInv, RequestsAreSent, ppc \in {"poll", "sniff", "send"}
    PROVE  Objects[obj] \notin askedObjects /\ ~Answered(samples, Objects[obj])
<1>1. obj \in 1 .. Len(Objects) /\ obj \in Int BY ObjectFacts DEF IInv, TypeOK
<1>2. ~sent(obj) BY <1>1 DEF sent
<1> QED BY <1>1, <1>2, ObjectsDiffer, AnsweredIsSent

\* An object is its node and its address.
LEMMA ObjectRecord ==
    ASSUME NEW i \in 1 .. Len(Objects)
    PROVE  Objects[i] = [node |-> Objects[i].node, addr |-> Objects[i].addr]
BY ObjectsAreRecords

-----------------------------------------------------------------------------
(* What each step does to the requests, the transfers and the answers.     *)

\* Without retries, in mode once, run never waits for another attempt or round.
LEMMA RepeatsStep == ASSUME Once, IInv, NeverRepeats, [Next]_vars PROVE NeverRepeats'
<1> USE DEF Once, NeverRepeats
<1>1. CASE PollerStep
  BY <1>1 DEF PollerStep, Activate, SniffRequest, SendRequest, Await, Conclude, NextObject, BackoffElapsed, IntervalElapsed
<1>2. CASE UNCHANGED ppc BY <1>2
<1>3. CASE DispatcherStep
  BY <1>2, <1>3 DEF DispatcherStep, DispatchTop, Recv, PollerHandleFrame, SegmentSniff, SegmentSend, SniffFrame, Flush, poller
<1>4. CASE \E n \in Node : ServerUpload(n) \/ ServerSegment(n) BY <1>2, <1>4 DEF ServerUpload, ServerSegment, poller
<1> QED BY <1>1, <1>2, <1>3, <1>4 DEF Next, Stopped, Cancel, CloseConn, vars, poller

\* A request that has been made stays made.
LEMMA SentStays ==
    ASSUME Once, IInv, NeverRepeats, [Next]_vars, NEW i \in 1 .. Len(Objects), sent(i) PROVE sent(i)'
<1>0. i \in Int /\ obj \in Int BY ObjectFacts DEF IInv, TypeOK
<1>1. CASE PollerStep
  BY <1>0, <1>1 DEF Once, NeverRepeats, sent, PollerStep, Activate, SniffRequest, SendRequest, Await, Conclude, NextObject,
     BackoffElapsed, IntervalElapsed
<1>2. CASE UNCHANGED <<ppc, obj>> BY <1>2 DEF sent
<1>3. CASE DispatcherStep
  BY <1>2, <1>3 DEF DispatcherStep, DispatchTop, Recv, PollerHandleFrame, SegmentSniff, SegmentSend, SniffFrame, Flush, poller
<1>4. CASE \E n \in Node : ServerUpload(n) \/ ServerSegment(n) BY <1>2, <1>4 DEF ServerUpload, ServerSegment, poller
<1> QED BY <1>1, <1>2, <1>3, <1>4 DEF Next, Stopped, Cancel, CloseConn, vars, poller

\* A frame sent is the last one to its node, or lost.
LEMMA SendBus ==
    ASSUME IInv, NEW f \in BusFrame, sendFrame(f) \/ UNCHANGED bus
    PROVE  /\ \A n \in Node : n # f.node => bus'[n] = bus[n]
           /\ \/ bus'[f.node] = bus[f.node]
              \/ bus'[f.node] = Append(bus[f.node], f)
<1>1. f.node \in Node /\ bus \in [Node -> Seq(BusFrame)] BY BusFramesHaveFields DEF IInv, TypeOK
<1>2. bus' = bus \/ bus' = [bus EXCEPT ![f.node] = Append(bus[f.node], f)] BY DEF sendFrame
<1> QED BY <1>1, <1>2

\* The elements of a sequence with one more.
LEMMA AppendElements ==
    ASSUME NEW S, NEW s \in Seq(S), NEW x \in S
    PROVE  /\ Len(s) \in Nat /\ Len(Append(s, x)) = Len(s) + 1 /\ Append(s, x)[Len(s) + 1] = x
           /\ \A i \in 1 .. Len(s) : Append(s, x)[i] = s[i]
           /\ \A i \in 1 .. Len(s) + 1 : i \in 1 .. Len(s) \/ i = Len(s) + 1
           /\ Append(s, x) # << >>
BY AppendProperties

\* The elements of a sequence with one less.
LEMMA TailElements ==
    ASSUME NEW S, NEW s \in Seq(S), s # << >>
    PROVE  /\ Len(Tail(s)) = Len(s) - 1 /\ Len(s) \in Nat /\ Head(s) = s[1] /\ 1 \in 1 .. Len(s)
           /\ \A i \in 1 .. Len(Tail(s)) : i + 1 \in 1 .. Len(s) /\ Tail(s)[i] = s[i + 1]
OBVIOUS

\* What a server's step does to its requests and to the values given.
LEMMA ServerStep ==
    ASSUME IInv, NEW n \in Node, ServerUpload(n) \/ ServerSegment(n)
    PROVE  /\ bus[n] \in Seq(BusFrame) /\ bus[n] # << >>
           /\ bus'[n] = Tail(bus[n]) /\ \A m \in Node : m # n => bus'[m] = bus[m]
           /\ \A m \in Node : m # n => server'[m] = server[m]
           /\ samples' = samples \/ (/\ bus[n][1].cmd = UploadRequest
                                     /\ samples' = Append(samples, [node |-> n, addr |-> bus[n][1].addr]))
<1>1. bus \in [Node -> Seq(BusFrame)] /\ server \in [Node -> Upload \cup {NoUpload}] BY DEF IInv, TypeOK
<1>2. bus[n] # << >> /\ bus' = [bus EXCEPT ![n] = Tail(bus[n])] BY DEF ServerUpload, ServerSegment
<1>3. \E up : server' = [server EXCEPT ![n] = up] BY DEF ServerUpload, ServerSegment
<1>4. Head(bus[n]) = bus[n][1] BY <1>1, <1>2
<1>5. \/ samples' = samples
      \/ bus[n][1].cmd = UploadRequest /\ samples' = Append(samples, [node |-> n, addr |-> bus[n][1].addr])
  BY <1>4 DEF ServerUpload, ServerSegment
<1> QED BY <1>1, <1>2, <1>3, <1>5

\* The values given only grow.
LEMMA SamplesGrow ==
    ASSUME IInv, NEW x \in [node : Node, addr : Addr], samples' = samples \/ samples' = Append(samples, x)
    PROVE  /\ Len(samples) \in Nat /\ Len(samples') \in Nat /\ Len(samples) <= Len(samples')
           /\ \A v \in 1 .. Len(samples) : v \in 1 .. Len(samples') /\ samples'[v] = samples[v]
           /\ \A v \in 1 .. Len(samples') : v \in 1 .. Len(samples) \/ (v = Len(samples) + 1 /\ samples'[v] = x)
<1> DEFINE S == [node : Node, addr : Addr]
<1>1. samples \in Seq(S) /\ x \in S BY DEF IInv, TypeOK
<1> HIDE DEF S
<1> QED BY <1>1, AppendElements

\* The steps that leave the requests and the values given alone.
LEMMA BusQuiet ==
    ASSUME IInv, [Next]_vars, ~SendRequest, ~SegmentSend, ~\E n \in Node : ServerUpload(n) \/ ServerSegment(n)
    PROVE  UNCHANGED <<bus, server, samples>>
<1> USE DEF external, vars
<1>1. CASE PollerStep
  BY <1>1 DEF PollerStep, Activate, SniffRequest, Await, Conclude, BackoffElapsed, IntervalElapsed
<1>2. CASE DispatcherStep
  BY <1>2 DEF DispatcherStep, DispatchTop, Recv, PollerHandleFrame, SegmentSniff, SniffFrame, Flush
<1> QED BY <1>1, <1>2 DEF Next, Stopped, Cancel, CloseConn

\* What is on the bus or answered has been requested.
LEMMA RequestsStep ==
    ASSUME Once, IInv, NeverRepeats, RequestsAreSent, [Next]_vars PROVE RequestsAreSent'
<1>1. askedObjects \subseteq askedObjects' BY SentStays DEF askedObjects
<1>2. CASE SendRequest
  <2>1. request \in BusFrame /\ obj \in 1 .. Len(Objects) BY RequestType DEF IInv, TypeOK
  <2>2. /\ request.node = Objects[obj].node /\ request.addr = Objects[obj].addr /\ request.cmd = UploadRequest
    BY DEF request, ClientFrame
  <2>3. samples' = samples /\ obj' = obj /\ ppc' \in {"wait", "clear"} BY <1>2 DEF SendRequest
  <2>4. [node |-> request.node, addr |-> request.addr] \in askedObjects'
    <3>1. sent(obj)' BY <2>3 DEF sent
    <3>2. Objects[obj] = [node |-> request.node, addr |-> request.addr] BY <2>1, <2>2, ObjectRecord
    <3> QED BY <2>1, <2>3, <3>1, <3>2 DEF askedObjects
  <2>5. ASSUME NEW n \in Node, NEW j \in 1 .. Len(bus'[n]), bus'[n][j].cmd = UploadRequest
        PROVE  [node |-> n, addr |-> bus'[n][j].addr] \in askedObjects'
    <3>1. bus[n] \in Seq(BusFrame) BY DEF IInv, TypeOK
    <3>2. CASE bus'[n] = bus[n] BY <1>1, <2>5, <3>2 DEF RequestsAreSent
    <3>3. CASE n = request.node /\ bus'[n] = Append(bus[n], request)
      <4>1. (j \in 1 .. Len(bus[n]) /\ bus'[n][j] = bus[n][j]) \/ bus'[n][j] = request BY <2>1, <3>1, <3>3, AppendElements
      <4> QED BY <1>1, <2>4, <2>5, <3>3, <4>1 DEF RequestsAreSent
    <3> QED BY <1>2, <2>1, <3>2, <3>3, SendBus DEF SendRequest
  <2> QED BY <1>1, <2>3, <2>5 DEF RequestsAreSent
<1>3. CASE SegmentSend
  <2>1. segmentRequest \in BusFrame /\ segmentRequest.cmd # UploadRequest
    <3>1. active \in Poll BY <1>3 DEF SegmentSend, IInv, TypeOK, SegmentIsForActive, sending
    <3> QED BY <3>1, SegmentRequestType DEF segmentRequest, ClientFrame, UploadRequest
  <2>2. samples' = samples BY <1>3 DEF SegmentSend
  <2>3. ASSUME NEW n \in Node, NEW j \in 1 .. Len(bus'[n]), bus'[n][j].cmd = UploadRequest
        PROVE  [node |-> n, addr |-> bus'[n][j].addr] \in askedObjects'
    <3>1. bus[n] \in Seq(BusFrame) BY DEF IInv, TypeOK
    <3>2. CASE bus'[n] = bus[n] BY <1>1, <2>3, <3>2 DEF RequestsAreSent
    <3>3. CASE bus'[n] = Append(bus[n], segmentRequest)
      <4>1. (j \in 1 .. Len(bus[n]) /\ bus'[n][j] = bus[n][j]) \/ bus'[n][j] = segmentRequest
        BY <2>1, <3>1, <3>3, AppendElements
      <4> QED BY <1>1, <2>1, <2>3, <4>1 DEF RequestsAreSent
    <3> QED BY <1>3, <2>1, <3>2, <3>3, SendBus DEF SegmentSend
  <2> QED BY <1>1, <2>2, <2>3 DEF RequestsAreSent
<1>4. CASE \E n \in Node : ServerUpload(n) \/ ServerSegment(n)
  <2> PICK n \in Node : ServerUpload(n) \/ ServerSegment(n) BY <1>4
  <2> DEFINE x == [node |-> n, addr |-> bus[n][1].addr]
  <2>1. /\ bus[n] \in Seq(BusFrame) /\ bus[n] # << >> /\ bus'[n] = Tail(bus[n])
        /\ \A m \in Node : m # n => bus'[m] = bus[m]
        /\ samples' = samples \/ (bus[n][1].cmd = UploadRequest /\ samples' = Append(samples, x))
    BY ServerStep
  <2>2. \A j \in 1 .. Len(bus'[n]) : j + 1 \in 1 .. Len(bus[n]) /\ bus'[n][j] = bus[n][j + 1] BY <2>1, TailElements
  <2>3. 1 \in 1 .. Len(bus[n]) /\ bus[n][1] \in BusFrame BY <2>1
  <2>4. x \in [node : Node, addr : Addr] BY <2>3 DEF BusFrame
  <2>5. bus[n][1].cmd = UploadRequest => x \in askedObjects' BY <1>1, <2>3 DEF RequestsAreSent
  <2>6. \A v \in 1 .. Len(samples') : samples'[v] \in askedObjects'
    <3> HIDE DEF x
    <3>1. CASE samples' = samples BY <1>1, <3>1 DEF RequestsAreSent
    <3>2. CASE samples' = Append(samples, x) /\ bus[n][1].cmd = UploadRequest
      BY <1>1, <2>4, <2>5, <3>2, SamplesGrow DEF RequestsAreSent
    <3> QED BY <2>1, <3>1, <3>2
  <2>7. ASSUME NEW m \in Node, NEW j \in 1 .. Len(bus'[m]), bus'[m][j].cmd = UploadRequest
        PROVE  [node |-> m, addr |-> bus'[m][j].addr] \in askedObjects'
    BY <1>1, <2>1, <2>2, <2>7 DEF RequestsAreSent
  <2> QED BY <2>6, <2>7 DEF RequestsAreSent
<1>5. CASE UNCHANGED <<bus, server, samples>> BY <1>1, <1>5 DEF RequestsAreSent
<1> QED BY <1>2, <1>3, <1>4, <1>5, BusQuiet

\* The request makes its object the one the observer waits for.
LEMMA SniffRequestEffect ==
    ASSUME IInv, SniffRequest
    PROVE  LET o == Objects[obj]
           IN  /\ transfers' = [transfers EXCEPT ![o.node] = newTransfer("upload", ServerToClient, o.addr)]
               /\ builder' = builder
<1>1. request \in BusFrame BY RequestType DEF IInv, TypeOK
<1>2. /\ request.node = Objects[obj].node /\ request.addr = Objects[obj].addr
      /\ request.cmd = UploadRequest /\ request.dir = ClientToServer
  BY DEF request, ClientFrame
<1>3. ObserveOnChannel(transfers[request.node], request) = Ignored(newTransfer("upload", ServerToClient, request.addr))
  BY <1>1, <1>2, RequestObserved
<1> DEFINE o == ObserveOnChannel(transfers[request.node], request)
<1>4. /\ transfers' = [transfers EXCEPT ![request.node] = o.transfer]
      /\ builder' = IF o.event.operation \in {"upload", "download"}
                    THEN Append(builder, [node |-> request.node, event |-> o.event]) ELSE builder
  BY DEF SniffRequest, HandleFrame
<1>5. o.transfer = newTransfer("upload", ServerToClient, request.addr) /\ o.event.operation \notin {"upload", "download"}
  BY <1>3, Outcome
<1> HIDE DEF o
<1> QED BY <1>2, <1>4, <1>5

\* A request for a segment changes nothing the observer keeps.
LEMMA SegmentSniffEffect == ASSUME IInv, SegmentSniff PROVE UNCHANGED <<transfers, builder>>
<1>1. active \in Poll BY DEF SegmentSniff, IInv, TypeOK, SegmentIsForActive, sending
<1>2. segmentRequest \in BusFrame /\ segmentRequest.node \in Node BY <1>1, SegmentRequestType, BusFramesHaveFields
<1>3. segmentRequest.dir = ClientToServer /\ segmentRequest.cmd \in {96, 112} BY DEF segmentRequest, ClientFrame
<1>4. ObserveOnChannel(transfers[segmentRequest.node], segmentRequest) = Ignored(transfers[segmentRequest.node])
  BY <1>2, <1>3, RequestObserved
<1>5. transfers \in [Node -> Transfer \cup {NoTransfer}] BY DEF IInv, TypeOK
<1> QED BY <1>2, <1>4, <1>5, Outcome DEF SegmentSniff, HandleFrame

\* The steps that leave the transfers alone.
LEMMA TransfersQuiet ==
    ASSUME IInv, [Next]_vars, ~SniffRequest, ~SniffFrame PROVE transfers' = transfers
<1> USE DEF vars
<1>1. CASE PollerStep
  BY <1>1 DEF PollerStep, Activate, SendRequest, Await, Conclude, BackoffElapsed, IntervalElapsed
<1>2. CASE DispatcherStep
  BY <1>2, SegmentSniffEffect DEF DispatcherStep, DispatchTop, Recv, PollerHandleFrame, SegmentSend, Flush
<1>3. CASE \E n \in Node : ServerUpload(n) \/ ServerSegment(n) BY <1>3 DEF ServerUpload, ServerSegment
<1> QED BY <1>1, <1>2, <1>3 DEF Next, Stopped, Cancel, CloseConn

\* The observer's step, on the channel of the frame in hand.
LEMMA SniffFrameEffect ==
    ASSUME IInv, OInv, SniffFrame
    PROVE  /\ frame.node \in Node /\ Served(frame)
           /\ transfers' = [transfers EXCEPT ![frame.node] = ObserveOnChannel(transfers[frame.node], frame).transfer]
           /\ transfers'[frame.node] = ObserveOnChannel(transfers[frame.node], frame).transfer
           /\ \A m \in Node : m # frame.node => transfers'[m] = transfers[m]
<1>1. handling BY DEF SniffFrame, handling
<1>2. frame \in BusFrame /\ frame.node \in Node /\ Served(frame) BY <1>1, UnreadFacts, BusFramesHaveFields DEF Served
<1>3. transfers \in [Node -> Transfer \cup {NoTransfer}] BY DEF IInv, TypeOK
<1>4. transfers' = [transfers EXCEPT ![frame.node] = ObserveOnChannel(transfers[frame.node], frame).transfer]
  BY DEF SniffFrame, HandleFrame
<1> QED BY <1>2, <1>3, <1>4

\* The observer only ever follows uploads.
LEMMA UploadsStep == ASSUME IInv, OInv, UploadsOnly, [Next]_vars PROVE UploadsOnly'
<1>0. transfers \in [Node -> Transfer \cup {NoTransfer}] BY DEF IInv, TypeOK
<1>1. CASE SniffRequest
  <2>1. IsUpload(newTransfer("upload", ServerToClient, Objects[obj].addr)) BY DEF IsUpload, newTransfer
  <2> QED BY <1>0, <1>1, <2>1, SniffRequestEffect DEF UploadsOnly
<1>2. CASE SniffFrame
  <2>1. IsUpload(transfers'[frame.node]) BY <1>0, <1>2, SniffFrameEffect, SameObject DEF UploadsOnly
  <2> QED BY <1>2, <2>1, SniffFrameEffect DEF UploadsOnly
<1> QED BY <1>1, <1>2, TransfersQuiet DEF UploadsOnly

\* Where the poller is when it waits for an answer.
LEMMA WaitingStep ==
    ASSUME IInv, [Next]_vars, ~SniffRequest, ppc' \in {"send", "wait", "clear"}
    PROVE  obj' = obj /\ ppc \in {"send", "wait", "clear"}
<1> USE DEF poller, vars
<1>1. CASE PollerStep
  BY <1>1 DEF PollerStep, Activate, SendRequest, Await, Conclude, NextObject, BackoffElapsed, IntervalElapsed
<1>2. CASE DispatcherStep
  BY <1>2 DEF DispatcherStep, DispatchTop, Recv, PollerHandleFrame, SegmentSniff, SegmentSend, SniffFrame, Flush
<1>3. CASE \E n \in Node : ServerUpload(n) \/ ServerSegment(n) BY <1>3 DEF ServerUpload, ServerSegment
<1> QED BY <1>1, <1>2, <1>3 DEF Next, Stopped, Cancel, CloseConn

\* The observer waits for what the poller has just asked for.
LEMMA LatestStep == ASSUME IInv, OInv, UploadsOnly, LatestRequest, [Next]_vars PROVE LatestRequest'
<1>0. transfers \in [Node -> Transfer \cup {NoTransfer}] /\ obj \in 1 .. Len(Objects) BY DEF IInv, TypeOK
<1>1. Objects[obj].node \in Node BY <1>0, ObjectFacts
<1>2. CASE SniffRequest
  <2>1. obj' = obj BY <1>2 DEF SniffRequest
  <2>2. transfers'[Objects[obj].node].addr = Objects[obj].addr BY <1>0, <1>1, <1>2, SniffRequestEffect DEF newTransfer
  <2> QED BY <2>1, <2>2 DEF LatestRequest
<1>3. CASE ~SniffRequest
  <2> SUFFICES ASSUME ppc' \in {"send", "wait", "clear"}, transfers'[Objects[obj'].node] # NoTransfer
               PROVE  transfers'[Objects[obj'].node].addr = Objects[obj'].addr
    BY DEF LatestRequest
  <2>1. obj' = obj /\ ppc \in {"send", "wait", "clear"} BY <1>3, WaitingStep
  <2>2. CASE SniffFrame
    <3>1. CASE frame.node = Objects[obj].node
      <4>1. /\ transfers[frame.node] # NoTransfer
            /\ transfers'[frame.node].addr = transfers[frame.node].addr
        BY <1>0, <2>1, <2>2, <3>1, SniffFrameEffect, SameObject DEF UploadsOnly
      <4> QED BY <2>1, <3>1, <4>1 DEF LatestRequest
    <3>2. CASE frame.node # Objects[obj].node BY <1>1, <2>1, <2>2, <3>2, SniffFrameEffect DEF LatestRequest
    <3> QED BY <3>1, <3>2
  <2>3. CASE ~SniffFrame BY <1>3, <2>1, <2>3, TransfersQuiet DEF LatestRequest
  <2> QED BY <2>2, <2>3
<1> QED BY <1>2, <1>3

\* What the two kinds of server steps send, and leave the server at.
LEMMA ServerSends ==
    ASSUME IInv, NEW n \in Node, ServerUpload(n) \/ ServerSegment(n)
    PROVE  LET h == bus[n][1]
               s == server[n]
               v == Len(samples) + 1
               x == [node |-> n, addr |-> h.addr]
               c == (IF s.next % 2 = 0 THEN 16 ELSE 0) + (IF s.next = SegmentCount THEN 1 ELSE 0)
           IN  \/ /\ h.cmd = UploadRequest /\ Reply(ServerFrame(n, 67, h.addr, [sample |-> v, part |-> 0]))
                  /\ server'[n] = NoUpload /\ samples' = Append(samples, x) /\ v <= MaxSamples
               \/ /\ h.cmd = UploadRequest /\ Reply(ServerFrame(n, 65, h.addr, EmptyWord))
                  /\ server'[n] = [addr |-> h.addr, next |-> 1, sample |-> v] /\ samples' = Append(samples, x)
               \/ /\ h.cmd # UploadRequest /\ s # NoUpload
                  /\ Reply(ServerFrame(n, c, NoAddr, [sample |-> s.sample, part |-> s.next]))
                  /\ server'[n] = IF s.next = SegmentCount THEN NoUpload ELSE [s EXCEPT !.next = s.next + 1]
                  /\ samples' = samples
               \/ /\ \E a \in Addr : (h.cmd = UploadRequest => a = h.addr) /\ Reply(ServerFrame(n, Abort, a, EmptyWord))
                  /\ server'[n] = NoUpload /\ samples' = samples
<1>1. server \in [Node -> Upload \cup {NoUpload}] /\ bus \in [Node -> Seq(BusFrame)] BY DEF IInv, TypeOK
<1>2. bus[n] \in Seq(BusFrame) /\ bus[n] # << >> BY ServerStep
<1>3. Head(bus[n]) = bus[n][1] /\ bus[n][1] \in BusFrame BY <1>2
<1>4. bus[n][1].addr \in Addr BY <1>3 DEF BusFrame
<1>5. CASE ServerUpload(n) BY <1>1, <1>3, <1>4, <1>5 DEF ServerUpload
<1>6. CASE ServerSegment(n)
  <2>1. (IF server[n] = NoUpload THEN NoAddr ELSE server[n].addr) \in Addr BY <1>1, NoAddrAssumption DEF Upload
  <2> QED BY <1>1, <1>3, <1>6, <2>1 DEF ServerSegment
<1> QED BY <1>5, <1>6

\* The same, as the fields of the frame it sends.
LEMMA ServerReply ==
    ASSUME IInv, NEW n \in Node, ServerUpload(n) \/ ServerSegment(n)
    PROVE  LET h == bus[n][1]
               s == server[n]
               v == Len(samples) + 1
               x == [node |-> n, addr |-> h.addr]
           IN  \E f \in BusFrame :
               /\ Served(f) /\ f.node = n /\ Reply(f)
               /\ \/ /\ h.cmd = UploadRequest /\ f.cmd = 67 /\ f.addr = h.addr /\ f.word = [sample |-> v, part |-> 0]
                     /\ server'[n] = NoUpload /\ samples' = Append(samples, x)
                  \/ /\ h.cmd = UploadRequest /\ f.cmd = 65 /\ f.addr = h.addr
                     /\ server'[n] = [addr |-> h.addr, next |-> 1, sample |-> v] /\ samples' = Append(samples, x)
                  \/ /\ h.cmd # UploadRequest /\ s # NoUpload /\ s \in Upload
                     /\ Segment(f) /\ f.addr = NoAddr /\ f.word = [sample |-> s.sample, part |-> s.next]
                     /\ LowBit(f.cmd) <=> s.next = SegmentCount
                     /\ server'[n] = IF s.next = SegmentCount THEN NoUpload ELSE [s EXCEPT !.next = s.next + 1]
                     /\ samples' = samples
                  \/ /\ f.cmd = Abort /\ (h.cmd = UploadRequest => f.addr = h.addr)
                     /\ server'[n] = NoUpload /\ samples' = samples
<1> DEFINE h == bus[n][1]
           s == server[n]
           v == Len(samples) + 1
           x == [node |-> n, addr |-> h.addr]
           c == (IF s.next % 2 = 0 THEN 16 ELSE 0) + (IF s.next = SegmentCount THEN 1 ELSE 0)
           w == [sample |-> v, part |-> 0]
           y == [sample |-> s.sample, part |-> s.next]
           next == IF s.next = SegmentCount THEN NoUpload ELSE [s EXCEPT !.next = s.next + 1]
           first == [addr |-> h.addr, next |-> 1, sample |-> v]
<1>1. bus[n] \in Seq(BusFrame) /\ bus[n] # << >> BY ServerStep
<1>2. h \in BusFrame BY <1>1
<1>3. h.addr \in Addr /\ NoAddr \in Addr BY <1>2, NoAddrAssumption DEF BusFrame
<1>4. s \in Upload \cup {NoUpload} /\ SegmentCount \in Nat \ {0} /\ Len(samples) \in Nat BY SettingsFacts DEF IInv, TypeOK
<1>5. \/ /\ h.cmd = UploadRequest /\ Reply(ServerFrame(n, 67, h.addr, w))
         /\ server'[n] = NoUpload /\ samples' = Append(samples, x) /\ v <= MaxSamples
      \/ /\ h.cmd = UploadRequest /\ Reply(ServerFrame(n, 65, h.addr, EmptyWord))
         /\ server'[n] = first /\ samples' = Append(samples, x)
      \/ /\ h.cmd # UploadRequest /\ s # NoUpload /\ Reply(ServerFrame(n, c, NoAddr, y))
         /\ server'[n] = next /\ samples' = samples
      \/ /\ \E a \in Addr : (h.cmd = UploadRequest => a = h.addr) /\ Reply(ServerFrame(n, Abort, a, EmptyWord))
         /\ server'[n] = NoUpload /\ samples' = samples
  BY ServerSends
<1>6. c \in {0, 1, 16, 17} /\ (LowBit(c) <=> s.next = SegmentCount) BY DEF LowBit
<1>7. v <= MaxSamples => w \in Word BY <1>4, WordFacts, SettingsFacts
<1>8. s \in Upload => y \in Word BY <1>4, WordFacts DEF Upload
<1>9. ASSUME NEW k \in {0, 1, 16, 17, 65, 67, 128}, NEW a \in Addr, NEW z \in Word
      PROVE  LET f == ServerFrame(n, k, a, z)
             IN  /\ f \in BusFrame /\ Served(f) /\ f.node = n /\ f.cmd = k /\ f.addr = a /\ f.word = z
                 /\ k \in {0, 1, 16, 17} => Segment(f)
  <2>1. k \in Byte BY DEF Byte
  <2> DEFINE f == ServerFrame(n, k, a, z)
  <2>2. f \in BusFrame BY <2>1, ServerFrameType
  <2>3. f.node = n /\ f.cmd = k /\ f.addr = a /\ f.word = z /\ f.dir = ServerToClient BY DEF ServerFrame
  <2> HIDE DEF f
  <2>4. Served(f) /\ (k \in {0, 1, 16, 17} => Segment(f)) BY <2>2, <2>3 DEF Served, Segment
  <2> QED BY <2>2, <2>3, <2>4 DEF f
<1> DEFINE Sends(f) ==
               /\ Served(f) /\ f.node = n /\ Reply(f)
               /\ \/ /\ h.cmd = UploadRequest /\ f.cmd = 67 /\ f.addr = h.addr /\ f.word = w
                     /\ server'[n] = NoUpload /\ samples' = Append(samples, x)
                  \/ /\ h.cmd = UploadRequest /\ f.cmd = 65 /\ f.addr = h.addr
                     /\ server'[n] = first /\ samples' = Append(samples, x)
                  \/ /\ h.cmd # UploadRequest /\ s # NoUpload /\ s \in Upload
                     /\ Segment(f) /\ f.addr = NoAddr /\ f.word = y
                     /\ LowBit(f.cmd) <=> s.next = SegmentCount
                     /\ server'[n] = next /\ samples' = samples
                  \/ /\ f.cmd = Abort /\ (h.cmd = UploadRequest => f.addr = h.addr)
                     /\ server'[n] = NoUpload /\ samples' = samples
<1>10. \E f \in BusFrame : Sends(f)
  <2> HIDE DEF h, s, v, x, c, w, y, next, first
  <2>1. CASE /\ h.cmd = UploadRequest /\ Reply(ServerFrame(n, 67, h.addr, w))
             /\ server'[n] = NoUpload /\ samples' = Append(samples, x) /\ v <= MaxSamples
    <3> DEFINE f == ServerFrame(n, 67, h.addr, w)
    <3>1. f \in BusFrame /\ Served(f) /\ f.node = n /\ f.cmd = 67 /\ f.addr = h.addr /\ f.word = w
      BY <1>3, <1>7, <1>9, <2>1
    <3> HIDE DEF f
    <3>2. Sends(f) BY <2>1, <3>1 DEF f
    <3> QED BY <3>1, <3>2
  <2>2. CASE /\ h.cmd = UploadRequest /\ Reply(ServerFrame(n, 65, h.addr, EmptyWord))
             /\ server'[n] = first /\ samples' = Append(samples, x)
    <3> DEFINE f == ServerFrame(n, 65, h.addr, EmptyWord)
    <3>1. f \in BusFrame /\ Served(f) /\ f.node = n /\ f.cmd = 65 /\ f.addr = h.addr
      BY <1>3, <1>9, EmptyWordIsWord
    <3> HIDE DEF f
    <3>2. Sends(f) BY <2>2, <3>1 DEF f
    <3> QED BY <3>1, <3>2
  <2>3. CASE /\ h.cmd # UploadRequest /\ s # NoUpload /\ Reply(ServerFrame(n, c, NoAddr, y))
             /\ server'[n] = next /\ samples' = samples
    <3> DEFINE f == ServerFrame(n, c, NoAddr, y)
    <3>1. s \in Upload BY <1>4, <2>3
    <3>2. f \in BusFrame /\ Served(f) /\ f.node = n /\ f.cmd = c /\ f.addr = NoAddr /\ f.word = y /\ Segment(f)
      BY <1>3, <1>6, <1>8, <1>9, <3>1
    <3> HIDE DEF f
    <3>3. Sends(f) BY <1>6, <2>3, <3>1, <3>2 DEF f
    <3> QED BY <3>2, <3>3
  <2>4. CASE /\ \E a \in Addr : (h.cmd = UploadRequest => a = h.addr) /\ Reply(ServerFrame(n, Abort, a, EmptyWord))
             /\ server'[n] = NoUpload /\ samples' = samples
    <3>0. PICK a \in Addr : (h.cmd = UploadRequest => a = h.addr) /\ Reply(ServerFrame(n, Abort, a, EmptyWord)) BY <2>4
    <3> DEFINE f == ServerFrame(n, Abort, a, EmptyWord)
    <3>1. f \in BusFrame /\ Served(f) /\ f.node = n /\ f.cmd = Abort /\ f.addr = a
      BY <1>9, EmptyWordIsWord DEF Abort
    <3>2. Reply(f) BY <3>0
    <3> HIDE DEF f
    <3>3. Sends(f) BY <2>4, <3>0, <3>1, <3>2
    <3> QED BY <3>1, <3>3
  <2> QED BY <1>5, <2>1, <2>2, <2>3, <2>4
<1> QED BY <1>10

\* What an honest answer says stays true.
LEMMA HonestStays ==
    ASSUME NEW given, NEW more, NEW f, Honest(f, given),
           \A v \in 1 .. Len(given) : v \in 1 .. Len(more) /\ more[v] = given[v]
    PROVE  Honest(f, more)
BY DEF Honest

\* A server's step, as the other parts see it.
LEMMA ServerFacts ==
    ASSUME IInv, NEW n \in Node, ServerUpload(n) \/ ServerSegment(n)
    PROVE  /\ Len(samples) \in Nat /\ Len(samples') \in Nat /\ Len(samples) <= Len(samples')
           /\ \A v \in 1 .. Len(samples) : v \in 1 .. Len(samples') /\ samples'[v] = samples[v]
           /\ \A v \in 1 .. Len(samples') :
                  \/ v \in 1 .. Len(samples)
                  \/ /\ v = Len(samples) + 1 /\ bus[n][1].cmd = UploadRequest
                     /\ samples'[v] = [node |-> n, addr |-> bus[n][1].addr]
           /\ UNCHANGED <<dpc, frame, transfers, active, obj, ppc, builder, consumed>>
<1> DEFINE x == [node |-> n, addr |-> bus[n][1].addr]
<1>1. bus[n] \in Seq(BusFrame) /\ bus[n] # << >> BY ServerStep
<1>2. bus[n][1] \in BusFrame BY <1>1
<1>3. x \in [node : Node, addr : Addr] BY <1>2 DEF BusFrame
<1>4. samples' = samples \/ (bus[n][1].cmd = UploadRequest /\ samples' = Append(samples, x)) BY ServerStep
<1> HIDE DEF x
<1>5. /\ Len(samples) \in Nat /\ Len(samples') \in Nat /\ Len(samples) <= Len(samples')
      /\ \A v \in 1 .. Len(samples) : v \in 1 .. Len(samples') /\ samples'[v] = samples[v]
  BY <1>3, <1>4, SamplesGrow
<1>6. \A v \in 1 .. Len(samples') : v \in 1 .. Len(samples) \/ (v = Len(samples) + 1 /\ samples'[v] = x)
  BY <1>3, <1>4, SamplesGrow
<1>7. \A v \in 1 .. Len(samples') : v = Len(samples) + 1 => bus[n][1].cmd = UploadRequest
  <2>1. Len(samples) + 1 \notin 1 .. Len(samples) BY <1>5
  <2> QED BY <1>4, <2>1
<1>8. UNCHANGED <<dpc, frame, transfers, active, obj, ppc, builder, consumed>>
  BY DEF ServerUpload, ServerSegment, poller, dispatcher, output
<1> QED BY <1>5, <1>6, <1>7, <1>8 DEF x

\* A server answers with a value it has given for that object.
LEMMA ServersStep == ASSUME IInv, ServersAnswer, [Next]_vars PROVE ServersAnswer'
<1>1. CASE \E n \in Node : ServerUpload(n) \/ ServerSegment(n)
  <2> PICK n \in Node : ServerUpload(n) \/ ServerSegment(n) BY <1>1
  <2>1. /\ Len(samples) \in Nat
        /\ \A v \in 1 .. Len(samples) : v \in 1 .. Len(samples') /\ samples'[v] = samples[v]
    BY ServerFacts
  <2>2. \A m \in Node : m # n => server'[m] = server[m] BY ServerStep
  <2>3. ASSUME NEW m \in Node, m # n, server'[m] # NoUpload
        PROVE  /\ server'[m].sample \in 1 .. Len(samples')
               /\ samples'[server'[m].sample] = [node |-> m, addr |-> server'[m].addr]
    BY <2>1, <2>2, <2>3 DEF ServersAnswer, IsAt
  <2> DEFINE first == [addr |-> bus[n][1].addr, next |-> 1, sample |-> Len(samples) + 1]
             x == [node |-> n, addr |-> bus[n][1].addr]
             next == IF server[n].next = SegmentCount THEN NoUpload ELSE [server[n] EXCEPT !.next = server[n].next + 1]
  <2>4. \/ server'[n] = NoUpload
        \/ server'[n] = first /\ samples' = Append(samples, x)
        \/ server[n] # NoUpload /\ server[n] \in Upload /\ server'[n] = next /\ samples' = samples
    BY ServerReply
  <2>5. CASE server'[n] = first /\ samples' = Append(samples, x)
    <3>1. first.sample = Len(samples) + 1 /\ x = [node |-> n, addr |-> first.addr] OBVIOUS
    <3>2. x \in [node : Node, addr : Addr]
      <4>1. bus[n] \in Seq(BusFrame) /\ bus[n] # << >> BY ServerStep
      <4>2. bus[n][1] \in BusFrame BY <4>1
      <4> QED BY <4>2 DEF BusFrame
    <3> HIDE DEF first, x
    <3>3. Len(samples) + 1 \in 1 .. Len(samples') /\ samples'[Len(samples) + 1] = x
      <4> DEFINE S == [node : Node, addr : Addr]
      <4>1. samples \in Seq(S) /\ x \in S BY <3>2 DEF IInv, TypeOK
      <4> HIDE DEF S
      <4> QED BY <2>5, <4>1, AppendElements
    <3> QED BY <2>3, <2>5, <3>1, <3>3 DEF ServersAnswer, IsAt
  <2>6. CASE server[n] # NoUpload /\ server[n] \in Upload /\ server'[n] = next /\ samples' = samples
    <3>1. server'[n] = NoUpload \/ (server'[n].sample = server[n].sample /\ server'[n].addr = server[n].addr)
      BY <2>6 DEF Upload
    <3> HIDE DEF next
    <3>2. server[n].sample \in 1 .. Len(samples) /\ samples[server[n].sample] = [node |-> n, addr |-> server[n].addr]
      BY <2>6 DEF ServersAnswer, IsAt
    <3>3. server'[n] # NoUpload => /\ server'[n].sample \in 1 .. Len(samples')
                                  /\ samples'[server'[n].sample] = [node |-> n, addr |-> server'[n].addr]
      BY <2>6, <3>1, <3>2
    <3> QED BY <2>3, <3>3 DEF ServersAnswer, IsAt
  <2>7. CASE server'[n] = NoUpload BY <2>3, <2>7 DEF ServersAnswer, IsAt
  <2> QED BY <2>4, <2>5, <2>6, <2>7
<1>2. CASE ~\E n \in Node : ServerUpload(n) \/ ServerSegment(n)
  <2>1. UNCHANGED <<server, samples>>
    BY <1>2, BusQuiet DEF SendRequest, SegmentSend
  <2> QED BY <2>1 DEF ServersAnswer, IsAt
<1> QED BY <1>1, <1>2

\* Where the frames come from.
LEMMA FramesQuiet ==
    ASSUME IInv, [Next]_vars, ~Recv, ~\E n \in Node : ServerUpload(n) \/ ServerSegment(n)
    PROVE  rx' = rx /\ (handling' => handling /\ frame' = frame)
<1> USE DEF external, dispatcher, vars, handling
<1>1. CASE PollerStep
  BY <1>1 DEF PollerStep, Activate, SniffRequest, SendRequest, Await, Conclude, BackoffElapsed, IntervalElapsed
<1>2. CASE DispatcherStep
  BY <1>2 DEF DispatcherStep, DispatchTop, PollerHandleFrame, SegmentSniff, SegmentSend, SniffFrame, Flush
<1> QED BY <1>1, <1>2 DEF Next, Stopped, Cancel, CloseConn

\* Every answer under way is honest about the value it brings.
LEMMA HonestStep == ASSUME IInv, AnswersAreHonest, [Next]_vars PROVE AnswersAreHonest'
<1>0. rx \in Seq(BusFrame) BY DEF IInv, TypeOK
<1>1. CASE Recv
  <2>1. samples' = samples BY <1>1 DEF Recv
  <2>2. CASE rx # << >> /\ frame' = Head(rx) /\ rx' = Tail(rx)
    <3>1. frame' = rx[1] /\ 1 \in 1 .. Len(rx) BY <1>0, <2>2, TailElements
    <3>2. \A p \in 1 .. Len(rx') : p + 1 \in 1 .. Len(rx) /\ rx'[p] = rx[p + 1] BY <1>0, <2>2, TailElements
    <3> QED BY <2>1, <3>1, <3>2 DEF AnswersAreHonest
  <2>3. CASE dpc' \in {"done", "top"} /\ UNCHANGED <<frame, rx>> BY <2>1, <2>3 DEF AnswersAreHonest, handling
  <2> QED BY <1>1, <2>2, <2>3 DEF Recv
<1>2. CASE \E n \in Node : ServerUpload(n) \/ ServerSegment(n)
  <2> PICK n \in Node : ServerUpload(n) \/ ServerSegment(n) BY <1>2
  <2> DEFINE x == [node |-> n, addr |-> bus[n][1].addr]
             v == Len(samples) + 1
  <2>1. /\ \A k \in 1 .. Len(samples) : k \in 1 .. Len(samples') /\ samples'[k] = samples[k]
        /\ UNCHANGED <<dpc, frame>>
    BY ServerFacts
  <2>2. PICK f \in BusFrame :
           /\ f.node = n /\ Reply(f)
           /\ \/ f.cmd = 67 /\ f.addr = bus[n][1].addr /\ f.word = [sample |-> v, part |-> 0] /\ samples' = Append(samples, x)
              \/ f.cmd = 65 /\ f.addr = bus[n][1].addr /\ samples' = Append(samples, x)
              \/ Segment(f) /\ f.addr = NoAddr
              \/ f.cmd = Abort
    BY ServerReply
  <2>3. samples' = Append(samples, x) => v \in 1 .. Len(samples') /\ samples'[v] = x
    <3> DEFINE S == [node : Node, addr : Addr]
    <3>1. bus[n] \in Seq(BusFrame) /\ bus[n] # << >> BY ServerStep
    <3>2. bus[n][1] \in BusFrame BY <3>1
    <3>3. samples \in Seq(S) /\ x \in S BY <3>2 DEF IInv, TypeOK, BusFrame
    <3> HIDE DEF S, x
    <3> QED BY <3>3, AppendElements
  <2>4. Honest(f, samples')
    <3>1. CASE f.cmd = 67 /\ f.addr = bus[n][1].addr /\ f.word = [sample |-> v, part |-> 0] /\ samples' = Append(samples, x)
      <4>1. x = [node |-> f.node, addr |-> f.addr] BY <2>2, <3>1
      <4> HIDE DEF x, v
      <4> QED BY <2>3, <3>1, <4>1 DEF Honest, Segment
    <3>2. CASE f.cmd = 65 /\ f.addr = bus[n][1].addr /\ samples' = Append(samples, x)
      <4>1. x = [node |-> f.node, addr |-> f.addr] BY <2>2, <3>2
      <4> HIDE DEF x, v
      <4> QED BY <2>3, <3>2, <4>1 DEF Honest, Segment
    <3>3. CASE (Segment(f) /\ f.addr = NoAddr) \/ f.cmd = Abort BY <3>3 DEF Honest, Segment, Abort
    <3> QED BY <2>2, <3>1, <3>2, <3>3
  <2>5. \A p \in 1 .. Len(rx') : (p \in 1 .. Len(rx) /\ rx'[p] = rx[p]) \/ rx'[p] = f
    <3>1. CASE rx' = Append(rx, f) BY <1>0, <3>1, AppendElements
    <3> QED BY <2>2, <3>1 DEF Reply
  <2> QED BY <2>1, <2>4, <2>5, HonestStays DEF AnswersAreHonest, handling
<1>3. CASE ~Recv /\ ~\E n \in Node : ServerUpload(n) \/ ServerSegment(n)
  <2>1. samples' = samples BY <1>3, BusQuiet DEF SendRequest, SegmentSend
  <2> QED BY <1>3, <2>1, FramesQuiet DEF AnswersAreHonest
<1> QED BY <1>1, <1>2, <1>3

-----------------------------------------------------------------------------
(* Following a transfer.                                                   *)

\* Fewer intentions of the poller are no harm.
LEMMA FollowsWeaken ==
    ASSUME NEW n, NEW u, NEW q, NEW b, NEW up, NEW given, NEW seg, NEW snd, NEW seg2, NEW snd2,
           seg2 => seg, snd2 => snd, Follows(n, u, q, b, up, given, seg, snd)
    PROVE  Follows(n, u, q, b, up, given, seg2, snd2)
<1>1. CASE u = NoTransfer BY <1>1 DEF Follows
<1>2. CASE u # NoTransfer /\ u.uploadInitiated
  <2>1. \A v, k : Continues(n, v, k, q, b, up, snd) => Continues(n, v, k, q, b, up, snd2) BY DEF Continues
  <2> QED BY <1>2, <2>1 DEF Follows, Collects
<1>3. CASE u # NoTransfer /\ ~u.uploadInitiated BY <1>3 DEF Follows, Awaits
<1> QED BY <1>1, <1>2, <1>3

\* Nor is a frame less, once it has been looked at.
LEMMA FollowsDrop ==
    ASSUME NEW n, NEW u, NEW q, NEW r, NEW b, NEW up, NEW given, NEW seg, NEW snd,
           Len(r) \in Nat, Len(q) = Len(r) + 1, \A p \in 1 .. Len(r) : r[p] = q[p + 1],
           Follows(n, u, q, b, up, given, seg, snd)
    PROVE  Follows(n, u, r, b, up, given, seg, snd)
<1>0. \A p \in 1 .. Len(r) : p + 1 \in 1 .. Len(q) /\ r[p] = q[p + 1] OBVIOUS
<1>1. CASE u = NoTransfer BY <1>1 DEF Follows
<1>2. CASE u # NoTransfer /\ u.uploadInitiated
  <2>1. \A v, k : Continues(n, v, k, q, b, up, snd) => Continues(n, v, k, r, b, up, snd)
    <3> TAKE v, k
    <3> HAVE Continues(n, v, k, q, b, up, snd)
    <3>1. ASSUME NEW p \in 1 .. Len(r), r[p].node = n
          PROVE  /\ b = << >> /\ ~snd
                 /\ \A i \in 1 .. Len(r) : r[i].node = n => i = p
                 /\ \/ r[p].cmd = Abort
                    \/ /\ Segment(r[p]) /\ (LowBit(r[p].cmd) => k = SegmentCount)
                       /\ r[p].word = [sample |-> v, part |-> k]
                       /\ up # NoUpload => up.sample = v /\ up.next = k + 1
      <4>1. \A i \in 1 .. Len(r) : r[i].node = n => i + 1 = p + 1 BY <1>0, <3>1 DEF Continues
      <4>2. \A i \in 1 .. Len(r) : i + 1 = p + 1 => i = p OBVIOUS
      <4> QED BY <1>0, <3>1, <4>1, <4>2 DEF Continues
    <3> QED BY <3>1 DEF Continues
  <2> QED BY <1>2, <2>1 DEF Follows, Collects
<1>3. CASE u # NoTransfer /\ ~u.uploadInitiated
  <2>1. Awaits(n, u.addr, q, b, up, given, seg) BY <1>3 DEF Follows
  <2>2. ASSUME NEW p \in 1 .. Len(r), r[p].node = n, r[p].cmd = 65, r[p].addr = u.addr
        PROVE  /\ b = << >> /\ ~seg
               /\ \A i \in 1 .. Len(r) : i > p => r[i].node # n
               /\ up # NoUpload => up.addr = u.addr /\ up.next = 1
    <3>1. p + 1 \in 1 .. Len(q) /\ q[p + 1].node = n /\ q[p + 1].cmd = 65 /\ q[p + 1].addr = u.addr BY <1>0, <2>2
    <3>2. \A i \in 1 .. Len(r) : i > p => i + 1 > p + 1 OBVIOUS
    <3> QED BY <1>0, <2>1, <3>1, <3>2 DEF Awaits
  <2>3. Awaits(n, u.addr, r, b, up, given, seg) BY <2>1, <2>2 DEF Awaits
  <2> QED BY <1>3, <2>3 DEF Follows
<1> QED BY <1>1, <1>2, <1>3

\* Nor are the answers of another node.
LEMMA FollowsOther ==
    ASSUME NEW n, NEW u, NEW q, NEW r, NEW b, NEW up, NEW given, NEW more, NEW seg, NEW snd,
           Len(q) \in Nat,
           \A p \in 1 .. Len(q) : p \in 1 .. Len(r) /\ r[p] = q[p],
           \A p \in 1 .. Len(r) : p \in 1 .. Len(q) \/ r[p].node # n,
           \A v \in 1 .. Len(given) : v \in 1 .. Len(more) /\ more[v] = given[v],
           \A v \in 1 .. Len(more) : v \in 1 .. Len(given) \/ more[v].node # n,
           Follows(n, u, q, b, up, given, seg, snd)
    PROVE  Follows(n, u, r, b, up, more, seg, snd)
<1>1. CASE u = NoTransfer BY <1>1 DEF Follows
<1>2. CASE u # NoTransfer /\ u.uploadInitiated
  <2>1. \A v, k : Continues(n, v, k, q, b, up, snd) => Continues(n, v, k, r, b, up, snd)
    <3> TAKE v, k
    <3> HAVE Continues(n, v, k, q, b, up, snd)
    <3>1. ASSUME NEW p \in 1 .. Len(r), r[p].node = n
          PROVE  /\ b = << >> /\ ~snd
                 /\ \A i \in 1 .. Len(r) : r[i].node = n => i = p
                 /\ \/ r[p].cmd = Abort
                    \/ /\ Segment(r[p]) /\ (LowBit(r[p].cmd) => k = SegmentCount)
                       /\ r[p].word = [sample |-> v, part |-> k]
                       /\ up # NoUpload => up.sample = v /\ up.next = k + 1
      <4>1. p \in 1 .. Len(q) /\ r[p] = q[p] BY <3>1
      <4> QED BY <3>1, <4>1 DEF Continues
    <3> QED BY <3>1 DEF Continues
  <2> QED BY <1>2, <2>1 DEF Follows, Collects
<1>3. CASE u # NoTransfer /\ ~u.uploadInitiated
  <2>1. Awaits(n, u.addr, q, b, up, given, seg) BY <1>3 DEF Follows
  <2>2. Answered(more, [node |-> n, addr |-> u.addr]) => Answered(given, [node |-> n, addr |-> u.addr]) BY DEF Answered
  <2>3. ASSUME NEW p \in 1 .. Len(r), r[p].node = n, r[p].cmd = 65, r[p].addr = u.addr
        PROVE  /\ b = << >> /\ ~seg
               /\ \A i \in 1 .. Len(r) : i > p => r[i].node # n
               /\ up # NoUpload => up.addr = u.addr /\ up.next = 1
    BY <2>1, <2>3 DEF Awaits
  <2>4. Awaits(n, u.addr, r, b, up, more, seg) BY <2>1, <2>2, <2>3 DEF Awaits
  <2> QED BY <1>3, <2>4 DEF Follows
<1> QED BY <1>1, <1>2, <1>3

\* What the observer will have once it has seen the frame in hand.
LEMMA SeenFacts ==
    ASSUME IInv, OInv, UploadsOnly, NEW n \in Node
    PROVE  /\ seen(n) \in Transfer \cup {NoTransfer} /\ IsUpload(seen(n))
           /\ seen(n) # NoTransfer => transfers[n] # NoTransfer /\ seen(n).addr = transfers[n].addr
<1>1. transfers[n] \in Transfer \cup {NoTransfer} /\ IsUpload(transfers[n]) BY DEF IInv, TypeOK, UploadsOnly
<1>2. acted => Served(frame) BY UnreadFacts DEF acted, handling
<1> QED BY <1>1, <1>2, SameObject DEF seen

\* The object the poller asks segments of has been answered.
LEMMA SegmentsAnswered ==
    ASSUME IInv, AInv, OInv, RequestsAreSent, UploadsOnly, LatestRequest, NEW n \in Node, segmentsOf(n), seen(n) # NoTransfer
    PROVE  Answered(samples, [node |-> n, addr |-> seen(n).addr])
<1>1. active # NoPoll /\ active.segment /\ active.obj = obj /\ polling /\ Objects[obj].node = n
  BY DEF segmentsOf, IInv, ActiveIsOwned
<1>2. Answered(samples, Objects[obj]) BY <1>1 DEF AInv, ProgressWasAnswered
<1>3. ppc \in {"send", "wait", "clear"} BY <1>1, <1>2, NotYetAnswered DEF polling
<1>4. seen(n).addr = Objects[obj].addr BY <1>1, <1>3, SeenFacts DEF LatestRequest
<1>5. obj \in 1 .. Len(Objects) BY DEF IInv, TypeOK
<1> QED BY <1>1, <1>2, <1>4, <1>5, ObjectRecord

\* A step that leaves the frames and the transfers alone.
LEMMA FollowQuiet ==
    ASSUME TransfersFollow, UNCHANGED <<bus, server, samples>>, unread' = unread,
           \A n \in Node : seen(n)' = seen(n) /\ (segmentsOf(n)' => segmentsOf(n)) /\ (sendingTo(n)' => sendingTo(n))
    PROVE  TransfersFollow'
<1> SUFFICES ASSUME NEW n \in Node
             PROVE  Follows(n, seen(n)', unread', bus'[n], server'[n], samples', segmentsOf(n)', sendingTo(n)')
  BY DEF TransfersFollow
<1>1. Follows(n, seen(n), unread, bus[n], server[n], samples, segmentsOf(n), sendingTo(n)) BY DEF TransfersFollow
<1>2. Follows(n, seen(n), unread, bus[n], server[n], samples, segmentsOf(n)', sendingTo(n)') BY <1>1, FollowsWeaken
<1> QED BY <1>2

\* The steps that send nothing, answer nothing and look at no frame.
LEMMA QuietMove ==
    ASSUME IInv, IInv', OInv, NeverRepeats, [Next]_vars, ~SniffRequest, ~SendRequest, ~PollerHandleFrame, ~SegmentSend,
           ~\E n \in Node : ServerUpload(n) \/ ServerSegment(n)
    PROVE  /\ UNCHANGED <<bus, server, samples>> /\ unread' = unread
           /\ \A n \in Node : seen(n)' = seen(n) /\ (segmentsOf(n)' => segmentsOf(n)) /\ (sendingTo(n)' => sendingTo(n))
<1> USE DEF poller, dispatcher, output, context, external
<1>0. UNCHANGED <<bus, server, samples>> BY BusQuiet
<1>1. CASE Activate \/ Await \/ Conclude \/ Cancel \/ CloseConn \/ UNCHANGED vars
  <2>1. UNCHANGED <<rx, dpc, frame, transfers>>
    BY <1>1 DEF Activate, Await, Conclude, Cancel, CloseConn, vars
  <2>2. unread' = unread /\ \A n \in Node : seen(n)' = seen(n) /\ (sendingTo(n)' => sendingTo(n))
    BY <2>1 DEF unread, seen, acted, sendingTo, sending
  <2>3. active' = active \/ active' = NoPoll \/ ~active'.segment
    BY <1>1 DEF Activate, Await, Conclude, Cancel, CloseConn, vars
  <2>4. \A n \in Node : segmentsOf(n)' => segmentsOf(n) BY <2>3 DEF segmentsOf
  <2> QED BY <1>0, <2>2, <2>4
<1>2. CASE DispatchTop \/ Flush
  <2>1. UNCHANGED <<rx, active, transfers>> /\ dpc \in {"top", "flush"} /\ dpc' \in {"recv", "done", "top"}
    BY <1>2 DEF DispatchTop, Flush
  <2>2. unread' = unread /\ \A n \in Node : seen(n)' = seen(n) /\ (sendingTo(n)' => sendingTo(n))
    BY <2>1 DEF unread, seen, acted, sendingTo, sending
  <2>3. \A n \in Node : segmentsOf(n)' => segmentsOf(n) BY <2>1 DEF segmentsOf
  <2> QED BY <1>0, <2>2, <2>3
<1>3. CASE Recv
  <2>1. UNCHANGED <<active, transfers>> /\ dpc = "recv" /\ dpc' \in {"poll", "done", "top"} BY <1>3 DEF Recv
  <2>2. unread' = unread
    <3>1. queue = unread BY <2>1 DEF queue, unread, handling
    <3>2. queue' = unread' BY <2>1 DEF queue, unread, handling
    <3> QED BY <1>3, <3>1, <3>2, RecvKeepsQueue
  <2>3. \A n \in Node : seen(n)' = seen(n) /\ (segmentsOf(n)' => segmentsOf(n)) /\ (sendingTo(n)' => sendingTo(n))
    BY <2>1 DEF seen, acted, segmentsOf, sendingTo, sending
  <2> QED BY <1>0, <2>2, <2>3
<1>4. CASE SegmentSniff
  <2>1. UNCHANGED <<active, transfers, frame, rx>> /\ dpc = "segmentSniff" /\ dpc' = "segmentSend"
    BY <1>4, SegmentSniffEffect DEF SegmentSniff
  <2>2. unread' = unread BY <2>1 DEF unread
  <2>3. \A n \in Node : seen(n)' = seen(n) /\ (segmentsOf(n)' => segmentsOf(n)) /\ (sendingTo(n)' => sendingTo(n))
    BY <2>1 DEF seen, acted, segmentsOf, sendingTo, sending
  <2> QED BY <1>0, <2>2, <2>3
<1>5. CASE SniffFrame
  <2>1. UNCHANGED <<active, frame, rx>> /\ dpc = "sniff" /\ dpc' = "flush" BY <1>5 DEF SniffFrame
  <2>2. unread' = unread BY <2>1 DEF unread
  <2>3. ASSUME NEW n \in Node PROVE seen(n)' = seen(n)
    <3>1. seen(n)' = transfers'[n] BY <2>1 DEF seen, acted
    <3>2. seen(n) = IF frame.node = n THEN ObserveOnChannel(transfers[n], frame).transfer ELSE transfers[n]
      BY <2>1 DEF seen, acted
    <3> QED BY <1>5, <3>1, <3>2, SniffFrameEffect
  <2>4. \A n \in Node : (segmentsOf(n)' => segmentsOf(n)) /\ (sendingTo(n)' => sendingTo(n))
    BY <2>1 DEF segmentsOf, sendingTo, sending
  <2> QED BY <1>0, <2>2, <2>3, <2>4
<1>6. ~BackoffElapsed /\ ~IntervalElapsed BY DEF NeverRepeats, BackoffElapsed, IntervalElapsed
<1> QED BY <1>1, <1>2, <1>3, <1>4, <1>5, <1>6 DEF Next, PollerStep, DispatcherStep, Stopped

\* Nothing that is under way answers the request about to be sent.
LEMMA NothingUnderWay ==
    ASSUME IInv, OInv, RequestsAreSent, AnswersAreHonest, ppc \in {"sniff", "send"}
    PROVE  LET n == Objects[obj].node
               a == Objects[obj].addr
           IN  /\ n \in Node /\ ~Answered(samples, [node |-> n, addr |-> a])
               /\ \A j \in 1 .. Len(bus[n]) : ~(bus[n][j].cmd = UploadRequest /\ bus[n][j].addr = a)
               /\ \A p \in 1 .. Len(unread) : ~(unread[p].node = n /\ unread[p].cmd \in {65, 67} /\ unread[p].addr = a)
               /\ handling => ~(frame.node = n /\ frame.cmd \in {65, 67} /\ frame.addr = a)
<1> DEFINE n == Objects[obj].node
           a == Objects[obj].addr
<1>1. obj \in 1 .. Len(Objects) BY DEF IInv, TypeOK
<1>2. n \in Node /\ Objects[obj] = [node |-> n, addr |-> a] BY <1>1, ObjectFacts, ObjectRecord
<1>3. [node |-> n, addr |-> a] \notin askedObjects /\ ~Answered(samples, [node |-> n, addr |-> a])
  BY <1>2, NotYetAnswered
<1> HIDE DEF n, a
<1>4. \A j \in 1 .. Len(bus[n]) : ~(bus[n][j].cmd = UploadRequest /\ bus[n][j].addr = a)
  BY <1>2, <1>3 DEF RequestsAreSent
<1>5. \A f : Honest(f, samples) => ~(f.node = n /\ f.cmd \in {65, 67} /\ f.addr = a) BY <1>3 DEF Honest, Answered
<1> QED BY <1>2, <1>3, <1>4, <1>5, UnreadHonest DEF n, a

\* A transfer that nothing under way can answer.
LEMMA FollowsNew ==
    ASSUME NEW n, NEW u, NEW q, NEW b, NEW up, NEW given, NEW seg, NEW snd,
           u # NoTransfer => ~u.uploadInitiated,
           u # NoTransfer => \A j \in 1 .. Len(b) : b[j].cmd = UploadRequest /\ b[j].addr = u.addr =>
               j = Len(b) /\ ~Answered(given, [node |-> n, addr |-> u.addr]),
           u # NoTransfer => \A p \in 1 .. Len(q) : ~(q[p].node = n /\ q[p].cmd = 65 /\ q[p].addr = u.addr)
    PROVE  Follows(n, u, q, b, up, given, seg, snd)
BY DEF Follows, Awaits

\* The observer begins to wait for an object nobody has asked for yet.
LEMMA FollowSniffRequest ==
    ASSUME IInv, OInv, RequestsAreSent, UploadsOnly, AnswersAreHonest, TransfersFollow, SniffRequest
    PROVE  TransfersFollow' /\ (PendingIsWhole => PendingIsWhole')
<1> DEFINE n == Objects[obj].node
           a == Objects[obj].addr
           t == newTransfer("upload", ServerToClient, a)
<1>1. UNCHANGED <<bus, server, samples, active, frame, rx, dpc>> BY DEF SniffRequest, dispatcher, external
<1>2. transfers \in [Node -> Transfer \cup {NoTransfer}] /\ obj \in 1 .. Len(Objects) BY DEF IInv, TypeOK
<1>3. n \in Node /\ a \in Addr BY <1>2, ObjectFacts
<1>4. t \in Transfer /\ t # NoTransfer /\ IsUpload(t) /\ ~t.uploadInitiated /\ t.addr = a
      /\ t.operation = "upload" /\ t.direction = ServerToClient
  BY <1>3 DEF newTransfer, Transfer, NoTransfer, IsUpload
<1>5. transfers'[n] = t /\ \A m \in Node : m # n => transfers'[m] = transfers[m] BY <1>2, <1>3, SniffRequestEffect
<1>6. /\ \A j \in 1 .. Len(bus[n]) : ~(bus[n][j].cmd = UploadRequest /\ bus[n][j].addr = a)
      /\ \A p \in 1 .. Len(unread) : ~(unread[p].node = n /\ unread[p].cmd \in {65, 67} /\ unread[p].addr = a)
      /\ handling => ~(frame.node = n /\ frame.cmd \in {65, 67} /\ frame.addr = a)
  BY NothingUnderWay DEF SniffRequest
<1> HIDE DEF n, a, t
<1>7. unread' = unread BY <1>1 DEF unread
<1>8. acted /\ frame.node = n => ObserveOnChannel(t, frame) \in {Observed(NoTransfer, abortEvent(frame)), Ignored(t)}
  <2> SUFFICES ASSUME acted, frame.node = n
               PROVE  ObserveOnChannel(t, frame) \in {Observed(NoTransfer, abortEvent(frame)), Ignored(t)}
    OBVIOUS
  <2>1. Served(frame) /\ handling BY UnreadFacts DEF acted, handling
  <2>2. frame.cmd \in {65, 67, 128} \/ Segment(frame) BY <2>1 DEF Served, Segment
  <2>3. frame.cmd \in {65, 67} => frame.addr # t.addr BY <1>4, <1>6, <2>1
  <2> QED BY <1>4, <2>1, <2>2, <2>3, UploadObserved
<1>9. TransfersFollow'
  <2> SUFFICES ASSUME NEW m \in Node
               PROVE  Follows(m, seen(m)', unread', bus'[m], server'[m], samples', segmentsOf(m)', sendingTo(m)')
    BY DEF TransfersFollow
  <2>1. CASE m # n
    <3>1. seen(m)' = seen(m) /\ segmentsOf(m)' = segmentsOf(m) /\ sendingTo(m)' = sendingTo(m)
      BY <1>1, <1>5, <2>1 DEF seen, acted, segmentsOf, sendingTo, sending
    <3> QED BY <1>1, <1>7, <3>1 DEF TransfersFollow
  <2>2. CASE m = n
    <3>1. seen(m)' = NoTransfer \/ seen(m)' = t
      <4>1. CASE ~(acted /\ frame.node = m) BY <1>1, <1>5, <2>2, <4>1 DEF seen, acted
      <4>2. CASE acted /\ frame.node = m
        <5>1. seen(m)' = ObserveOnChannel(t, frame).transfer BY <1>1, <1>5, <2>2, <4>2 DEF seen, acted
        <5> QED BY <1>8, <2>2, <4>2, <5>1, Outcome
      <4> QED BY <4>1, <4>2
    <3>2. Follows(m, seen(m)', unread, bus[m], server[m], samples, segmentsOf(m)', sendingTo(m)')
      BY <1>4, <1>6, <2>2, <3>1, FollowsNew
    <3> QED BY <1>1, <1>7, <3>2
  <2> QED BY <2>1, <2>2
<1>10. ASSUME PendingIsWhole PROVE PendingIsWhole'
  <2> SUFFICES ASSUME acted', pending'.operation \in {"upload", "download"} PROVE Whole(frame'.node, pending', samples')
    BY DEF PendingIsWhole
  <2>1. acted /\ frame' = frame BY <1>1 DEF acted
  <2>2. frame.node \in Node BY <2>1, UnreadFacts, BusFramesHaveFields DEF acted, handling, Served
  <2>3. CASE frame.node = n
    <3>1. pending' = ObserveOnChannel(t, frame).event BY <1>5, <2>1, <2>3 DEF pending
    <3>2. abortEvent(frame).operation = "abort" BY DEF abortEvent
    <3> QED BY <1>8, <2>1, <2>3, <3>1, <3>2, Outcome
  <2>4. CASE frame.node # n
    <3>1. pending' = pending BY <1>5, <2>1, <2>2, <2>4 DEF pending
    <3> QED BY <1>1, <1>10, <2>1, <3>1 DEF PendingIsWhole
  <2> QED BY <2>3, <2>4
<1> QED BY <1>9, <1>10

\* The request is sent, after all the others to its node.
LEMMA FollowSendRequest ==
    ASSUME IInv, OInv, RequestsAreSent, UploadsOnly, LatestRequest, AnswersAreHonest, TransfersFollow, SendRequest
    PROVE  TransfersFollow'
<1> DEFINE n == Objects[obj].node
           a == Objects[obj].addr
<1>1. UNCHANGED <<server, samples, active, transfers, frame, rx, dpc>> BY DEF SendRequest, dispatcher
<1>2. obj \in 1 .. Len(Objects) /\ bus \in [Node -> Seq(BusFrame)] BY DEF IInv, TypeOK
<1>3. /\ n \in Node /\ ~Answered(samples, [node |-> n, addr |-> a])
      /\ \A j \in 1 .. Len(bus[n]) : ~(bus[n][j].cmd = UploadRequest /\ bus[n][j].addr = a)
      /\ \A p \in 1 .. Len(unread) : ~(unread[p].node = n /\ unread[p].cmd \in {65, 67} /\ unread[p].addr = a)
  BY NothingUnderWay DEF SendRequest
<1>4. request \in BusFrame /\ request.node = n BY <1>2, RequestType DEF request, ClientFrame
<1>5. /\ \A m \in Node : m # n => bus'[m] = bus[m]
      /\ bus'[n] = bus[n] \/ bus'[n] = Append(bus[n], request)
  BY <1>4, SendBus DEF SendRequest
<1>6. seen(n) # NoTransfer => seen(n).addr = a BY <1>3, SeenFacts DEF LatestRequest, SendRequest
<1> HIDE DEF n, a
<1>7. seen(n) # NoTransfer => ~seen(n).uploadInitiated
  <2>1. Follows(n, seen(n), unread, bus[n], server[n], samples, segmentsOf(n), sendingTo(n)) BY <1>3 DEF TransfersFollow
  <2> QED BY <1>3, <1>6, <2>1 DEF Follows, Collects, Answered
<1>8. \A j \in 1 .. Len(bus'[n]) : bus'[n][j].cmd = UploadRequest /\ bus'[n][j].addr = a => j = Len(bus'[n])
  <2>1. bus[n] \in Seq(BusFrame) BY <1>2, <1>3
  <2>2. CASE bus'[n] = Append(bus[n], request)
    <3>1. /\ Len(bus'[n]) = Len(bus[n]) + 1 /\ \A j \in 1 .. Len(bus[n]) : bus'[n][j] = bus[n][j]
          /\ \A j \in 1 .. Len(bus'[n]) : j \in 1 .. Len(bus[n]) \/ j = Len(bus'[n])
      BY <1>4, <2>1, <2>2, AppendElements
    <3> QED BY <1>3, <3>1
  <2> QED BY <1>3, <1>5, <2>2
<1> SUFFICES ASSUME NEW m \in Node
             PROVE  Follows(m, seen(m)', unread', bus'[m], server'[m], samples', segmentsOf(m)', sendingTo(m)')
  BY DEF TransfersFollow
<1>9. /\ unread' = unread /\ seen(m)' = seen(m) /\ segmentsOf(m)' = segmentsOf(m) /\ sendingTo(m)' = sendingTo(m)
  BY <1>1 DEF unread, seen, acted, segmentsOf, sendingTo, sending
<1>10. CASE m # n BY <1>1, <1>5, <1>9, <1>10 DEF TransfersFollow
<1>11. CASE m = n
  <2>1. Follows(m, seen(m), unread, bus'[m], server[m], samples, segmentsOf(m), sendingTo(m))
    BY <1>3, <1>6, <1>7, <1>8, <1>11, FollowsNew
  <2> QED BY <1>1, <1>9, <2>1
<1> QED BY <1>10, <1>11

\* A segment is requested when its transfer waits for nothing else.
LEMMA FollowSegmentSend ==
    ASSUME IInv, AInv, OInv, RequestsAreSent, UploadsOnly, LatestRequest, AnswersAreHonest, TransfersFollow, SegmentSend
    PROVE  TransfersFollow'
<1> DEFINE n == frame.node
<1>1. UNCHANGED <<server, samples, active, transfers, frame, rx>> /\ dpc = "segmentSend" /\ dpc' = "sniff"
  BY DEF SegmentSend
<1>2. bus \in [Node -> Seq(BusFrame)] BY DEF IInv, TypeOK
<1>3. active \in Poll /\ active # NoPoll /\ active.segment /\ n = Objects[active.obj].node
  BY <1>1 DEF IInv, TypeOK, SegmentIsForActive, sending
<1>4. n \in Node BY <1>3, ObjectFacts DEF Poll
<1>5. segmentRequest \in BusFrame /\ segmentRequest.node = n /\ segmentRequest.cmd # UploadRequest
  BY <1>3, SegmentRequestType DEF segmentRequest, ClientFrame, UploadRequest
<1>6. /\ \A m \in Node : m # n => bus'[m] = bus[m]
      /\ bus'[n] = bus[n] \/ bus'[n] = Append(bus[n], segmentRequest)
  BY <1>5, SendBus DEF SegmentSend
<1>7. segmentsOf(n) /\ sendingTo(n) BY <1>1, <1>3 DEF segmentsOf, sendingTo, sending
<1>8. Follows(n, seen(n), unread, bus[n], server[n], samples, segmentsOf(n), sendingTo(n)) BY <1>4 DEF TransfersFollow
<1>9. bus[n] \in Seq(BusFrame) BY <1>2, <1>4
<1>10. seen(n) # NoTransfer => Answered(samples, [node |-> n, addr |-> seen(n).addr]) BY <1>4, <1>7, SegmentsAnswered
<1> HIDE DEF n
<1>11. Follows(n, seen(n), unread, bus'[n], server[n], samples, TRUE, FALSE)
  <2>1. CASE seen(n) = NoTransfer BY <2>1 DEF Follows
  <2>2. CASE seen(n) # NoTransfer /\ ~seen(n).uploadInitiated
    <3> DEFINE a == seen(n).addr
    <3>1. Awaits(n, a, unread, bus[n], server[n], samples, segmentsOf(n)) BY <1>8, <2>2 DEF Follows
    <3>2. \A j \in 1 .. Len(bus[n]) : ~(bus[n][j].cmd = UploadRequest /\ bus[n][j].addr = a)
      BY <1>10, <2>2, <3>1 DEF Awaits
    <3>3. \A p \in 1 .. Len(unread) : ~(unread[p].node = n /\ unread[p].cmd = 65 /\ unread[p].addr = a)
      BY <1>7, <3>1 DEF Awaits
    <3>4. \A j \in 1 .. Len(bus'[n]) : ~(bus'[n][j].cmd = UploadRequest /\ bus'[n][j].addr = a)
      <4>1. CASE bus'[n] = Append(bus[n], segmentRequest)
        <5>1. \A j \in 1 .. Len(bus'[n]) : (j \in 1 .. Len(bus[n]) /\ bus'[n][j] = bus[n][j]) \/ bus'[n][j] = segmentRequest
          BY <1>5, <1>9, <4>1, AppendElements
        <5> QED BY <1>5, <3>2, <5>1
      <4> QED BY <1>6, <3>2, <4>1
    <3> QED BY <2>2, <3>3, <3>4, FollowsNew
  <2>3. CASE seen(n) # NoTransfer /\ seen(n).uploadInitiated
    <3> DEFINE u == seen(n)
               k == Len(u.data) + 1
    <3>1. PICK v \in 1 .. Len(samples) :
             /\ samples[v] = [node |-> n, addr |-> u.addr]
             /\ \A i \in 1 .. Len(u.data) : CarriesPart(u.data[i], v, i)
             /\ Continues(n, v, k, unread, bus[n], server[n], sendingTo(n))
      BY <1>8, <2>3 DEF Follows, Collects
    <3> HIDE DEF k
    <3>2. bus[n] = << >> BY <1>7, <3>1 DEF Continues
    <3>3. bus'[n] = << >> \/ (Len(bus'[n]) = 1 /\ bus'[n][1] = segmentRequest)
      <4>1. CASE bus'[n] = Append(bus[n], segmentRequest)
        <5>1. Len(bus[n]) = 0 BY <3>2
        <5> QED BY <1>5, <1>9, <4>1, <5>1, AppendElements
      <4> QED BY <1>6, <3>2, <4>1
    <3>4. Continues(n, v, k, unread, bus'[n], server[n], FALSE) BY <1>5, <1>7, <3>1, <3>3 DEF Continues
    <3>5. Collects(n, u, unread, bus'[n], server[n], samples, FALSE) BY <3>1, <3>4 DEF Collects, k
    <3> QED BY <2>3, <3>5 DEF Follows
  <2> QED BY <2>1, <2>2, <2>3
<1> SUFFICES ASSUME NEW m \in Node
             PROVE  Follows(m, seen(m)', unread', bus'[m], server'[m], samples', segmentsOf(m)', sendingTo(m)')
  BY DEF TransfersFollow
<1>12. unread' = unread /\ seen(m)' = seen(m) /\ segmentsOf(m)' = segmentsOf(m) /\ ~sendingTo(m)'
  BY <1>1 DEF unread, seen, acted, segmentsOf, sendingTo, sending
<1>13. CASE m # n
  <2>1. Follows(m, seen(m), unread, bus[m], server[m], samples, segmentsOf(m), sendingTo(m)) BY DEF TransfersFollow
  <2>2. Follows(m, seen(m), unread, bus[m], server[m], samples, segmentsOf(m)', sendingTo(m)') BY <1>12, <2>1, FollowsWeaken
  <2> QED BY <1>1, <1>6, <1>12, <1>13, <2>2
<1>14. CASE m = n
  <2>1. Follows(m, seen(m), unread, bus'[m], server[m], samples, segmentsOf(m)', sendingTo(m)')
    BY <1>11, <1>12, <1>14, FollowsWeaken
  <2> QED BY <1>1, <1>12, <2>1
<1> QED BY <1>13, <1>14

\* What a step of a server does to the frames the poller has not looked at.
LEMMA ReplyUnread ==
    ASSUME IInv, IInv', NEW f \in BusFrame, Reply(f), UNCHANGED <<dpc, frame>>
    PROVE  /\ Len(unread) \in Nat
           /\ \/ unread' = unread
              \/ Len(unread') = Len(unread) + 1 /\ unread'[Len(unread) + 1] = f
           /\ \A p \in 1 .. Len(unread) : p \in 1 .. Len(unread') /\ unread'[p] = unread[p]
           /\ \A p \in 1 .. Len(unread') : p \in 1 .. Len(unread) \/ (p = Len(unread) + 1 /\ unread'[p] = f)
<1>1. rx \in Seq(BusFrame) BY DEF IInv, TypeOK
<1>2. CASE dpc = "poll"
  <2>1. queue = unread /\ queue' = unread' BY <1>2 DEF queue, unread, handling
  <2>2. Len(unread) \in Nat
    <3>1. unread \in Seq(BusFrame) BY <2>1, QueueFacts
    <3> QED BY <3>1
  <2>3. \/ unread' = unread
        \/ /\ Len(unread') = Len(unread) + 1 /\ unread'[Len(unread) + 1] = f
           /\ \A i \in 1 .. Len(unread) : unread'[i] = unread[i]
    BY <2>1, ReplyQueue
  <2> QED BY <2>2, <2>3
<1>3. CASE dpc # "poll"
  <2>1. unread = rx /\ unread' = rx' BY <1>3 DEF unread
  <2>2. CASE rx' = rx BY <1>1, <2>1, <2>2
  <2>3. CASE rx' = Append(rx, f) BY <1>1, <2>1, <2>3, AppendElements
  <2> QED BY <2>2, <2>3 DEF Reply
<1> QED BY <1>2, <1>3

\* A server's answer, and the transfer that waits for it.
LEMMA FollowServer ==
    ASSUME IInv, IInv', AInv, OInv, RequestsAreSent, UploadsOnly, LatestRequest, AnswersAreHonest, TransfersFollow,
           NEW n \in Node, ServerUpload(n) \/ ServerSegment(n)
    PROVE  TransfersFollow'
<1> DEFINE h == bus[n][1]
           x == [node |-> n, addr |-> h.addr]
           s == server[n]
           first == [addr |-> h.addr, next |-> 1, sample |-> Len(samples) + 1]
           next == IF s.next = SegmentCount THEN NoUpload ELSE [s EXCEPT !.next = s.next + 1]
<1>1. /\ Len(samples) \in Nat /\ Len(samples') \in Nat
      /\ \A v \in 1 .. Len(samples) : v \in 1 .. Len(samples') /\ samples'[v] = samples[v]
      /\ \A v \in 1 .. Len(samples') : v \in 1 .. Len(samples) \/ (h.cmd = UploadRequest /\ samples'[v] = x)
      /\ UNCHANGED <<dpc, frame, transfers, active, obj, ppc, builder, consumed>>
  BY ServerFacts
<1>2. /\ bus[n] \in Seq(BusFrame) /\ bus[n] # << >> /\ bus'[n] = Tail(bus[n])
      /\ \A m \in Node : m # n => bus'[m] = bus[m] /\ server'[m] = server[m]
  BY ServerStep
<1>3. PICK f \in BusFrame :
         /\ Served(f) /\ f.node = n /\ Reply(f)
         /\ \/ h.cmd = UploadRequest /\ f.cmd = 67
            \/ h.cmd = UploadRequest /\ f.cmd = 65 /\ f.addr = h.addr /\ server'[n] = first
            \/ /\ h.cmd # UploadRequest /\ s # NoUpload /\ s \in Upload
               /\ Segment(f) /\ f.word = [sample |-> s.sample, part |-> s.next]
               /\ LowBit(f.cmd) <=> s.next = SegmentCount
               /\ server'[n] = next /\ samples' = samples
            \/ f.cmd = Abort /\ server'[n] = NoUpload /\ samples' = samples
  BY ServerReply
<1>4. /\ Len(unread) \in Nat
      /\ \A p \in 1 .. Len(unread) : p \in 1 .. Len(unread') /\ unread'[p] = unread[p]
      /\ \A p \in 1 .. Len(unread') : p \in 1 .. Len(unread) \/ (p = Len(unread) + 1 /\ unread'[p] = f)
  BY <1>1, <1>3, ReplyUnread
<1>5. \A m \in Node : seen(m)' = seen(m) /\ segmentsOf(m)' = segmentsOf(m) /\ sendingTo(m)' = sendingTo(m)
  BY <1>1 DEF seen, acted, segmentsOf, sendingTo, sending
<1>6. /\ Len(bus'[n]) = Len(bus[n]) - 1 /\ Len(bus[n]) \in Nat /\ 1 \in 1 .. Len(bus[n])
      /\ \A j \in 1 .. Len(bus'[n]) : j + 1 \in 1 .. Len(bus[n]) /\ bus'[n][j] = bus[n][j + 1]
      /\ bus'[n] \in Seq(BusFrame)
  BY <1>2, TailElements
<1>7. Follows(n, seen(n), unread, bus[n], server[n], samples, segmentsOf(n), sendingTo(n)) BY DEF TransfersFollow
<1> DEFINE u == seen(n)
<1>8. ASSUME u # NoTransfer, ~u.uploadInitiated
      PROVE  Follows(n, u, unread', bus'[n], server'[n], samples', segmentsOf(n), sendingTo(n))
  <2>1. Awaits(n, u.addr, unread, bus[n], server[n], samples, segmentsOf(n)) BY <1>7, <1>8 DEF Follows
  <2>2. \A p \in 1 .. Len(unread) : ~(unread[p].node = n /\ unread[p].cmd = 65 /\ unread[p].addr = u.addr)
    BY <1>2, <2>1 DEF Awaits
  <2>3. CASE h.cmd = UploadRequest /\ h.addr = u.addr
    <3>1. 1 = Len(bus[n]) /\ ~Answered(samples, [node |-> n, addr |-> u.addr]) BY <1>6, <2>1, <2>3 DEF Awaits
    <3>2. ~segmentsOf(n) BY <1>8, <3>1, SegmentsAnswered
    <3>3. bus'[n] = << >> /\ Len(bus'[n]) = 0 BY <1>6, <3>1
    <3>4. ASSUME NEW p \in 1 .. Len(unread'), unread'[p].node = n, unread'[p].cmd = 65, unread'[p].addr = u.addr
          PROVE  /\ bus'[n] = << >> /\ ~segmentsOf(n)
                 /\ \A r \in 1 .. Len(unread') : r > p => unread'[r].node # n
                 /\ server'[n] # NoUpload => server'[n].addr = u.addr /\ server'[n].next = 1
      <4>1. p = Len(unread) + 1 /\ unread'[p] = f BY <1>4, <2>2, <3>4
      <4>2. \A r \in 1 .. Len(unread') : ~(r > p) BY <1>4, <4>1
      <4>3. f.cmd = 65 BY <3>4, <4>1
      <4>4. server'[n] = first BY <1>3, <4>3 DEF Segment, Abort
      <4>5. first.addr = u.addr /\ first.next = 1 BY <2>3
      <4> QED BY <3>2, <3>3, <4>2, <4>4, <4>5
    <3>5. Awaits(n, u.addr, unread', bus'[n], server'[n], samples', segmentsOf(n)) BY <3>3, <3>4 DEF Awaits
    <3> QED BY <1>8, <3>5 DEF Follows
  <2>4. CASE ~(h.cmd = UploadRequest /\ h.addr = u.addr)
    <3>1. ASSUME Answered(samples', [node |-> n, addr |-> u.addr]) PROVE Answered(samples, [node |-> n, addr |-> u.addr])
      BY <1>1, <2>4, <3>1 DEF Answered
    <3>2. \A j \in 1 .. Len(bus'[n]) : bus'[n][j].cmd = UploadRequest /\ bus'[n][j].addr = u.addr =>
              j = Len(bus'[n]) /\ ~Answered(samples', [node |-> n, addr |-> u.addr])
      BY <1>6, <2>1, <3>1 DEF Awaits
    <3>3. ~(f.cmd = 65 /\ f.addr = u.addr) BY <1>3, <2>4 DEF Segment, Abort
    <3>4. \A p \in 1 .. Len(unread') : ~(unread'[p].node = n /\ unread'[p].cmd = 65 /\ unread'[p].addr = u.addr)
      BY <1>4, <2>2, <3>3
    <3>5. Follows(n, u, unread', bus'[n], server'[n], samples', segmentsOf(n), sendingTo(n))
      BY <1>8, <3>2, <3>4, FollowsNew
    <3> QED BY <3>5
  <2> QED BY <2>3, <2>4
<1>9. ASSUME u # NoTransfer, u.uploadInitiated
      PROVE  Follows(n, u, unread', bus'[n], server'[n], samples', segmentsOf(n), sendingTo(n))
  <2> DEFINE k == Len(u.data) + 1
  <2>1. PICK v \in 1 .. Len(samples) :
           /\ samples[v] = [node |-> n, addr |-> u.addr]
           /\ \A i \in 1 .. Len(u.data) : CarriesPart(u.data[i], v, i)
           /\ Continues(n, v, k, unread, bus[n], server[n], sendingTo(n))
    BY <1>7, <1>9 DEF Follows, Collects
  <2> HIDE DEF k
  <2>2. /\ Len(bus[n]) = 1 /\ h.cmd # UploadRequest /\ ~sendingTo(n)
        /\ s # NoUpload => s.sample = v /\ s.next = k
        /\ \A p \in 1 .. Len(unread) : unread[p].node # n
    BY <1>2, <2>1 DEF Continues
  <2>3. bus'[n] = << >> BY <1>6, <2>2
  <2>4. \/ f.cmd = Abort
        \/ /\ Segment(f) /\ (LowBit(f.cmd) => k = SegmentCount) /\ f.word = [sample |-> v, part |-> k]
           /\ server'[n] # NoUpload => server'[n].sample = v /\ server'[n].next = k + 1
    <3>1. CASE /\ s # NoUpload /\ s \in Upload /\ Segment(f) /\ f.word = [sample |-> s.sample, part |-> s.next]
               /\ LowBit(f.cmd) <=> s.next = SegmentCount
               /\ server'[n] = next
      <4>1. next # NoUpload => next.sample = s.sample /\ next.next = s.next + 1 BY <3>1 DEF Upload
      <4> HIDE DEF next
      <4> QED BY <2>2, <3>1, <4>1
    <3> QED BY <1>3, <2>2, <3>1
  <2>5. ASSUME NEW p \in 1 .. Len(unread'), unread'[p].node = n
        PROVE  unread'[p] = f /\ \A r \in 1 .. Len(unread') : unread'[r].node = n => r = p
    BY <1>4, <2>2, <2>5
  <2>6. Continues(n, v, k, unread', bus'[n], server'[n], sendingTo(n)) BY <2>2, <2>3, <2>4, <2>5 DEF Continues
  <2>7. v \in 1 .. Len(samples') /\ samples'[v] = [node |-> n, addr |-> u.addr] BY <1>1, <2>1
  <2>8. Collects(n, u, unread', bus'[n], server'[n], samples', sendingTo(n)) BY <2>1, <2>6, <2>7 DEF Collects, k
  <2> QED BY <1>9, <2>8 DEF Follows
<1>10. Follows(n, u, unread', bus'[n], server'[n], samples', segmentsOf(n), sendingTo(n)) BY <1>8, <1>9 DEF Follows
<1> SUFFICES ASSUME NEW m \in Node
             PROVE  Follows(m, seen(m)', unread', bus'[m], server'[m], samples', segmentsOf(m)', sendingTo(m)')
  BY DEF TransfersFollow
<1>11. CASE m # n
  <2>1. Follows(m, seen(m), unread, bus[m], server[m], samples, segmentsOf(m), sendingTo(m)) BY DEF TransfersFollow
  <2>2. \A p \in 1 .. Len(unread') : p \in 1 .. Len(unread) \/ unread'[p].node # m BY <1>3, <1>4, <1>11
  <2>3. \A v \in 1 .. Len(samples') : v \in 1 .. Len(samples) \/ samples'[v].node # m BY <1>1, <1>11
  <2>4. Follows(m, seen(m), unread', bus[m], server[m], samples', segmentsOf(m), sendingTo(m))
    BY <1>1, <1>4, <2>1, <2>2, <2>3, FollowsOther
  <2> QED BY <1>2, <1>5, <1>11, <2>4
<1>12. CASE m = n BY <1>5, <1>10, <1>12
<1> QED BY <1>11, <1>12

\* What the poller does with the frame in hand.
LEMMA PollerEffect ==
    ASSUME IInv, PollerHandleFrame
    PROVE  /\ UNCHANGED <<ppc, obj, outcome, frame, transfers, builder, consumed, bus, rx, server, samples, succeeded>>
           /\ dpc = "poll" /\ dpc' \in {"sniff", "segmentSniff"}
           /\ (active' = NoPoll) <=> (active = NoPoll)
           /\ active # NoPoll => active'.obj = active.obj
           /\ active # NoPoll /\ active'.segment /\ ~active.segment =>
                  /\ frame.node = Objects[active.obj].node /\ frame.addr = Objects[active.obj].addr
                  /\ ~ExpeditedBit(frame.cmd) /\ frame.cmd # Abort
<1>1. /\ UNCHANGED <<ppc, obj, outcome, frame, transfers, builder, consumed, bus, rx, server, samples, succeeded>>
      /\ dpc = "poll" /\ dpc' \in {"sniff", "segmentSniff"}
  BY DEF PollerHandleFrame, finish, requestSegment, poller, output, external
<1>2. active \in Poll \cup {NoPoll} BY DEF IInv, TypeOK
<1>3. active = NoPoll => active' = NoPoll BY DEF PollerHandleFrame
<1>4. CASE active \in Poll
  <2>1. \/ active' = active
        \/ active' = [active EXCEPT !.result = "ok"]
        \/ active' = [active EXCEPT !.result = "failed"]
        \/ /\ \E g \in BOOLEAN : active' = [active EXCEPT !.segment = TRUE, !.toggle = g]
           /\ \/ active.segment
              \/ /\ frame.node = Objects[active.obj].node /\ frame.addr = Objects[active.obj].addr
                 /\ ~ExpeditedBit(frame.cmd) /\ frame.cmd # Abort
    <3>1. active.toggle \in BOOLEAN BY <1>4 DEF Poll
    <3> QED BY <1>4, <3>1 DEF PollerHandleFrame, addressMatches, finish, requestSegment
  <2>2. active' \in Poll /\ active'.obj = active.obj
    <3>1. \A g \in BOOLEAN : LET a == [active EXCEPT !.segment = TRUE, !.toggle = g] IN a \in Poll /\ a.obj = active.obj
      BY <1>4 DEF Poll
    <3>2. LET a == [active EXCEPT !.result = "ok"]
              b == [active EXCEPT !.result = "failed"]
          IN  a \in Poll /\ b \in Poll /\ a.obj = active.obj /\ b.obj = active.obj
      BY <1>4 DEF Poll
    <3> QED BY <1>4, <2>1, <3>1, <3>2
  <2>3. \/ active'.segment = active.segment
        \/ active.segment
        \/ /\ frame.node = Objects[active.obj].node /\ frame.addr = Objects[active.obj].addr
           /\ ~ExpeditedBit(frame.cmd) /\ frame.cmd # Abort
    BY <1>4, <2>1 DEF Poll
  <2> QED BY <1>1, <1>4, <2>2, <2>3, NoPollIsNotAPoll
<1> QED BY <1>1, <1>2, <1>3, <1>4

\* The poller begins to ask for segments when the observer's transfer is answered.
LEMMA SegmentsBegin ==
    ASSUME IInv, OInv, RequestsAreSent, LatestRequest, AnswersAreHonest, PollerHandleFrame,
           NEW m \in Node, segmentsOf(m)', ~segmentsOf(m)
    PROVE  m = frame.node /\ frame.cmd = 65 /\ (transfers[m] # NoTransfer => frame.addr = transfers[m].addr)
<1>1. active' # NoPoll /\ active'.segment /\ Objects[active'.obj].node = m BY DEF segmentsOf
<1>2. active # NoPoll /\ active'.obj = active.obj /\ ~active.segment BY <1>1, PollerEffect DEF segmentsOf
<1>3. /\ frame.node = m /\ frame.addr = Objects[active.obj].addr /\ ~ExpeditedBit(frame.cmd) /\ frame.cmd # Abort
  BY <1>1, <1>2, PollerEffect
<1>4. active.obj = obj /\ polling /\ obj \in 1 .. Len(Objects) BY <1>2 DEF IInv, ActiveIsOwned, TypeOK
<1>5. handling BY PollerEffect DEF handling
<1>6. Served(frame) /\ Honest(frame, samples) BY <1>5, UnreadFacts, UnreadHonest
<1>7. ~Segment(frame) BY <1>3, <1>4, <1>6, NoAddrAssumption DEF Honest
<1>8. frame.cmd = 65 BY <1>3, <1>6, <1>7, ServerCommands DEF Served, Segment
<1>9. ppc \in {"send", "wait", "clear"}
  <2>1. ppc # "sniff"
    <3> SUFFICES ASSUME ppc = "sniff" PROVE FALSE OBVIOUS
    <3>1. ~(frame.node = Objects[obj].node /\ frame.cmd \in {65, 67} /\ frame.addr = Objects[obj].addr)
      BY <1>5, NothingUnderWay
    <3> QED BY <1>1, <1>2, <1>3, <1>4, <1>8, <3>1
  <2> QED BY <1>4, <2>1 DEF polling
<1> QED BY <1>1, <1>2, <1>3, <1>4, <1>8, <1>9 DEF LatestRequest

\* The parts of a value, and one more.
LEMMA OneMorePart ==
    ASSUME NEW t \in Transfer, NEW f \in BusFrame, NEW v,
           \A k \in 1 .. Len(t.data) : CarriesPart(t.data[k], v, k), f.word = [sample |-> v, part |-> Len(t.data) + 1]
    PROVE  LET more == Append(t.data, segmentData(f))
           IN  /\ Len(t.data) \in Nat /\ Len(more) = Len(t.data) + 1
               /\ \A k \in 1 .. Len(more) : CarriesPart(more[k], v, k)
<1> DEFINE more == Append(t.data, segmentData(f))
<1>1. t.data \in Seq(Payload) BY DEF Transfer
<1>2. segmentData(f) \in Payload BY BusFramesHaveFields, PayloadType
<1>3. segmentData(f).word = f.word BY DEF segmentData
<1>4. /\ Len(t.data) \in Nat /\ Len(more) = Len(t.data) + 1 /\ more[Len(t.data) + 1] = segmentData(f)
      /\ \A k \in 1 .. Len(t.data) : more[k] = t.data[k]
      /\ \A k \in 1 .. Len(t.data) + 1 : k \in 1 .. Len(t.data) \/ k = Len(t.data) + 1
  BY <1>1, <1>2, AppendElements
<1> HIDE DEF more
<1>5. \A k \in 1 .. Len(more) : CarriesPart(more[k], v, k) BY <1>3, <1>4 DEF CarriesPart
<1> QED BY <1>4, <1>5 DEF more

\* f is the first of the frames q, and r are the others.
IsFirst(q, f, r) == Len(r) \in Nat /\ Len(q) = Len(r) + 1 /\ q[1] = f /\ \A p \in 1 .. Len(r) : r[p] = q[p + 1]

\* The frame in hand, shown to the transfer it follows.
LEMMA FollowsFrame ==
    ASSUME NEW n, NEW t \in Transfer \cup {NoTransfer}, IsUpload(t), NEW f \in BusFrame, Served(f), f.node = n,
           NEW given, Honest(f, given), NEW q, NEW r, IsFirst(q, f, r), NEW b, NEW up, IsAt(n, up, given), NEW seg, NEW snd, NEW seg2, NEW snd2,
           seg2 => seg \/ t = NoTransfer \/ (f.cmd = 65 /\ f.addr = t.addr),
           Follows(n, t, q, b, up, given, seg, snd)
    PROVE  LET o == ObserveOnChannel(t, f)
           IN  /\ Follows(n, o.transfer, r, b, up, given, seg2, snd2)
               /\ o.event.operation \in {"upload", "download"} => Whole(n, o.event, given)
<1> DEFINE o == ObserveOnChannel(t, f)
           more == Append(t.data, segmentData(f))
           longer == [t EXCEPT !.data = more, !.toggle = ~@]
           begunUpload == [t EXCEPT !.uploadInitiated = TRUE]
<1>0. /\ Len(r) \in Nat /\ Len(q) = Len(r) + 1 /\ q[1] = f /\ \A p \in 1 .. Len(r) : r[p] = q[p + 1]
      /\ up # NoUpload => up.sample \in 1 .. Len(given) /\ given[up.sample] = [node |-> n, addr |-> up.addr]
  BY DEF IsFirst, IsAt
<1>1. CASE t = NoTransfer BY <1>1, NothingObserved DEF Follows
<1>2. CASE t # NoTransfer
  <2>0. t \in Transfer /\ t.operation = "upload" /\ t.direction = ServerToClient /\ (~t.uploadInitiated => t.data = << >>)
    BY <1>2 DEF IsUpload
  <2>1. /\ f.cmd = 128 => o = Observed(NoTransfer, abortEvent(f))
        /\ f.cmd = 65 => o = Ignored(IF f.addr = t.addr THEN begunUpload ELSE t)
        /\ f.cmd = 67 => o = IF f.addr = t.addr THEN Observed(NoTransfer, complete(t, expeditedData(f))) ELSE Ignored(t)
        /\ Segment(f) => o = IF ~t.uploadInitiated THEN Ignored(t)
                             ELSE IF ToggleBit(f.cmd) # t.toggle THEN Ignored(NoTransfer)
                             ELSE IF LowBit(f.cmd) THEN Observed(NoTransfer, complete(t, more))
                             ELSE Ignored(longer)
    BY <2>0, UploadObserved
  <2>2. f.cmd \in {65, 67, 128} \/ Segment(f) BY DEF Served, Segment
  <2>3. begunUpload.addr = t.addr /\ begunUpload.uploadInitiated /\ begunUpload.data = t.data /\ begunUpload # NoTransfer
    BY <2>0 DEF Transfer, NoTransfer
  <2>4. longer.addr = t.addr /\ longer.uploadInitiated = t.uploadInitiated /\ longer.data = more /\ longer # NoTransfer
    BY <2>0 DEF Transfer, NoTransfer
  <2>5. abortEvent(f).operation = "abort" BY DEF abortEvent
  <2>6. 1 \in 1 .. Len(q) /\ \A p \in 1 .. Len(r) : p + 1 \in 1 .. Len(q) /\ p + 1 > 1 /\ p + 1 # 1 BY <1>0
  <2>7. \A e : ~(NoEvent.operation \in {"upload", "download"}) BY Outcome
  <2> HIDE DEF o, more, longer, begunUpload
  <2>8. Follows(n, NoTransfer, r, b, up, given, seg2, snd2) BY DEF Follows
  <2>9. CASE ~t.uploadInitiated
    <3>1. Awaits(n, t.addr, q, b, up, given, seg) BY <1>2, <2>9 DEF Follows
    <3>2. CASE f.cmd = 65 /\ f.addr = t.addr
      <4>1. o.transfer = begunUpload /\ o.event = NoEvent BY <2>1, <3>2, Outcome
      <4>2. /\ b = << >> /\ \A p \in 1 .. Len(r) : r[p].node # n
            /\ up # NoUpload => up.addr = t.addr /\ up.next = 1
        BY <1>0, <2>6, <3>1, <3>2 DEF Awaits
      <4>3. \E v \in 1 .. Len(given) : /\ given[v] = [node |-> n, addr |-> t.addr]
                                       /\ up # NoUpload => up.sample = v
        <5>1. CASE up # NoUpload BY <1>0, <4>2, <5>1
        <5>2. CASE up = NoUpload BY <3>2, <5>2 DEF Honest
        <5> QED BY <5>1, <5>2
      <4>4. PICK v \in 1 .. Len(given) : given[v] = [node |-> n, addr |-> t.addr] /\ (up # NoUpload => up.sample = v)
        BY <4>3
      <4>5. Len(begunUpload.data) = 0 BY <2>0, <2>3, <2>9
      <4>6. Continues(n, v, 1, r, b, up, snd2) BY <4>2, <4>4 DEF Continues
      <4>7. Collects(n, begunUpload, r, b, up, given, snd2) BY <2>3, <4>4, <4>5, <4>6 DEF Collects
      <4>8. Follows(n, begunUpload, r, b, up, given, seg2, snd2) BY <2>3, <4>7 DEF Follows
      <4> QED BY <2>7, <4>1, <4>8 DEF o
    <3>3. CASE f.cmd = 67 /\ f.addr = t.addr
      <4>1. o.transfer = NoTransfer /\ o.event = complete(t, expeditedData(f)) BY <2>1, <3>3, Outcome
      <4>2. Whole(n, o.event, given)
        <5>1. o.event.addr = t.addr /\ Len(o.event.data) = 1 /\ o.event.data[1].word = f.word
          BY <4>1 DEF complete, expeditedData
        <5>2. PICK v \in 1 .. Len(given) : given[v] = [node |-> n, addr |-> t.addr] /\ f.word = [sample |-> v, part |-> 0]
          BY <3>3 DEF Honest
        <5> QED BY <5>1, <5>2 DEF Whole, CarriesPart
      <4> QED BY <2>8, <4>1, <4>2 DEF o
    <3>4. CASE f.cmd = 128 BY <2>1, <2>5, <2>8, <3>4, Outcome DEF o
    <3>5. CASE Segment(f) \/ (f.cmd \in {65, 67} /\ f.addr # t.addr)
      <4>1. o = Ignored(t) BY <2>1, <2>9, <3>5 DEF Segment
      <4>2. Follows(n, t, r, b, up, given, seg, snd) BY <1>0, FollowsDrop
      <4>3. seg2 => seg BY <1>2, <3>5 DEF Segment
      <4>4. Follows(n, t, r, b, up, given, seg2, snd) BY <4>2, <4>3, FollowsWeaken
      <4>5. Follows(n, t, r, b, up, given, seg2, snd2) BY <2>9, <4>4 DEF Follows
      <4> QED BY <2>7, <4>1, <4>5, Outcome DEF o
    <3> QED BY <2>2, <3>2, <3>3, <3>4, <3>5
  <2>10. CASE t.uploadInitiated
    <3> DEFINE k == Len(t.data) + 1
    <3>1. PICK v \in 1 .. Len(given) :
             /\ given[v] = [node |-> n, addr |-> t.addr]
             /\ \A i \in 1 .. Len(t.data) : CarriesPart(t.data[i], v, i)
             /\ Continues(n, v, k, q, b, up, snd)
      BY <1>2, <2>10 DEF Follows, Collects
    <3>2. /\ b = << >> /\ \A p \in 1 .. Len(r) : r[p].node # n
          /\ \/ f.cmd = Abort
             \/ /\ Segment(f) /\ (LowBit(f.cmd) => k = SegmentCount) /\ f.word = [sample |-> v, part |-> k]
                /\ up # NoUpload => up.sample = v /\ up.next = k + 1
      BY <1>0, <2>6, <3>1 DEF Continues
    <3>3. CASE f.cmd = Abort
      <4>1. f.cmd = 128 BY <3>3 DEF Abort
      <4> QED BY <2>1, <2>5, <2>8, <4>1, Outcome DEF o
    <3>4. CASE /\ Segment(f) /\ (LowBit(f.cmd) => k = SegmentCount) /\ f.word = [sample |-> v, part |-> k]
               /\ up # NoUpload => up.sample = v /\ up.next = k + 1
      <4>1. /\ Len(t.data) \in Nat /\ Len(more) = k /\ \A i \in 1 .. Len(more) : CarriesPart(more[i], v, i)
        BY <2>0, <3>1, <3>4, OneMorePart DEF more
      <4>2. CASE ToggleBit(f.cmd) # t.toggle
        <5>1. o = Ignored(NoTransfer) BY <2>1, <2>10, <3>4, <4>2
        <5> QED BY <2>7, <2>8, <5>1, Outcome DEF o
      <4>3. CASE ToggleBit(f.cmd) = t.toggle /\ LowBit(f.cmd)
        <5>1. o.transfer = NoTransfer /\ o.event = complete(t, more) BY <2>1, <2>10, <3>4, <4>3, Outcome
        <5>2. o.event.addr = t.addr /\ o.event.data = more BY <5>1 DEF complete
        <5>3. Whole(n, o.event, given) BY <3>1, <3>4, <4>1, <4>3, <5>2 DEF Whole
        <5> QED BY <2>8, <5>1, <5>3 DEF o
      <4>4. CASE ToggleBit(f.cmd) = t.toggle /\ ~LowBit(f.cmd)
        <5>1. o = Ignored(longer) BY <2>1, <2>10, <3>4, <4>4
        <5>2. Continues(n, v, k + 1, r, b, up, snd2) BY <3>2, <3>4 DEF Continues
        <5>3. Collects(n, longer, r, b, up, given, snd2) BY <2>4, <3>1, <4>1, <5>2 DEF Collects
        <5>4. Follows(n, longer, r, b, up, given, seg2, snd2) BY <2>4, <2>10, <5>3 DEF Follows
        <5> QED BY <2>7, <5>1, <5>4, Outcome DEF o
      <4> QED BY <4>2, <4>3, <4>4
    <3> QED BY <3>2, <3>3, <3>4
  <2> QED BY <2>9, <2>10
<1> QED BY <1>1, <1>2

\* The poller acts on a frame: the transfer it belongs to moves on.
LEMMA FollowPoller ==
    ASSUME IInv, OInv, RequestsAreSent, UploadsOnly, LatestRequest, ServersAnswer, AnswersAreHonest,
           TransfersFollow, PollerHandleFrame
    PROVE  TransfersFollow' /\ PendingIsWhole'
<1> DEFINE n == frame.node
<1>1. /\ UNCHANGED <<frame, transfers, bus, rx, server, samples>>
      /\ dpc = "poll" /\ dpc' \in {"sniff", "segmentSniff"}
  BY PollerEffect
<1>2. handling /\ ~acted /\ acted' /\ unread' = rx BY <1>1 DEF handling, acted, unread
<1>3. Served(frame) /\ Honest(frame, samples) /\ frame \in BusFrame BY <1>2, UnreadFacts, UnreadHonest DEF Served
<1>4. n \in Node BY <1>3, BusFramesHaveFields
<1>5. Len(rx) \in Nat /\ Len(unread) = Len(rx) + 1 /\ unread[1] = frame /\ \A p \in 1 .. Len(rx) : rx[p] = unread[p + 1]
  <2>1. rx \in Seq(BusFrame) BY DEF IInv, TypeOK
  <2> QED BY <1>1, <2>1, UnreadFacts
<1>6. \A m \in Node : seen(m) = transfers[m] /\ ~sendingTo(m) BY <1>1, <1>2 DEF seen, sendingTo, sending
<1>7. ASSUME NEW m \in Node
      PROVE  /\ Follows(m, seen(m)', unread', bus'[m], server'[m], samples', segmentsOf(m)', sendingTo(m)')
             /\ m = n /\ pending'.operation \in {"upload", "download"} => Whole(m, pending', samples)
  <2>1. Follows(m, transfers[m], unread, bus[m], server[m], samples, segmentsOf(m), sendingTo(m))
    BY <1>6 DEF TransfersFollow
  <2>2. segmentsOf(m)' => segmentsOf(m) \/ (m = n /\ (transfers[m] = NoTransfer \/ (frame.cmd = 65 /\ frame.addr = transfers[m].addr)))
    BY SegmentsBegin
  <2>3. CASE m # n
    <3>1. seen(m)' = transfers[m] /\ ~sendingTo(m)' BY <1>1, <1>2, <2>3 DEF seen, sendingTo
    <3>2. Follows(m, transfers[m], rx, bus[m], server[m], samples, segmentsOf(m), sendingTo(m)) BY <1>5, <2>1, FollowsDrop
    <3>3. Follows(m, transfers[m], rx, bus[m], server[m], samples, segmentsOf(m)', sendingTo(m)')
      <4>1. (segmentsOf(m)' => segmentsOf(m)) /\ (sendingTo(m)' => sendingTo(m)) BY <2>2, <2>3, <3>1
      <4> QED BY <3>2, <4>1, FollowsWeaken
    <3> QED BY <1>1, <1>2, <2>3, <3>1, <3>3
  <2>4. CASE m = n
    <3> DEFINE o == ObserveOnChannel(transfers[m], frame)
    <3>1. seen(m)' = o.transfer BY <1>1, <1>2, <2>4 DEF seen
    <3>2. pending' = o.event BY <1>1, <2>4 DEF pending
    <3>3. transfers[m] \in Transfer \cup {NoTransfer} /\ IsUpload(transfers[m]) BY DEF IInv, TypeOK, UploadsOnly
    <3>4. IsAt(m, server[m], samples) /\ IsFirst(unread, frame, rx) BY <1>5 DEF ServersAnswer, IsFirst
    <3>5. /\ Follows(m, o.transfer, rx, bus[m], server[m], samples, segmentsOf(m)', sendingTo(m)')
          /\ o.event.operation \in {"upload", "download"} => Whole(m, o.event, samples)
      <4>1. segmentsOf(m)' => segmentsOf(m) \/ transfers[m] = NoTransfer \/ (frame.cmd = 65 /\ frame.addr = transfers[m].addr)
        BY <2>2
      <4>2. frame \in BusFrame /\ Served(frame) /\ frame.node = m /\ Honest(frame, samples) BY <1>3, <2>4
      <4> QED BY <2>1, <3>3, <3>4, <4>1, <4>2, FollowsFrame
    <3> HIDE DEF o
    <3> QED BY <1>1, <1>2, <3>1, <3>2, <3>5
  <2> QED BY <2>3, <2>4
<1>8. TransfersFollow' BY <1>7 DEF TransfersFollow
<1>9. PendingIsWhole' BY <1>1, <1>4, <1>7 DEF PendingIsWhole
<1> QED BY <1>8, <1>9

-----------------------------------------------------------------------------
(* Every emitted value is whole.                                           *)

\* A whole value stays whole when more values are given.
LEMMA WholeStays ==
    ASSUME NEW n, NEW e, NEW given, NEW more, Whole(n, e, given),
           \A v \in 1 .. Len(given) : v \in 1 .. Len(more) /\ more[v] = given[v]
    PROVE  Whole(n, e, more)
BY DEF Whole

\* No step takes back a value that has been given.
LEMMA GivenStays ==
    ASSUME IInv, [Next]_vars PROVE \A v \in 1 .. Len(samples) : v \in 1 .. Len(samples') /\ samples'[v] = samples[v]
<1>1. CASE \E n \in Node : ServerUpload(n) \/ ServerSegment(n) BY <1>1, ServerFacts
<1>2. CASE ~\E n \in Node : ServerUpload(n) \/ ServerSegment(n)
  BY <1>2, BusQuiet DEF SendRequest, SegmentSend
<1> QED BY <1>1, <1>2

\* The steps that leave the frame in hand, and the transfers, alone.
LEMMA PendingQuiet ==
    ASSUME IInv, [Next]_vars, PendingIsWhole, ~SniffRequest, ~PollerHandleFrame
    PROVE  PendingIsWhole'
<1> SUFFICES ASSUME acted', pending'.operation \in {"upload", "download"} PROVE Whole(frame'.node, pending', samples')
  BY DEF PendingIsWhole
<1> USE DEF acted
<1>1. acted /\ frame' = frame
  <2>1. CASE PollerStep
    BY <2>1 DEF PollerStep, Activate, SendRequest, Await, Conclude, BackoffElapsed, IntervalElapsed, dispatcher
  <2>2. CASE DispatcherStep BY <2>2 DEF DispatcherStep, DispatchTop, Recv, SegmentSniff, SegmentSend, SniffFrame, Flush
  <2>3. CASE \E n \in Node : ServerUpload(n) \/ ServerSegment(n) BY <2>3, ServerFacts
  <2> QED BY <2>1, <2>2, <2>3 DEF Next, Stopped, Cancel, CloseConn, dispatcher, vars
<1>2. ~SniffFrame BY DEF SniffFrame
<1>3. pending' = pending BY <1>1, <1>2, TransfersQuiet DEF pending
<1> QED BY <1>1, <1>3, GivenStays, WholeStays DEF PendingIsWhole

\* The steps that emit nothing.
LEMMA OutputQuiet ==
    ASSUME IInv, [Next]_vars, ~SniffFrame, ~Flush PROVE UNCHANGED <<builder, consumed>>
<1> USE DEF output, vars
<1>1. CASE PollerStep
  BY <1>1, SniffRequestEffect DEF PollerStep, Activate, SniffRequest, SendRequest, Await, Conclude, BackoffElapsed, IntervalElapsed
<1>2. CASE DispatcherStep
  BY <1>2, SegmentSniffEffect DEF DispatcherStep, DispatchTop, Recv, PollerHandleFrame, SegmentSniff, SegmentSend
<1>3. CASE \E n \in Node : ServerUpload(n) \/ ServerSegment(n) BY <1>3, ServerFacts
<1> QED BY <1>1, <1>2, <1>3 DEF Next, Stopped, Cancel, CloseConn

\* What is emitted is what the frame in hand completed.
LEMMA EmittedStep ==
    ASSUME IInv, [Next]_vars, PendingIsWhole, EmittedAreWhole PROVE EmittedAreWhole'
<1>0. builder \in Seq(Value) /\ consumed \in Seq(Value) BY DEF IInv, TypeOK
<1>1. CASE SniffFrame
  <2> DEFINE x == [node |-> frame.node, event |-> pending]
  <2>1. acted /\ consumed' = consumed /\ samples' = samples BY <1>1 DEF SniffFrame, acted, external
  <2>2. builder' = IF pending.operation \in {"upload", "download"} THEN Append(builder, x) ELSE builder
    BY <1>1 DEF SniffFrame, HandleFrame, pending
  <2>3. CASE pending.operation \in {"upload", "download"}
    <3>1. x \in Value
      <4>1. frame \in BusFrame /\ frame.node \in Node BY <2>1, BusFramesHaveFields DEF IInv, FrameIsHeld, acted, handling
      <4>2. transfers[frame.node] \in Transfer \cup {NoTransfer} BY <4>1 DEF IInv, TypeOK
      <4>3. pending \in Event \cup {NoEvent} BY <4>1, <4>2, BusFramesHaveFields, ObserveType DEF pending
      <4>4. pending \in Event BY <2>3, <4>3, Outcome
      <4> QED BY <4>1, <4>4 DEF Value
    <3>2. x.node = frame.node /\ x.event = pending OBVIOUS
    <3> HIDE DEF x
    <3>3. \A i \in 1 .. Len(builder') : (i \in 1 .. Len(builder) /\ builder'[i] = builder[i]) \/ builder'[i] = x
      BY <1>0, <2>2, <2>3, <3>1, AppendElements
    <3>4. Whole(x.node, x.event, samples) BY <2>1, <2>3, <3>2 DEF PendingIsWhole
    <3> QED BY <2>1, <3>3, <3>4 DEF EmittedAreWhole
  <2>4. CASE pending.operation \notin {"upload", "download"} BY <2>1, <2>2, <2>4 DEF EmittedAreWhole
  <2> QED BY <2>3, <2>4
<1>2. CASE Flush
  <2>1. consumed' = consumed \o builder /\ builder' = << >> /\ samples' = samples BY <1>2 DEF Flush, external
  <2>2. ASSUME NEW i \in 1 .. Len(consumed') PROVE Whole(consumed'[i].node, consumed'[i].event, samples)
    <3>1. \/ i \in 1 .. Len(consumed) /\ consumed'[i] = consumed[i]
          \/ i - Len(consumed) \in 1 .. Len(builder) /\ consumed'[i] = builder[i - Len(consumed)]
      BY <1>0, <2>1, ConcatElements
    <3> QED BY <3>1 DEF EmittedAreWhole
  <2>3. Len(builder') = 0 BY <2>1
  <2> QED BY <2>1, <2>2, <2>3 DEF EmittedAreWhole
<1>3. CASE ~SniffFrame /\ ~Flush
  <2>1. builder' = builder /\ consumed' = consumed BY <1>3, OutputQuiet
  <2> QED BY <2>1, GivenStays, WholeStays DEF EmittedAreWhole
<1> QED BY <1>1, <1>2, <1>3

\* Every step of every actor, and the transfers they follow.
LEMMA FollowStep == ASSUME IInv, IInv', AInv, OInv, WInv, [Next]_vars PROVE TransfersFollow' /\ PendingIsWhole'
<1> USE DEF WInv
<1>1. CASE SniffRequest BY <1>1, FollowSniffRequest
<1>2. CASE PollerHandleFrame BY <1>2, FollowPoller
<1>3. CASE ~SniffRequest /\ ~PollerHandleFrame
  <2>1. PendingIsWhole' BY <1>3, PendingQuiet
  <2>2. CASE SendRequest BY <2>1, <2>2, FollowSendRequest
  <2>3. CASE SegmentSend BY <2>1, <2>3, FollowSegmentSend
  <2>4. CASE \E n \in Node : ServerUpload(n) \/ ServerSegment(n) BY <2>1, <2>4, FollowServer
  <2>5. CASE ~SendRequest /\ ~SegmentSend /\ ~\E n \in Node : ServerUpload(n) \/ ServerSegment(n)
    BY <1>3, <2>1, <2>5, QuietMove, FollowQuiet
  <2> QED BY <2>2, <2>3, <2>4, <2>5
<1> QED BY <1>1, <1>2, <1>3

\* WInv is inductive.
LEMMA WholeInductive == ASSUME Once PROVE IInv /\ IInv' /\ AInv /\ OInv /\ WInv /\ [Next]_vars => WInv'
<1> SUFFICES ASSUME IInv, IInv', AInv, OInv, WInv, [Next]_vars PROVE WInv' OBVIOUS
<1>1. TransfersFollow' /\ PendingIsWhole' BY FollowStep
<1>2. NeverRepeats' /\ RequestsAreSent' BY RepeatsStep, RequestsStep DEF WInv
<1>3. UploadsOnly' /\ LatestRequest' BY UploadsStep, LatestStep DEF WInv
<1>4. ServersAnswer' /\ AnswersAreHonest' BY ServersStep, HonestStep DEF WInv
<1>5. EmittedAreWhole' BY EmittedStep DEF WInv
<1> QED BY <1>1, <1>2, <1>3, <1>4, <1>5 DEF WInv

\* WInv holds initially.
LEMMA InitWInv == Init => WInv
<1> SUFFICES ASSUME Init PROVE WInv OBVIOUS
<1>1. ~acted /\ ~handling BY DEF Init, acted, handling
<1>2. \A n \in Node : seen(n) = NoTransfer /\ transfers[n] = NoTransfer BY <1>1 DEF Init, seen
<1>3. NeverRepeats /\ LatestRequest BY DEF Init, NeverRepeats, LatestRequest
<1>4. RequestsAreSent BY DEF Init, RequestsAreSent
<1>5. UploadsOnly BY <1>2 DEF UploadsOnly, IsUpload
<1>6. ServersAnswer BY DEF Init, ServersAnswer, IsAt
<1>7. AnswersAreHonest BY <1>1 DEF Init, AnswersAreHonest
<1>8. TransfersFollow BY <1>2 DEF TransfersFollow, Follows
<1>9. PendingIsWhole BY <1>1 DEF PendingIsWhole
<1>10. EmittedAreWhole BY DEF Init, EmittedAreWhole
<1> QED BY <1>3, <1>4, <1>5, <1>6, <1>7, <1>8, <1>9, <1>10 DEF WInv

(* Polling each object once, a value that reaches the pipeline is one      *)
(* value the server had for that object: the data of one expedited answer  *)
(* or all the segments of one segmented answer, in order, whatever is      *)
(* lost or late and however the two goroutines interleave (sendPollFrame,  *)
(* handleFrame and the observer together).                                 *)
THEOREM OnceValuesAreWhole == ASSUME Once PROVE Spec => []ValuesAreWhole
<1>1. IInv /\ WInv => ValuesAreWhole
  <2> SUFFICES ASSUME IInv, WInv PROVE ValuesAreWhole OBVIOUS
  <2>1. builder \in Seq(Value) /\ consumed \in Seq(Value) BY DEF IInv, TypeOK
  <2>2. ASSUME NEW i \in 1 .. Len(builder \o consumed)
        PROVE  Whole((builder \o consumed)[i].node, (builder \o consumed)[i].event, samples)
    <3>1. \/ i \in 1 .. Len(builder) /\ (builder \o consumed)[i] = builder[i]
          \/ i - Len(builder) \in 1 .. Len(consumed) /\ (builder \o consumed)[i] = consumed[i - Len(builder)]
      BY <2>1, ConcatElements
    <3> QED BY <3>1 DEF WInv, EmittedAreWhole
  <2> QED BY <2>2 DEF ValuesAreWhole, emitted, Whole
<1>2. IInv /\ IInv' /\ AInv /\ OInv /\ WInv /\ [Next]_vars => WInv' BY WholeInductive
<1> QED BY <1>1, <1>2, InitIInv, Inductive, InitAInv, AnswersInductive, InitOInv, OrderInductive, InitWInv, PTL DEF Spec
-----------------------------------------------------------------------------
(* Every successful poll is emitted, with one object per node.             *)

\* No two objects are of the same node.
OneObjectPerNode == \A i, j \in 1 .. Len(Objects) : Objects[i].node = Objects[j].node => i = j

\* Nothing is under way to or from node n.
silent(n) == bus[n] = << >> /\ (\A p \in 1 .. Len(rx) : rx[p].node # n) /\ (handling => frame.node # n)

NotYetSent == \A i \in 1 .. Len(Objects) : ~sent(i) => silent(Objects[i].node)

FreshPoll ==
    /\ ppc = "sniff" => ~active.segment /\ active.result = "none"
    /\ ppc = "send" => LET t == transfers[Objects[obj].node] IN t # NoTransfer /\ ~t.uploadInitiated

(* The transfer u of node n is answered by one frame: at most one request  *)
(* or answer is under way, and none without a transfer.                    *)
Alone(n, u, q, b, seg, snd) ==
    /\ u = NoTransfer => b = << >> /\ ~snd /\ \A p \in 1 .. Len(q) : q[p].node # n
    /\ u # NoTransfer /\ ~u.uploadInitiated =>
           /\ ~snd /\ ~seg /\ Len(b) <= 1
           /\ \A j \in 1 .. Len(b) : b[j].cmd = UploadRequest /\ b[j].addr = u.addr
           /\ \A p \in 1 .. Len(q) : q[p].node = n =>
                  /\ b = << >> /\ q[p].cmd \in {65, 67, Abort} /\ q[p].addr = u.addr
                  /\ \A r \in 1 .. Len(q) : q[r].node = n => r = p

OneRequest == \A n \in Node : Alone(n, seen(n), unread, bus[n], segmentsOf(n), sendingTo(n))

\* The poller and the observer are at the same part of the same transfer.
InStep ==
    active # NoPoll /\ ppc # "sniff" =>
        LET u == seen(Objects[obj].node)
        IN  u # NoTransfer => /\ active.result = "none" /\ (active.segment <=> u.uploadInitiated)
                              /\ active.segment => u.toggle = active.toggle

\* The value of object i has been emitted, or will be when the observer sees the frame in hand.
Reported(i) ==
    \/ \E k \in 1 .. Len(builder) : builder[k].node = Objects[i].node /\ builder[k].event.addr = Objects[i].addr
    \/ \E k \in 1 .. Len(consumed) : consumed[k].node = Objects[i].node /\ consumed[k].event.addr = Objects[i].addr
    \/ /\ acted /\ frame.node = Objects[i].node
       /\ pending.operation = "upload" /\ pending.addr = Objects[i].addr

SuccessIsReported ==
    /\ active # NoPoll /\ active.result = "ok" => Reported(active.obj)
    /\ outcome = "ok" => ppc = "clear" /\ Reported(obj)
    /\ \A i \in succeeded : Reported(i)

EInv == NotYetSent /\ FreshPoll /\ OneRequest /\ InStep /\ SuccessIsReported

\* A node that has not been asked stays silent.
LEMMA SilentStep ==
    ASSUME Once, OneObjectPerNode, IInv, NeverRepeats, NotYetSent, [Next]_vars PROVE NotYetSent'
<1> SUFFICES ASSUME NEW i \in 1 .. Len(Objects), ~sent(i)' PROVE silent(Objects[i].node)'
  BY DEF NotYetSent
<1> DEFINE n == Objects[i].node
<1>1. ~sent(i) /\ n \in Node BY SentStays, ObjectFacts
<1>2. silent(n) BY <1>1 DEF NotYetSent
<1>3. bus[n] = << >> /\ (\A p \in 1 .. Len(rx) : rx[p].node # n) /\ (handling => frame.node # n) BY <1>2 DEF silent
<1>4. rx \in Seq(BusFrame) /\ obj \in 1 .. Len(Objects) BY DEF IInv, TypeOK
<1>5. SUFFICES bus'[n] = << >> /\ (\A p \in 1 .. Len(rx') : rx'[p].node # n) /\ (handling' => frame'.node # n)
  BY DEF silent
<1>6. CASE SendRequest
  <2>1. obj' = obj /\ ppc' \in {"wait", "clear"} BY <1>6 DEF SendRequest
  <2>2. i # obj BY <2>1 DEF sent
  <2>3. Objects[obj].node # n BY <1>4, <2>2 DEF OneObjectPerNode
  <2>4. request \in BusFrame /\ request.node = Objects[obj].node BY <1>4, RequestType DEF request, ClientFrame
  <2>5. bus'[n] = bus[n] BY <1>1, <1>6, <2>3, <2>4, SendBus DEF SendRequest
  <2>6. UNCHANGED <<rx, dpc, frame>> BY <1>6 DEF SendRequest, dispatcher
  <2> HIDE DEF n
  <2> QED BY <1>3, <2>5, <2>6 DEF handling
<1>7. CASE SegmentSend
  <2>1. active \in Poll /\ frame.node = Objects[active.obj].node
    BY <1>7 DEF SegmentSend, IInv, TypeOK, SegmentIsForActive, sending
  <2>2. segmentRequest \in BusFrame /\ segmentRequest.node = frame.node
    BY <2>1, SegmentRequestType DEF segmentRequest, ClientFrame
  <2>3. handling BY <1>7 DEF SegmentSend, handling
  <2>4. bus'[n] = bus[n] BY <1>1, <1>3, <1>7, <2>2, <2>3, SendBus DEF SegmentSend
  <2>5. UNCHANGED <<rx, frame>> BY <1>7 DEF SegmentSend
  <2> HIDE DEF n
  <2> QED BY <1>3, <2>3, <2>4, <2>5
<1>8. CASE \E m \in Node : ServerUpload(m) \/ ServerSegment(m)
  <2> HIDE DEF n
  <2>1. PICK m \in Node : ServerUpload(m) \/ ServerSegment(m) BY <1>8
  <2>2. bus[m] # << >> BY <2>1, ServerStep
  <2>3. m # n /\ bus'[n] = bus[n] BY <1>1, <1>3, <2>1, <2>2, ServerStep
  <2>4. UNCHANGED <<dpc, frame>> BY <2>1, ServerFacts
  <2>5. PICK f \in BusFrame : f.node = m /\ Reply(f) BY <2>1, ServerReply
  <2>6. \A p \in 1 .. Len(rx') : (p \in 1 .. Len(rx) /\ rx'[p] = rx[p]) \/ rx'[p] = f
    <3>1. CASE rx' = Append(rx, f) BY <1>4, <3>1, AppendElements
    <3>2. CASE rx' = rx BY <3>2
    <3> QED BY <2>5, <3>1, <3>2 DEF Reply
  <2> QED BY <1>3, <2>3, <2>4, <2>5, <2>6 DEF handling
<1>9. CASE Recv
  <2>1. bus' = bus BY <1>9 DEF Recv
  <2> HIDE DEF n
  <2>2. CASE rx # << >> /\ frame' = Head(rx) /\ rx' = Tail(rx)
    BY <1>3, <1>4, <2>1, <2>2, TailElements
  <2>3. CASE dpc' \in {"done", "top"} /\ UNCHANGED <<frame, rx>> BY <1>3, <2>1, <2>3 DEF handling
  <2> QED BY <1>9, <2>2, <2>3 DEF Recv
<1>10. CASE ~SendRequest /\ ~SegmentSend /\ ~Recv /\ ~\E m \in Node : ServerUpload(m) \/ ServerSegment(m)
  <2> HIDE DEF n
  <2> QED BY <1>3, <1>10, BusQuiet, FramesQuiet
<1> QED BY <1>6, <1>7, <1>8, <1>9, <1>10

\* The object about to be requested.
LEMMA StillSilent ==
    ASSUME IInv, NotYetSent, ppc \in {"poll", "sniff", "send"}
    PROVE  silent(Objects[obj].node)
<1>1. obj \in 1 .. Len(Objects) /\ obj \in Int BY ObjectFacts DEF IInv, TypeOK
<1> QED BY <1>1 DEF sent, NotYetSent

\* The steps that leave p.active alone.
LEMMA ActiveQuiet ==
    ASSUME IInv, [Next]_vars, ~Activate, ~Conclude, ~PollerHandleFrame PROVE active' = active
<1> USE DEF vars
<1>1. CASE PollerStep BY <1>1 DEF PollerStep, SniffRequest, SendRequest, Await, BackoffElapsed, IntervalElapsed
<1>2. CASE DispatcherStep BY <1>2 DEF DispatcherStep, DispatchTop, Recv, SegmentSniff, SegmentSend, SniffFrame, Flush
<1>3. CASE \E n \in Node : ServerUpload(n) \/ ServerSegment(n) BY <1>3 DEF ServerUpload, ServerSegment
<1> QED BY <1>1, <1>2, <1>3 DEF Next, Stopped, Cancel, CloseConn

\* A frame of another node is none of the poll's business.
LEMMA OtherFrame ==
    ASSUME IInv, PollerHandleFrame, active = NoPoll \/ frame.node # Objects[obj].node
    PROVE  active' = active /\ dpc' = "sniff"
BY DEF PollerHandleFrame, IInv, ActiveIsOwned

\* Where the poller is before its request is shown.
LEMMA SniffingStep ==
    ASSUME IInv, [Next]_vars, ppc' = "sniff" PROVE Activate \/ (ppc = "sniff" /\ obj' = obj)
<1> USE DEF poller, vars
<1>1. CASE PollerStep
  BY <1>1 DEF PollerStep, SniffRequest, SendRequest, Await, Conclude, NextObject, BackoffElapsed, IntervalElapsed
<1>2. CASE DispatcherStep
  BY <1>2 DEF DispatcherStep, DispatchTop, Recv, PollerHandleFrame, SegmentSniff, SegmentSend, SniffFrame, Flush
<1>3. CASE \E n \in Node : ServerUpload(n) \/ ServerSegment(n) BY <1>3 DEF ServerUpload, ServerSegment
<1> QED BY <1>1, <1>2, <1>3 DEF Next, Stopped, Cancel, CloseConn

\* Nothing answers a poll before its request is sent.
LEMMA FreshStep ==
    ASSUME IInv, OInv, NotYetSent, FreshPoll, [Next]_vars PROVE FreshPoll'
<1>0. obj \in 1 .. Len(Objects) /\ transfers \in [Node -> Transfer \cup {NoTransfer}] BY DEF IInv, TypeOK
<1>1. ASSUME ppc' = "sniff" PROVE ~active'.segment /\ active'.result = "none"
  <2>1. CASE Activate BY <2>1 DEF Activate
  <2>2. CASE ppc = "sniff" /\ ~Activate
    <3>1. CASE PollerHandleFrame
      <4>1. frame.node # Objects[obj].node BY <2>2, <3>1, StillSilent DEF silent, handling, PollerHandleFrame
      <4> QED BY <2>2, <3>1, <4>1, OtherFrame DEF FreshPoll
    <3>2. ~Conclude BY <2>2 DEF Conclude
    <3> QED BY <2>2, <3>1, <3>2, ActiveQuiet DEF FreshPoll
  <2> QED BY <1>1, <2>1, <2>2, SniffingStep
<1>2. ASSUME ppc' = "send" PROVE transfers'[Objects[obj'].node] # NoTransfer /\ ~transfers'[Objects[obj'].node].uploadInitiated
  <2>1. CASE SniffRequest
    <3> DEFINE t == newTransfer("upload", ServerToClient, Objects[obj].addr)
    <3>1. Objects[obj].node \in Node /\ obj' = obj BY <1>0, <2>1, ObjectFacts DEF SniffRequest
    <3>2. transfers'[Objects[obj].node] = t BY <1>0, <2>1, <3>1, SniffRequestEffect
    <3>3. t # NoTransfer /\ ~t.uploadInitiated BY DEF newTransfer, NoTransfer
    <3> HIDE DEF t
    <3> QED BY <3>1, <3>2, <3>3
  <2>2. CASE ~SniffRequest
    <3>1. obj' = obj /\ ppc \in {"send", "wait", "clear"} BY <1>2, <2>2, WaitingStep
    <3>2. ppc = "send"
      <4> USE DEF poller, vars
      <4>1. CASE PollerStep
        BY <1>2, <2>2, <4>1 DEF PollerStep, Activate, SendRequest, Await, Conclude, NextObject, BackoffElapsed, IntervalElapsed
      <4>2. CASE DispatcherStep
        BY <1>2, <4>2 DEF DispatcherStep, DispatchTop, Recv, PollerHandleFrame, SegmentSniff, SegmentSend, SniffFrame, Flush
      <4>3. CASE \E n \in Node : ServerUpload(n) \/ ServerSegment(n) BY <1>2, <4>3 DEF ServerUpload, ServerSegment
      <4> QED BY <1>2, <4>1, <4>2, <4>3 DEF Next, Stopped, Cancel, CloseConn
    <3>3. Objects[obj].node \in Node BY <1>0, ObjectFacts
    <3>4. CASE SniffFrame
      <4>1. frame.node # Objects[obj].node BY <3>2, <3>4, StillSilent DEF silent, handling, SniffFrame
      <4> QED BY <3>1, <3>2, <3>3, <3>4, <4>1, SniffFrameEffect DEF FreshPoll
    <3> QED BY <2>2, <3>1, <3>2, <3>4, TransfersQuiet DEF FreshPoll
  <2> QED BY <2>1, <2>2
<1> QED BY <1>1, <1>2 DEF FreshPoll

\* f is the first frame, for the transfer t of its node n.
Tracked(n, t, f, q, r, b, up, given, seg, snd) ==
    IsFirst(q, f, r) /\ f.node = n /\ Follows(n, t, q, b, up, given, seg, snd) /\ Alone(n, t, q, b, seg, snd)

\* It is the only frame under way for that transfer.
LEMMA OnlyFrame ==
    ASSUME NEW n, NEW t, NEW f, NEW q, NEW r, NEW b, NEW up, NEW given, NEW seg, NEW snd,
           Tracked(n, t, f, q, r, b, up, given, seg, snd)
    PROVE  /\ t # NoTransfer /\ b = << >> /\ \A p \in 1 .. Len(r) : r[p].node # n
           /\ ~t.uploadInitiated => f.cmd \in {65, 67, 128} /\ f.addr = t.addr
           /\ t.uploadInitiated => f.cmd = 128 \/ Segment(f)
<1>1. /\ Len(r) \in Nat /\ Len(q) = Len(r) + 1 /\ q[1] = f /\ \A p \in 1 .. Len(r) : r[p] = q[p + 1]
      /\ 1 \in 1 .. Len(q) /\ \A p \in 1 .. Len(r) : p + 1 \in 1 .. Len(q) /\ p + 1 # 1
  BY DEF Tracked, IsFirst
<1>0. f.node = n /\ Follows(n, t, q, b, up, given, seg, snd) /\ Alone(n, t, q, b, seg, snd) BY DEF Tracked
<1>2. t # NoTransfer BY <1>0, <1>1 DEF Alone
<1>3. CASE ~t.uploadInitiated
  <2>1. b = << >> /\ f.cmd \in {65, 67, Abort} /\ f.addr = t.addr /\ \A p \in 1 .. Len(q) : q[p].node = n => p = 1
    BY <1>0, <1>1, <1>2, <1>3 DEF Alone
  <2> QED BY <1>1, <1>2, <1>3, <2>1 DEF Abort
<1>4. CASE t.uploadInitiated
  <2>1. PICK v, k : Continues(n, v, k, q, b, up, snd) BY <1>0, <1>2, <1>4 DEF Follows, Collects
  <2>2. b = << >> /\ (f.cmd = Abort \/ Segment(f)) /\ \A p \in 1 .. Len(q) : q[p].node = n => p = 1
    BY <1>0, <1>1, <2>1 DEF Continues
  <2> QED BY <1>1, <1>2, <1>4, <2>2 DEF Abort
<1> QED BY <1>3, <1>4

\* What the poll makes of a frame of its node, by the frame's kind.
LEMMA OwnFrame ==
    ASSUME IInv, OInv, PollerHandleFrame, active # NoPoll, frame.node = Objects[obj].node, active.result = "none"
    PROVE  LET c == frame.cmd
               a == frame.addr = Objects[obj].addr
           IN  /\ c = 128 => dpc' = "sniff" /\ active'.result # "ok"
               /\ ~active.segment /\ a /\ c = 67 => dpc' = "sniff"
               /\ ~active.segment /\ a /\ c = 65 => active'.segment /\ ~active'.toggle /\ active'.result = "none"
               /\ active.segment /\ Segment(frame) /\ ToggleBit(c) # active.toggle =>
                      dpc' = "sniff" /\ active'.result # "ok"
               /\ active.segment /\ Segment(frame) /\ ToggleBit(c) = active.toggle =>
                      IF LowBit(c) THEN dpc' = "sniff"
                      ELSE active'.segment /\ active'.toggle = ~active.toggle /\ active'.result = "none"
<1>1. active \in Poll /\ active.obj = obj BY DEF IInv, TypeOK, ActiveIsOwned
<1>2. handling BY DEF PollerHandleFrame, handling
<1>3. Served(frame) BY <1>2, UnreadFacts
<1>4. frame.dir = ServerToClient /\ frame.len = sdoFrameLength BY <1>3 DEF Served, BusFrame
<1>5. LET x == [active EXCEPT !.segment = TRUE, !.toggle = FALSE]
          y == [active EXCEPT !.segment = TRUE, !.toggle = ~active.toggle]
      IN  /\ x.segment /\ ~x.toggle /\ x.result = "none"
          /\ y.segment /\ y.toggle = ~active.toggle /\ y.result = "none"
  BY <1>1 DEF Poll
<1>6. [active EXCEPT !.result = "failed"].result = "failed" BY <1>1 DEF Poll
<1>7. Segment(frame) => frame.cmd # 128 BY DEF Segment
<1> DEFINE c == frame.cmd
           a == frame.addr = Objects[obj].addr
<1>8. \/ c = 128 /\ a /\ active' = [active EXCEPT !.result = "failed"] /\ dpc' = "sniff"
      \/ c = 128 /\ ~a /\ active' = active /\ dpc' = "sniff"
      \/ c # 128 /\ ~active.segment /\ ~a
      \/ c # 128 /\ ~active.segment /\ a /\ ExpeditedBit(c) /\ dpc' = "sniff"
      \/ c # 128 /\ ~active.segment /\ a /\ ~ExpeditedBit(c) /\ active' = [active EXCEPT !.segment = TRUE, !.toggle = FALSE]
      \/ c # 128 /\ active.segment /\ ToggleBit(c) # active.toggle /\ active' = [active EXCEPT !.result = "failed"] /\ dpc' = "sniff"
      \/ c # 128 /\ active.segment /\ ToggleBit(c) = active.toggle /\ LowBit(c) /\ dpc' = "sniff"
      \/ /\ c # 128 /\ active.segment /\ ToggleBit(c) = active.toggle /\ ~LowBit(c)
         /\ active' = [active EXCEPT !.segment = TRUE, !.toggle = ~active.toggle]
  BY <1>1, <1>4, ServerCommands DEF PollerHandleFrame, addressMatches, finish, requestSegment, sdoFrameLength
<1> HIDE DEF a
<1>9. c = 128 => dpc' = "sniff" /\ active'.result # "ok" BY <1>6, <1>8
<1>10. ~active.segment /\ a /\ c = 67 => dpc' = "sniff" BY <1>8, ServerCommands
<1>11. ~active.segment /\ a /\ c = 65 => active'.segment /\ ~active'.toggle /\ active'.result = "none"
  <2>1. ~active.segment /\ a /\ c = 65 => active' = [active EXCEPT !.segment = TRUE, !.toggle = FALSE]
    BY <1>8, ServerCommands
  <2> QED BY <1>5, <2>1
<1>12. active.segment /\ Segment(frame) /\ ToggleBit(c) # active.toggle => dpc' = "sniff" /\ active'.result # "ok"
  BY <1>6, <1>7, <1>8
<1>13. active.segment /\ Segment(frame) /\ ToggleBit(c) = active.toggle =>
           IF LowBit(c) THEN dpc' = "sniff"
           ELSE active'.segment /\ active'.toggle = ~active.toggle /\ active'.result = "none"
  BY <1>5, <1>7, <1>8
<1> QED BY <1>9, <1>10, <1>11, <1>12, <1>13 DEF a

\* A frame of the polled node arrives when the poller and the observer are in step.
LEMMA InStepFrame ==
    ASSUME IInv, NotYetSent, LatestRequest, InStep, PollerHandleFrame, active # NoPoll, frame.node = Objects[obj].node,
           transfers[frame.node] # NoTransfer
    PROVE  LET t == transfers[frame.node]
           IN  /\ t.addr = Objects[obj].addr /\ active.result = "none" /\ (active.segment <=> t.uploadInitiated)
               /\ active.segment => t.toggle = active.toggle
<1>1. dpc = "poll" /\ ~acted /\ handling BY DEF PollerHandleFrame, acted, handling
<1>2. polling BY DEF IInv, ActiveIsOwned
<1>3. ppc \notin {"sniff", "send"} BY <1>1, StillSilent DEF silent
<1>4. seen(Objects[obj].node) = transfers[frame.node] BY <1>1 DEF seen
<1>5. transfers[frame.node].addr = Objects[obj].addr BY <1>2, <1>3 DEF LatestRequest, polling
<1> QED BY <1>3, <1>4, <1>5 DEF InStep

\* The poller and the observer make the same of a frame.
LEMMA PollerSync ==
    ASSUME IInv, OInv, UploadsOnly, LatestRequest, TransfersFollow, NotYetSent, OneRequest, InStep, PollerHandleFrame
    PROVE  LET o == ObserveOnChannel(transfers[frame.node], frame)
               u == o.transfer
           IN  /\ u = NoTransfer => dpc' = "sniff"
               /\ active # NoPoll /\ Objects[obj].node = frame.node =>
                      /\ u # NoTransfer => /\ active'.result = "none" /\ active'.segment
                                           /\ u.uploadInitiated /\ u.toggle = active'.toggle
                      /\ active'.result = "ok" => o.event.operation = "upload" /\ o.event.addr = Objects[obj].addr
               /\ u # NoTransfer => u.uploadInitiated
               /\ bus[frame.node] = << >> /\ \A p \in 1 .. Len(rx) : rx[p].node # frame.node
<1> DEFINE n == frame.node
           t == transfers[n]
           o == ObserveOnChannel(t, frame)
           more == Append(t.data, segmentData(frame))
           longer == [t EXCEPT !.data = more, !.toggle = ~@]
           begunUpload == [t EXCEPT !.uploadInitiated = TRUE]
<1>1. dpc = "poll" /\ handling /\ ~acted BY DEF PollerHandleFrame, acted, handling
<1>2. Served(frame) BY <1>1, UnreadFacts
<1>3. n \in Node BY <1>2, BusFramesHaveFields DEF Served
<1>4. IsFirst(unread, frame, rx)
  <2>1. rx \in Seq(BusFrame) BY DEF IInv, TypeOK
  <2> QED BY <1>1, <2>1, UnreadFacts DEF IsFirst
<1>5. seen(n) = t BY <1>1 DEF seen
<1>6. /\ Follows(n, t, unread, bus[n], server[n], samples, segmentsOf(n), sendingTo(n))
      /\ Alone(n, t, unread, bus[n], segmentsOf(n), sendingTo(n))
  BY <1>3, <1>5 DEF TransfersFollow, OneRequest
<1>7. /\ t # NoTransfer /\ bus[n] = << >> /\ \A p \in 1 .. Len(rx) : rx[p].node # n
      /\ ~t.uploadInitiated => frame.cmd \in {65, 67, 128} /\ frame.addr = t.addr
      /\ t.uploadInitiated => frame.cmd = 128 \/ Segment(frame)
  <2>1. Tracked(n, t, frame, unread, rx, bus[n], server[n], samples, segmentsOf(n), sendingTo(n)) BY <1>4, <1>6 DEF Tracked
  <2> HIDE DEF n, t
  <2> QED BY <2>1, OnlyFrame
<1>8. t \in Transfer BY <1>3, <1>7 DEF IInv, TypeOK
<1>9. t.operation = "upload" /\ t.direction = ServerToClient /\ (~t.uploadInitiated => ~t.toggle)
  BY <1>3, <1>7 DEF UploadsOnly, IsUpload
<1>10. /\ frame.cmd = 128 => o = Observed(NoTransfer, abortEvent(frame))
       /\ frame.cmd = 65 => o = Ignored(IF frame.addr = t.addr THEN begunUpload ELSE t)
       /\ frame.cmd = 67 => o = IF frame.addr = t.addr THEN Observed(NoTransfer, complete(t, expeditedData(frame))) ELSE Ignored(t)
       /\ Segment(frame) => o = IF ~t.uploadInitiated THEN Ignored(t)
                                ELSE IF ToggleBit(frame.cmd) # t.toggle THEN Ignored(NoTransfer)
                                ELSE IF LowBit(frame.cmd) THEN Observed(NoTransfer, complete(t, more))
                                ELSE Ignored(longer)
  BY <1>2, <1>8, <1>9, UploadObserved
<1>11. t.uploadInitiated \in BOOLEAN /\ t.toggle \in BOOLEAN BY <1>8 DEF Transfer
<1>12. begunUpload.uploadInitiated /\ begunUpload.toggle = t.toggle /\ begunUpload # NoTransfer
  BY <1>8 DEF Transfer, NoTransfer
<1>13. longer.uploadInitiated = t.uploadInitiated /\ longer.toggle = ~t.toggle /\ longer # NoTransfer
  BY <1>8 DEF Transfer, NoTransfer
<1>14. \A d : complete(t, d).operation = "upload" /\ complete(t, d).addr = t.addr BY <1>9 DEF complete
<1>15. active # NoPoll /\ Objects[obj].node = n =>
           /\ t.addr = Objects[obj].addr /\ active.result = "none" /\ (active.segment <=> t.uploadInitiated)
           /\ active.segment => t.toggle = active.toggle
  BY <1>7, InStepFrame
<1>16. ~(active # NoPoll /\ Objects[obj].node = n) => dpc' = "sniff" BY OtherFrame
<1> DEFINE own == active # NoPoll /\ Objects[obj].node = n
           synced == /\ o.transfer = NoTransfer => dpc' = "sniff"
                     /\ own => /\ o.transfer # NoTransfer => /\ active'.result = "none" /\ active'.segment
                                                             /\ o.transfer.uploadInitiated /\ o.transfer.toggle = active'.toggle
                               /\ active'.result = "ok" => o.event.operation = "upload" /\ o.event.addr = Objects[obj].addr
                     /\ o.transfer # NoTransfer => o.transfer.uploadInitiated
<1>17. own => LET c == frame.cmd
                  a == frame.addr = Objects[obj].addr
              IN  /\ c = 128 => dpc' = "sniff" /\ active'.result # "ok"
                  /\ ~active.segment /\ a /\ c = 67 => dpc' = "sniff"
                  /\ ~active.segment /\ a /\ c = 65 => active'.segment /\ ~active'.toggle /\ active'.result = "none"
                  /\ active.segment /\ Segment(frame) /\ ToggleBit(c) # active.toggle =>
                         dpc' = "sniff" /\ active'.result # "ok"
                  /\ active.segment /\ Segment(frame) /\ ToggleBit(c) = active.toggle =>
                         IF LowBit(c) THEN dpc' = "sniff"
                         ELSE active'.segment /\ active'.toggle = ~active.toggle /\ active'.result = "none"
  BY <1>15, OwnFrame
<1> HIDE DEF t, o, more, longer, begunUpload, n
<1>18. synced
  <2>1. CASE frame.cmd = 128
    <3>1. o.transfer = NoTransfer BY <1>10, <2>1, Outcome
    <3> QED BY <1>16, <1>17, <2>1, <3>1
  <2>2. CASE ~t.uploadInitiated /\ frame.cmd = 67
    <3>1. o.transfer = NoTransfer /\ o.event = complete(t, expeditedData(frame)) BY <1>7, <1>10, <2>2, Outcome
    <3> QED BY <1>7, <1>14, <1>15, <1>16, <1>17, <2>2, <3>1
  <2>3. CASE ~t.uploadInitiated /\ frame.cmd = 65
    <3>1. o.transfer = begunUpload /\ o.event = NoEvent BY <1>7, <1>10, <2>3, Outcome
    <3>2. own => active'.segment /\ ~active'.toggle /\ active'.result = "none" BY <1>7, <1>15, <1>17, <2>3
    <3>3. own => active' \in Poll
      <4>1. own => active' # NoPoll BY PollerEffect
      <4> QED BY <4>1, PollerHandleFrameIInv DEF IInv, TypeOK
    <3>4. own => active'.toggle = FALSE BY <3>2, <3>3 DEF Poll
    <3>5. begunUpload.toggle = FALSE BY <1>9, <1>11, <1>12, <2>3
    <3> QED BY <1>12, <3>1, <3>2, <3>4, <3>5
  <2>4. CASE t.uploadInitiated /\ Segment(frame) /\ ToggleBit(frame.cmd) # t.toggle
    <3>1. o.transfer = NoTransfer BY <1>10, <2>4, Outcome
    <3> QED BY <1>15, <1>16, <1>17, <2>4, <3>1
  <2>5. CASE t.uploadInitiated /\ Segment(frame) /\ ToggleBit(frame.cmd) = t.toggle /\ LowBit(frame.cmd)
    <3>1. o.transfer = NoTransfer /\ o.event = complete(t, more) BY <1>10, <2>5, Outcome
    <3> QED BY <1>14, <1>15, <1>16, <1>17, <2>5, <3>1
  <2>6. CASE t.uploadInitiated /\ Segment(frame) /\ ToggleBit(frame.cmd) = t.toggle /\ ~LowBit(frame.cmd)
    <3>1. o.transfer = longer BY <1>10, <2>6, Outcome
    <3>2. own => active'.segment /\ active'.toggle = ~active.toggle /\ active'.result = "none" BY <1>15, <1>17, <2>6
    <3>3. own => longer.toggle = active'.toggle BY <1>13, <1>15, <2>6, <3>2
    <3>4. longer # NoTransfer /\ longer.uploadInitiated BY <1>13, <2>6
    <3> QED BY <3>1, <3>2, <3>3, <3>4
  <2> QED BY <1>7, <2>1, <2>2, <2>3, <2>4, <2>5, <2>6
<1>19. o.transfer = NoTransfer => dpc' = "sniff" BY <1>18
<1>20. own => /\ o.transfer # NoTransfer => /\ active'.result = "none" /\ active'.segment
                                            /\ o.transfer.uploadInitiated /\ o.transfer.toggle = active'.toggle
              /\ active'.result = "ok" => o.event.operation = "upload" /\ o.event.addr = Objects[obj].addr
  BY <1>18
<1>21. o.transfer # NoTransfer => o.transfer.uploadInitiated BY <1>18
<1> QED BY <1>7, <1>19, <1>20, <1>21 DEF n, o, t

\* Fewer intentions of the poller are no harm.
LEMMA AloneWeaken ==
    ASSUME NEW n, NEW u, NEW q, NEW b, NEW seg, NEW snd, NEW seg2, NEW snd2,
           seg2 => seg, snd2 => snd, Alone(n, u, q, b, seg, snd)
    PROVE  Alone(n, u, q, b, seg2, snd2)
BY DEF Alone

\* Nor is a frame less.
LEMMA AloneDrop ==
    ASSUME NEW n, NEW u, NEW f, NEW q, NEW r, NEW b, NEW seg, NEW snd, IsFirst(q, f, r), Alone(n, u, q, b, seg, snd)
    PROVE  Alone(n, u, r, b, seg, snd)
<1>1. \A p \in 1 .. Len(r) : p + 1 \in 1 .. Len(q) /\ r[p] = q[p + 1] BY DEF IsFirst
<1>2. ASSUME u # NoTransfer, ~u.uploadInitiated, NEW p \in 1 .. Len(r), r[p].node = n
      PROVE  /\ b = << >> /\ r[p].cmd \in {65, 67, Abort} /\ r[p].addr = u.addr
             /\ \A i \in 1 .. Len(r) : r[i].node = n => i = p
  <2>1. /\ b = << >> /\ r[p].cmd \in {65, 67, Abort} /\ r[p].addr = u.addr
        /\ \A i \in 1 .. Len(q) : q[i].node = n => i = p + 1
    BY <1>1, <1>2 DEF Alone
  <2>2. \A i \in 1 .. Len(r) : i + 1 = p + 1 => i = p OBVIOUS
  <2> QED BY <1>1, <2>1, <2>2
<1> QED BY <1>1, <1>2 DEF Alone

\* Nor are the answers of another node.
LEMMA AloneOther ==
    ASSUME NEW n, NEW u, NEW q, NEW r, NEW b, NEW seg, NEW snd,
           \A p \in 1 .. Len(r) : (p \in 1 .. Len(q) /\ r[p] = q[p]) \/ r[p].node # n,
           Alone(n, u, q, b, seg, snd)
    PROVE  Alone(n, u, r, b, seg, snd)
BY DEF Alone

\* What silence means for the frames not yet looked at.
LEMMA SilentFacts ==
    ASSUME IInv, OInv, NEW n, silent(n)
    PROVE  /\ bus[n] = << >> /\ \A p \in 1 .. Len(unread) : unread[p].node # n
           /\ ~sendingTo(n) /\ seen(n) = transfers[n] /\ (handling => frame.node # n)
<1>1. /\ bus[n] = << >> /\ \A p \in 1 .. Len(rx) : rx[p].node # n
      /\ handling => frame.node # n
  BY DEF silent
<1>2. ~sendingTo(n) /\ seen(n) = transfers[n] BY <1>1 DEF sendingTo, sending, seen, acted, handling
<1>3. CASE dpc = "poll"
  <2>1. /\ Len(unread) = Len(rx) + 1 /\ unread[1] = frame /\ \A p \in 1 .. Len(rx) : unread[p + 1] = rx[p]
    BY <1>3, UnreadFacts
  <2>2. Len(rx) \in Nat BY DEF IInv, TypeOK
  <2>3. ASSUME NEW p \in 1 .. Len(unread), p # 1 PROVE unread[p].node # n
    <3>1. p - 1 \in 1 .. Len(rx) /\ (p - 1) + 1 = p BY <2>1, <2>2, <2>3
    <3>2. unread[(p - 1) + 1] = rx[p - 1] BY <2>1, <3>1
    <3> QED BY <1>1, <3>1, <3>2
  <2> QED BY <1>1, <1>2, <1>3, <2>1, <2>3 DEF handling
<1>4. CASE dpc # "poll" BY <1>1, <1>2, <1>4, UnreadFacts
<1> QED BY <1>3, <1>4

\* The observer has a transfer to follow before anything is under way for it.
LEMMA AloneSniffRequest ==
    ASSUME IInv, OInv, NotYetSent, FreshPoll, OneRequest, SniffRequest PROVE OneRequest'
<1> DEFINE n == Objects[obj].node
           t == newTransfer("upload", ServerToClient, Objects[obj].addr)
<1>1. UNCHANGED <<bus, active, frame, rx, dpc>> /\ ppc = "sniff" BY DEF SniffRequest, dispatcher, external
<1>2. transfers \in [Node -> Transfer \cup {NoTransfer}] /\ obj \in 1 .. Len(Objects) BY DEF IInv, TypeOK
<1>3. n \in Node BY <1>2, ObjectFacts
<1>4. t # NoTransfer BY DEF newTransfer, NoTransfer
<1>5. transfers'[n] = t /\ \A m \in Node : m # n => transfers'[m] = transfers[m] BY <1>2, <1>3, SniffRequestEffect
<1>6. silent(n) BY <1>1, StillSilent
<1>7. bus[n] = << >> /\ (\A p \in 1 .. Len(unread) : unread[p].node # n) /\ ~sendingTo(n) /\ (handling => frame.node # n)
  BY <1>6, SilentFacts
<1>8. \A m : ~segmentsOf(m) BY <1>1 DEF FreshPoll, segmentsOf
<1> HIDE DEF n, t
<1> SUFFICES ASSUME NEW m \in Node PROVE Alone(m, seen(m)', unread', bus'[m], segmentsOf(m)', sendingTo(m)')
  BY DEF OneRequest
<1>9. unread' = unread /\ segmentsOf(m)' = segmentsOf(m) /\ sendingTo(m)' = sendingTo(m)
  BY <1>1 DEF unread, segmentsOf, sendingTo, sending
<1>10. CASE m # n
  <2>1. seen(m)' = seen(m) BY <1>1, <1>5, <1>10 DEF seen, acted
  <2> QED BY <1>1, <1>9, <2>1 DEF OneRequest
<1>11. CASE m = n
  <2>1. seen(m)' = t BY <1>1, <1>5, <1>7, <1>11 DEF seen, acted, handling
  <2>2. Len(bus[n]) = 0 BY <1>7
  <2>3. Alone(m, t, unread, bus[m], segmentsOf(m), sendingTo(m)) BY <1>4, <1>7, <1>8, <1>11, <2>2 DEF Alone
  <2> QED BY <1>1, <1>9, <2>1, <2>3
<1> QED BY <1>10, <1>11

\* The request is the only frame under way.
LEMMA AloneSendRequest ==
    ASSUME IInv, OInv, LatestRequest, NotYetSent, FreshPoll, OneRequest, SendRequest PROVE OneRequest'
<1> DEFINE n == Objects[obj].node
           t == transfers[n]
<1>1. UNCHANGED <<active, transfers, frame, rx, dpc>> /\ ppc = "send" BY DEF SendRequest, dispatcher
<1>2. obj \in 1 .. Len(Objects) /\ bus \in [Node -> Seq(BusFrame)] BY DEF IInv, TypeOK
<1>3. n \in Node BY <1>2, ObjectFacts
<1>4. /\ request \in BusFrame /\ request.node = n /\ request.cmd = UploadRequest /\ request.addr = Objects[obj].addr
  BY <1>2, RequestType DEF request, ClientFrame
<1>5. /\ \A m \in Node : m # n => bus'[m] = bus[m]
      /\ bus'[n] = bus[n] \/ bus'[n] = Append(bus[n], request)
  BY <1>4, SendBus DEF SendRequest
<1>6. t # NoTransfer /\ ~t.uploadInitiated BY <1>1 DEF FreshPoll
<1>7. t.addr = Objects[obj].addr BY <1>1, <1>6 DEF LatestRequest
<1>8. silent(n) BY <1>1, StillSilent
<1>9. bus[n] = << >> /\ (\A p \in 1 .. Len(unread) : unread[p].node # n) /\ ~sendingTo(n) /\ seen(n) = t
  BY <1>8, SilentFacts
<1>10. ~segmentsOf(n)
  <2>1. Alone(n, t, unread, bus[n], segmentsOf(n), sendingTo(n)) BY <1>3, <1>9 DEF OneRequest
  <2> QED BY <1>6, <2>1 DEF Alone
<1>11. Len(bus'[n]) <= 1 /\ \A j \in 1 .. Len(bus'[n]) : bus'[n][j] = request
  <2>1. Len(bus[n]) = 0 /\ bus[n] \in Seq(BusFrame) BY <1>2, <1>3, <1>9
  <2>2. CASE bus'[n] = Append(bus[n], request)
    <3>1. Len(bus'[n]) = 1 /\ bus'[n][1] = request BY <1>4, <2>1, <2>2, AppendElements
    <3> QED BY <3>1
  <2> QED BY <1>5, <2>1, <2>2
<1> HIDE DEF n, t
<1>12. Alone(n, t, unread, bus'[n], segmentsOf(n), sendingTo(n))
  BY <1>4, <1>6, <1>7, <1>9, <1>10, <1>11 DEF Alone
<1> SUFFICES ASSUME NEW m \in Node PROVE Alone(m, seen(m)', unread', bus'[m], segmentsOf(m)', sendingTo(m)')
  BY DEF OneRequest
<1>13. /\ unread' = unread /\ seen(m)' = seen(m) /\ segmentsOf(m)' = segmentsOf(m) /\ sendingTo(m)' = sendingTo(m)
  BY <1>1 DEF unread, seen, acted, segmentsOf, sendingTo, sending
<1>14. CASE m # n BY <1>5, <1>13, <1>14 DEF OneRequest
<1>15. CASE m = n BY <1>9, <1>12, <1>13, <1>15
<1> QED BY <1>14, <1>15

\* Segments are only requested of a transfer that has been answered.
LEMMA AloneSegmentSend == ASSUME IInv, OneRequest, SegmentSend PROVE OneRequest'
<1> DEFINE n == frame.node
<1>1. UNCHANGED <<active, transfers, frame, rx>> /\ dpc = "segmentSend" /\ dpc' = "sniff" BY DEF SegmentSend
<1>2. active \in Poll /\ n = Objects[active.obj].node BY <1>1 DEF IInv, TypeOK, SegmentIsForActive, sending
<1>3. n \in Node BY <1>2, ObjectFacts DEF Poll
<1>4. segmentRequest \in BusFrame /\ segmentRequest.node = n BY <1>2, SegmentRequestType DEF segmentRequest, ClientFrame
<1>5. \A m \in Node : m # n => bus'[m] = bus[m] BY <1>4, SendBus DEF SegmentSend
<1>6. sendingTo(n) BY <1>1 DEF sendingTo, sending
<1>7. seen(n) # NoTransfer /\ seen(n).uploadInitiated
  <2>1. Alone(n, seen(n), unread, bus[n], segmentsOf(n), sendingTo(n)) BY <1>3 DEF OneRequest
  <2> QED BY <1>6, <2>1 DEF Alone
<1> HIDE DEF n
<1> SUFFICES ASSUME NEW m \in Node PROVE Alone(m, seen(m)', unread', bus'[m], segmentsOf(m)', sendingTo(m)')
  BY DEF OneRequest
<1>8. unread' = unread /\ seen(m)' = seen(m) /\ segmentsOf(m)' = segmentsOf(m) /\ ~sendingTo(m)'
  BY <1>1 DEF unread, seen, acted, segmentsOf, sendingTo, sending
<1>9. CASE m # n
  <2>1. Alone(m, seen(m), unread, bus[m], segmentsOf(m), sendingTo(m)) BY DEF OneRequest
  <2>2. Alone(m, seen(m), unread, bus[m], segmentsOf(m)', sendingTo(m)') BY <1>8, <2>1, AloneWeaken
  <2> QED BY <1>5, <1>8, <1>9, <2>2
<1>10. CASE m = n BY <1>7, <1>8, <1>10 DEF Alone
<1> QED BY <1>9, <1>10

\* The answer takes the place of the request.
LEMMA AloneServer ==
    ASSUME IInv, IInv', OneRequest, NEW n \in Node, ServerUpload(n) \/ ServerSegment(n) PROVE OneRequest'
<1> DEFINE h == bus[n][1]
           u == seen(n)
<1>1. UNCHANGED <<dpc, frame, transfers, active>> BY ServerFacts
<1>2. /\ bus[n] \in Seq(BusFrame) /\ bus[n] # << >> /\ bus'[n] = Tail(bus[n])
      /\ \A m \in Node : m # n => bus'[m] = bus[m]
  BY ServerStep
<1>3. PICK f \in BusFrame :
         /\ f.node = n /\ Reply(f)
         /\ h.cmd = UploadRequest => f.cmd \in {65, 67, Abort} /\ f.addr = h.addr
  BY ServerReply
<1>4. /\ Len(unread) \in Nat
      /\ \A p \in 1 .. Len(unread) : p \in 1 .. Len(unread') /\ unread'[p] = unread[p]
      /\ \A p \in 1 .. Len(unread') : p \in 1 .. Len(unread) \/ (p = Len(unread) + 1 /\ unread'[p] = f)
  BY <1>1, <1>3, ReplyUnread
<1>5. \A m \in Node : seen(m)' = seen(m) /\ segmentsOf(m)' = segmentsOf(m) /\ sendingTo(m)' = sendingTo(m)
  BY <1>1 DEF seen, acted, segmentsOf, sendingTo, sending
<1>6. Alone(n, u, unread, bus[n], segmentsOf(n), sendingTo(n)) BY DEF OneRequest
<1>7. u # NoTransfer BY <1>2, <1>6 DEF Alone
<1>8. Len(bus'[n]) = Len(bus[n]) - 1 /\ Len(bus[n]) \in Nat /\ 1 \in 1 .. Len(bus[n]) /\ bus'[n] \in Seq(BusFrame)
  BY <1>2, TailElements
<1> HIDE DEF u, h
<1>9. ASSUME ~u.uploadInitiated PROVE Alone(n, u, unread', bus'[n], segmentsOf(n), sendingTo(n))
  <2>1. /\ ~sendingTo(n) /\ ~segmentsOf(n) /\ Len(bus[n]) <= 1 /\ h.cmd = UploadRequest /\ h.addr = u.addr
        /\ \A p \in 1 .. Len(unread) : unread[p].node # n
    BY <1>2, <1>6, <1>7, <1>8, <1>9 DEF Alone, h
  <2>2. bus'[n] = << >> /\ Len(bus'[n]) = 0
    <3> DEFINE k == Len(bus[n])
               b == bus'[n]
    <3>1. k <= 1 /\ k \in Nat /\ 1 \in 1 .. k /\ Len(b) = k - 1 /\ b \in Seq(BusFrame) BY <1>8, <2>1
    <3> HIDE DEF k, b
    <3>2. Len(b) = 0 BY <3>1
    <3>3. b = << >> BY <3>1, <3>2
    <3> QED BY <3>2, <3>3 DEF b
  <2>3. f.cmd \in {65, 67, Abort} /\ f.addr = u.addr BY <1>3, <2>1
  <2>4. \A p \in 1 .. Len(unread') : unread'[p].node = n => p = Len(unread) + 1 /\ unread'[p] = f BY <1>4, <2>1
  <2> QED BY <1>7, <1>9, <2>1, <2>2, <2>3, <2>4 DEF Alone
<1>10. Alone(n, u, unread', bus'[n], segmentsOf(n), sendingTo(n)) BY <1>7, <1>9 DEF Alone
<1> SUFFICES ASSUME NEW m \in Node PROVE Alone(m, seen(m)', unread', bus'[m], segmentsOf(m)', sendingTo(m)')
  BY DEF OneRequest
<1>11. CASE m # n
  <2>1. Alone(m, seen(m), unread, bus[m], segmentsOf(m), sendingTo(m)) BY DEF OneRequest
  <2>2. \A p \in 1 .. Len(unread') : (p \in 1 .. Len(unread) /\ unread'[p] = unread[p]) \/ unread'[p].node # m
    BY <1>3, <1>4, <1>11
  <2>3. Alone(m, seen(m), unread', bus[m], segmentsOf(m), sendingTo(m)) BY <2>1, <2>2, AloneOther
  <2> QED BY <1>2, <1>5, <1>11, <2>3
<1>12. CASE m = n BY <1>5, <1>10, <1>12 DEF u
<1> QED BY <1>11, <1>12

\* A frame the poller has acted on was the only one of its node.
LEMMA AlonePoller ==
    ASSUME IInv, OInv, RequestsAreSent, UploadsOnly, LatestRequest, AnswersAreHonest, TransfersFollow,
           NotYetSent, OneRequest, InStep, PollerHandleFrame
    PROVE  OneRequest'
<1> DEFINE n == frame.node
           u == ObserveOnChannel(transfers[n], frame).transfer
<1>1. UNCHANGED <<frame, transfers, bus, rx>> /\ dpc = "poll" /\ dpc' \in {"sniff", "segmentSniff"} BY PollerEffect
<1>2. handling /\ ~acted /\ acted' /\ unread' = rx BY <1>1 DEF handling, acted, unread
<1>3. IsFirst(unread, frame, rx)
  <2>1. rx \in Seq(BusFrame) BY DEF IInv, TypeOK
  <2> QED BY <1>1, <2>1, UnreadFacts DEF IsFirst
<1>4. /\ u = NoTransfer => dpc' = "sniff"
      /\ u # NoTransfer => u.uploadInitiated
      /\ bus[n] = << >> /\ \A p \in 1 .. Len(rx) : rx[p].node # n
  BY PollerSync
<1> SUFFICES ASSUME NEW m \in Node PROVE Alone(m, seen(m)', unread', bus'[m], segmentsOf(m)', sendingTo(m)')
  BY DEF OneRequest
<1>5. CASE m # n
  <2>1. seen(m)' = transfers[m] /\ seen(m) = transfers[m] /\ ~sendingTo(m)' BY <1>1, <1>2, <1>5 DEF seen, sendingTo
  <2>2. segmentsOf(m)' => segmentsOf(m) BY <1>5, SegmentsBegin
  <2>3. Alone(m, seen(m), unread, bus[m], segmentsOf(m), sendingTo(m)) BY DEF OneRequest
  <2>4. Alone(m, seen(m), rx, bus[m], segmentsOf(m), sendingTo(m)) BY <1>3, <2>3, AloneDrop
  <2>5. Alone(m, seen(m), rx, bus[m], segmentsOf(m)', sendingTo(m)')
    <3>1. (segmentsOf(m)' => segmentsOf(m)) /\ (sendingTo(m)' => sendingTo(m)) BY <2>1, <2>2
    <3> QED BY <2>4, <3>1, AloneWeaken
  <2> QED BY <1>1, <1>2, <2>1, <2>5
<1>6. CASE m = n
  <2>1. seen(m)' = u BY <1>1, <1>2, <1>6 DEF seen
  <2>2. u = NoTransfer => ~sendingTo(m)' BY <1>4 DEF sendingTo, sending
  <2> HIDE DEF n, u
  <2>3. Alone(m, u, rx, bus[m], segmentsOf(m)', sendingTo(m)') BY <1>4, <1>6, <2>2 DEF Alone
  <2> QED BY <1>1, <1>2, <2>1, <2>3
<1> QED BY <1>5, <1>6

\* Every step leaves at most one frame under way for each transfer.
LEMMA AloneStep ==
    ASSUME IInv, IInv', OInv, WInv, NotYetSent, FreshPoll, OneRequest, InStep, [Next]_vars PROVE OneRequest'
<1> USE DEF WInv
<1>1. CASE SniffRequest BY <1>1, AloneSniffRequest
<1>2. CASE SendRequest BY <1>2, AloneSendRequest
<1>3. CASE SegmentSend BY <1>3, AloneSegmentSend
<1>4. CASE PollerHandleFrame BY <1>4, AlonePoller
<1>5. CASE \E n \in Node : ServerUpload(n) \/ ServerSegment(n) BY <1>5, AloneServer
<1>6. CASE /\ ~SniffRequest /\ ~SendRequest /\ ~SegmentSend /\ ~PollerHandleFrame
           /\ ~\E n \in Node : ServerUpload(n) \/ ServerSegment(n)
  <2>1. /\ bus' = bus /\ unread' = unread
        /\ \A n \in Node : seen(n)' = seen(n) /\ (segmentsOf(n)' => segmentsOf(n)) /\ (sendingTo(n)' => sendingTo(n))
    BY <1>6, QuietMove
  <2> SUFFICES ASSUME NEW m \in Node PROVE Alone(m, seen(m)', unread', bus'[m], segmentsOf(m)', sendingTo(m)')
    BY DEF OneRequest
  <2>2. Alone(m, seen(m), unread, bus[m], segmentsOf(m), sendingTo(m)) BY DEF OneRequest
  <2>3. Alone(m, seen(m), unread, bus[m], segmentsOf(m)', sendingTo(m)') BY <2>1, <2>2, AloneWeaken
  <2> QED BY <2>1, <2>3
<1> QED BY <1>1, <1>2, <1>3, <1>4, <1>5, <1>6

\* The poller and the observer stay in step.
LEMMA InStepStep ==
    ASSUME IInv, IInv', OInv, WInv, NotYetSent, FreshPoll, OneRequest, InStep, [Next]_vars PROVE InStep'
<1> USE DEF WInv
<1> DEFINE n == Objects[obj].node
<1>0. obj \in 1 .. Len(Objects) /\ transfers \in [Node -> Transfer \cup {NoTransfer}] BY DEF IInv, TypeOK
<1>1. n \in Node BY <1>0, ObjectFacts
<1> SUFFICES ASSUME active' # NoPoll, ppc' # "sniff", seen(Objects[obj].node)' # NoTransfer
             PROVE  /\ active'.result = "none" /\ (active'.segment <=> seen(Objects[obj].node)'.uploadInitiated)
                    /\ active'.segment => seen(Objects[obj].node)'.toggle = active'.toggle
  BY DEF InStep
<1>2. ppc' \in {"send", "wait", "clear"} BY DEF IInv, ActiveIsOwned, polling
<1>3. CASE SniffRequest
  <2> DEFINE t == newTransfer("upload", ServerToClient, Objects[obj].addr)
  <2>1. UNCHANGED <<obj, active, dpc, frame>> /\ ppc = "sniff" BY <1>3 DEF SniffRequest, dispatcher
  <2>2. transfers'[n] = t BY <1>0, <1>1, <1>3, SniffRequestEffect
  <2>3. handling => frame.node # n BY <2>1, StillSilent DEF silent
  <2>4. ~t.uploadInitiated BY DEF newTransfer
  <2> HIDE DEF t
  <2>5. seen(Objects[obj].node)' = t BY <2>1, <2>2, <2>3 DEF seen, acted, handling
  <2> QED BY <2>1, <2>4, <2>5 DEF FreshPoll
<1>4. CASE ~SniffRequest
  <2>1. obj' = obj /\ ppc \in {"send", "wait", "clear"} BY <1>2, <1>4, WaitingStep
  <2>2. active # NoPoll BY <2>1 DEF IInv, ActiveIsOwned, polling
  <2>3. CASE PollerHandleFrame
    <3>1. UNCHANGED <<frame, transfers>> /\ dpc = "poll" /\ dpc' \in {"sniff", "segmentSniff"} BY <2>3, PollerEffect
    <3>2. ~acted /\ acted' BY <3>1 DEF acted
    <3>3. CASE frame.node = n
      <4> DEFINE u == ObserveOnChannel(transfers[frame.node], frame).transfer
      <4>1. u # NoTransfer => active'.result = "none" /\ active'.segment /\ u.uploadInitiated /\ u.toggle = active'.toggle
        BY <2>2, <2>3, <3>3, PollerSync
      <4>2. seen(Objects[obj].node)' = u BY <2>1, <3>1, <3>2, <3>3 DEF seen
      <4> HIDE DEF u
      <4> QED BY <4>1, <4>2
    <3>4. CASE frame.node # n
      <4>1. active' = active BY <2>3, <3>4, OtherFrame
      <4>2. seen(Objects[obj].node)' = seen(n) BY <2>1, <3>1, <3>2, <3>4 DEF seen
      <4> QED BY <2>1, <2>2, <4>1, <4>2 DEF InStep
    <3> QED BY <3>3, <3>4
  <2>4. CASE ~PollerHandleFrame
    <3>1. active' = active
      <4>1. ~Activate BY DEF Activate
      <4>2. ~Conclude BY DEF Conclude
      <4> QED BY <2>4, <4>1, <4>2, ActiveQuiet
    <3>2. seen(Objects[obj].node)' = seen(n)
      <4>1. CASE SendRequest BY <4>1 DEF SendRequest, dispatcher, seen, acted
      <4>2. CASE SegmentSend BY <4>2 DEF SegmentSend, poller, seen, acted
      <4>3. CASE \E m \in Node : ServerUpload(m) \/ ServerSegment(m)
        <5>1. UNCHANGED <<dpc, frame, transfers, obj>> BY <4>3, ServerFacts
        <5> QED BY <5>1 DEF seen, acted
      <4>4. CASE ~SendRequest /\ ~SegmentSend /\ ~\E m \in Node : ServerUpload(m) \/ ServerSegment(m)
        <5>1. \A m \in Node : seen(m)' = seen(m) BY <1>4, <2>4, <4>4, QuietMove
        <5> QED BY <1>1, <2>1, <5>1
      <4> QED BY <4>1, <4>2, <4>3, <4>4
    <3> QED BY <2>1, <2>2, <3>1, <3>2 DEF InStep
  <2> QED BY <2>3, <2>4
<1> QED BY <1>3, <1>4

\* What has been reported, or will be, stays so.
LEMMA ReportedStays ==
    ASSUME IInv, OInv, NotYetSent, [Next]_vars, NEW i \in 1 .. Len(Objects), Reported(i) PROVE Reported(i)'
<1> DEFINE Is(x) == x.node = Objects[i].node /\ x.event.addr = Objects[i].addr
           x == [node |-> frame.node, event |-> pending]
<1>0. builder \in Seq(Value) /\ consumed \in Seq(Value) BY DEF IInv, TypeOK
<1>1. SUFFICES \/ \E k \in 1 .. Len(builder') : Is(builder'[k])
               \/ \E k \in 1 .. Len(consumed') : Is(consumed'[k])
               \/ /\ acted' /\ frame'.node = Objects[i].node
                  /\ pending'.operation = "upload" /\ pending'.addr = Objects[i].addr
  BY DEF Reported
<1>2. \/ \E k \in 1 .. Len(builder) : Is(builder[k])
      \/ \E k \in 1 .. Len(consumed) : Is(consumed[k])
      \/ acted /\ pending.operation = "upload" /\ Is(x) /\ frame.node = Objects[i].node
  BY DEF Reported
<1>3. Is(x) => pending.addr = Objects[i].addr OBVIOUS
<1>4. CASE SniffFrame
  <2>1. builder' = (IF pending.operation \in {"upload", "download"} THEN Append(builder, x) ELSE builder) /\ consumed' = consumed
    BY <1>4 DEF SniffFrame, HandleFrame, pending
  <2>2. CASE pending.operation \in {"upload", "download"}
    <3>1. x \in Value
      <4>1. frame \in BusFrame /\ frame.node \in Node BY <1>4, BusFramesHaveFields DEF SniffFrame, IInv, FrameIsHeld, handling
      <4>2. transfers[frame.node] \in Transfer \cup {NoTransfer} BY <4>1 DEF IInv, TypeOK
      <4>3. pending \in Event \cup {NoEvent} BY <4>1, <4>2, BusFramesHaveFields, ObserveType DEF pending
      <4>4. pending \in Event BY <2>2, <4>3, Outcome
      <4> QED BY <4>1, <4>4 DEF Value
    <3> HIDE DEF x, Is
    <3>2. /\ Len(builder) + 1 \in 1 .. Len(builder') /\ builder'[Len(builder) + 1] = x
          /\ \A k \in 1 .. Len(builder) : k \in 1 .. Len(builder') /\ builder'[k] = builder[k]
      BY <1>0, <2>1, <2>2, <3>1, AppendElements
    <3> QED BY <1>2, <2>1, <3>2
  <2>3. CASE pending.operation \notin {"upload", "download"}
    <3> HIDE DEF x, Is
    <3> QED BY <1>2, <2>1, <2>3
  <2> QED BY <2>2, <2>3
<1>5. CASE Flush
  <2>1. consumed' = consumed \o builder /\ ~acted BY <1>5 DEF Flush, acted
  <2> HIDE DEF x, Is
  <2>2. \A k \in 1 .. Len(consumed) : k \in 1 .. Len(consumed') /\ consumed'[k] = consumed[k]
    BY <1>0, <2>1, ConcatProperties
  <2>3. \A k \in 1 .. Len(builder) : Len(consumed) + k \in 1 .. Len(consumed') /\ consumed'[Len(consumed) + k] = builder[k]
    BY <1>0, <2>1, ConcatProperties
  <2> QED BY <1>2, <2>1, <2>2, <2>3
<1>6. CASE ~SniffFrame /\ ~Flush
  <2>1. UNCHANGED <<builder, consumed>> BY <1>6, OutputQuiet
  <2>2. acted => acted' /\ frame' = frame
    <3> USE DEF acted
    <3>1. CASE PollerStep
      BY <3>1 DEF PollerStep, Activate, SniffRequest, SendRequest, Await, Conclude, BackoffElapsed, IntervalElapsed, dispatcher
    <3>2. CASE DispatcherStep
      BY <1>6, <3>2 DEF DispatcherStep, DispatchTop, Recv, PollerHandleFrame, SegmentSniff, SegmentSend
    <3>3. CASE \E n \in Node : ServerUpload(n) \/ ServerSegment(n) BY <3>3, ServerFacts
    <3> QED BY <3>1, <3>2, <3>3 DEF Next, Stopped, Cancel, CloseConn, dispatcher, vars
  <2>3. acted => pending' = pending
    <3> SUFFICES ASSUME acted PROVE pending' = pending OBVIOUS
    <3>1. handling /\ frame' = frame BY <2>2 DEF acted, handling
    <3>2. CASE SniffRequest
      <4>1. frame.node # Objects[obj].node BY <3>1, <3>2, StillSilent DEF silent, SniffRequest
      <4>2. frame.node \in Node BY <3>1, BusFramesHaveFields DEF IInv, FrameIsHeld
      <4>3. transfers \in [Node -> Transfer \cup {NoTransfer}] BY DEF IInv, TypeOK
      <4>4. transfers'[frame.node] = transfers[frame.node] BY <3>2, <4>1, <4>2, <4>3, SniffRequestEffect
      <4> QED BY <3>1, <4>4 DEF pending
    <3> QED BY <1>6, <3>1, <3>2, TransfersQuiet DEF pending
  <2> HIDE DEF Is
  <2> QED BY <1>2, <1>3, <2>1, <2>2, <2>3 DEF Is
<1> QED BY <1>4, <1>5, <1>6

\* A poll succeeds with the frame that completes its transfer.
LEMMA ReportedStep ==
    ASSUME IInv, IInv', OInv, WInv, NotYetSent, FreshPoll, OneRequest, InStep, SuccessIsReported, [Next]_vars
    PROVE  SuccessIsReported'
<1> USE DEF WInv
<1>0. obj \in 1 .. Len(Objects) /\ active \in Poll \cup {NoPoll} /\ succeeded \subseteq 1 .. Len(Objects) BY DEF IInv, TypeOK
<1>1. \A i \in 1 .. Len(Objects) : Reported(i) => Reported(i)' BY ReportedStays
<1>2. active # NoPoll => active.obj = obj BY DEF IInv, ActiveIsOwned
<1>3. ASSUME active' # NoPoll, active'.result = "ok" PROVE Reported(active.obj)'
  <2>1. CASE Activate BY <1>3, <2>1 DEF Activate
  <2>2. CASE Conclude BY <1>3, <2>2 DEF Conclude
  <2>3. CASE PollerHandleFrame
    <3>1. active # NoPoll /\ active'.obj = obj BY <1>2, <1>3, <2>3, PollerEffect
    <3>2. CASE frame.node = Objects[obj].node
      <4> DEFINE e == ObserveOnChannel(transfers[frame.node], frame).event
      <4>1. e.operation = "upload" /\ e.addr = Objects[obj].addr BY <1>3, <2>3, <3>1, <3>2, PollerSync
      <4>2. UNCHANGED <<frame, transfers>> /\ dpc' \in {"sniff", "segmentSniff"} BY <2>3, PollerEffect
      <4>3. pending' = e /\ acted' BY <4>2 DEF pending, acted
      <4> HIDE DEF e
      <4> QED BY <3>1, <3>2, <4>1, <4>2, <4>3 DEF Reported
    <3>3. CASE frame.node # Objects[obj].node
      <4>1. active' = active BY <2>3, <3>3, OtherFrame
      <4>2. Reported(obj) BY <1>2, <1>3, <4>1 DEF SuccessIsReported
      <4> QED BY <1>0, <1>1, <3>1, <4>2 DEF Reported
    <3> QED BY <3>2, <3>3
  <2>4. CASE ~Activate /\ ~Conclude /\ ~PollerHandleFrame
    <3>1. active' = active BY <2>4, ActiveQuiet
    <3>2. Reported(active.obj) /\ active.obj \in 1 .. Len(Objects) BY <1>0, <1>2, <1>3, <3>1 DEF SuccessIsReported
    <3> QED BY <1>1, <3>1, <3>2 DEF Reported
  <2> QED BY <2>1, <2>2, <2>3, <2>4
<1>4. ASSUME outcome' = "ok" PROVE ppc' = "clear" /\ Reported(obj)'
  <2>1. CASE Await
    <3>1. active # NoPoll BY <2>1 DEF Await, IInv, ActiveIsOwned, polling
    <3>2. active.result = "ok" /\ obj' = obj /\ ppc' = "clear" BY <1>4, <2>1 DEF Await
    <3>3. Reported(obj) BY <1>2, <3>1, <3>2 DEF SuccessIsReported
    <3> QED BY <1>0, <1>1, <3>2, <3>3 DEF Reported
  <2>2. CASE ~Await
    <3>1. outcome = "ok" /\ ppc' = ppc /\ obj' = obj
      <4> USE DEF poller, vars
      <4>1. outcome = "ok" => ppc = "clear" BY DEF SuccessIsReported
      <4>2. CASE PollerStep
        BY <1>4, <2>2, <4>1, <4>2 DEF PollerStep, Activate, SniffRequest, SendRequest, Conclude, BackoffElapsed, IntervalElapsed
      <4>3. CASE DispatcherStep
        BY <1>4, <4>3 DEF DispatcherStep, DispatchTop, Recv, PollerHandleFrame, SegmentSniff, SegmentSend, SniffFrame, Flush
      <4>4. CASE \E n \in Node : ServerUpload(n) \/ ServerSegment(n) BY <1>4, <4>4 DEF ServerUpload, ServerSegment
      <4> QED BY <1>4, <4>2, <4>3, <4>4 DEF Next, Stopped, Cancel, CloseConn
    <3>2. ppc = "clear" /\ Reported(obj) BY <3>1 DEF SuccessIsReported
    <3> QED BY <1>0, <1>1, <3>1, <3>2 DEF Reported
  <2> QED BY <2>1, <2>2
<1>5. ASSUME NEW i \in succeeded' PROVE Reported(i)'
  <2>1. CASE i \in succeeded BY <1>0, <1>1, <2>1 DEF SuccessIsReported
  <2>2. CASE i \notin succeeded
    <3>1. Conclude
      <4> USE DEF vars
      <4>1. CASE PollerStep
        BY <1>5, <2>2, <4>1 DEF PollerStep, Activate, SniffRequest, SendRequest, Await, BackoffElapsed, IntervalElapsed
      <4>2. CASE DispatcherStep
        BY <1>5, <2>2, <4>2 DEF DispatcherStep, DispatchTop, Recv, PollerHandleFrame, SegmentSniff, SegmentSend, SniffFrame, Flush
      <4>3. CASE \E n \in Node : ServerUpload(n) \/ ServerSegment(n) BY <1>5, <2>2, <4>3 DEF ServerUpload, ServerSegment
      <4> QED BY <1>5, <2>2, <4>1, <4>2, <4>3 DEF Next, Stopped, Cancel, CloseConn
    <3>2. i = obj /\ outcome = "ok" BY <1>5, <2>2, <3>1 DEF Conclude
    <3>3. Reported(i) BY <3>2 DEF SuccessIsReported
    <3> QED BY <1>0, <1>1, <3>2, <3>3
  <2> QED BY <2>1, <2>2
<1> QED BY <1>3, <1>4, <1>5 DEF SuccessIsReported

\* EInv is inductive.
LEMMA EmissionInductive ==
    ASSUME Once, OneObjectPerNode PROVE IInv /\ IInv' /\ OInv /\ WInv /\ EInv /\ [Next]_vars => EInv'
<1> SUFFICES ASSUME IInv, IInv', OInv, WInv, EInv, [Next]_vars PROVE EInv' OBVIOUS
<1> USE DEF EInv
<1>1. NotYetSent' BY SilentStep DEF WInv
<1>2. FreshPoll' BY FreshStep
<1>3. OneRequest' /\ InStep' BY AloneStep, InStepStep
<1>4. SuccessIsReported' BY ReportedStep
<1> QED BY <1>1, <1>2, <1>3, <1>4

\* EInv holds initially.
LEMMA InitEInv == Init => EInv
<1> SUFFICES ASSUME Init PROVE EInv OBVIOUS
<1>1. ~acted /\ ~handling /\ ~sending BY DEF Init, acted, handling, sending
<1>2. \A n \in Node : seen(n) = NoTransfer /\ transfers[n] = NoTransfer /\ ~sendingTo(n) /\ bus[n] = << >>
  BY <1>1 DEF Init, seen, sendingTo
<1>3. unread = << >> /\ Len(unread) = 0 /\ Len(rx) = 0 BY DEF Init, unread
<1>4. NotYetSent BY <1>1, <1>2, <1>3, ObjectFacts DEF NotYetSent, silent
<1>5. OneRequest BY <1>2, <1>3 DEF OneRequest, Alone
<1>6. FreshPoll /\ InStep /\ SuccessIsReported BY DEF Init, FreshPoll, InStep, SuccessIsReported
<1> QED BY <1>4, <1>5, <1>6 DEF EInv

(* Polling one object of each node once, a poll that succeeds has its      *)
(* value emitted: the frame that completes the poll also completes the     *)
(* observer's transfer, although the two keep their own copy of where the  *)
(* transfer is (handleFrame, sendPollFrame, observeServer).                *)
THEOREM OnceSuccessIsEmitted == ASSUME Once, OneObjectPerNode PROVE Spec => []SuccessfulPollsAreEmitted
<1>1. IInv /\ EInv => SuccessfulPollsAreEmitted
  <2> SUFFICES ASSUME IInv, EInv, dpc \in {"top", "recv", "done"}, NEW i \in succeeded
               PROVE  \E k \in 1 .. Len(builder \o consumed) :
                          /\ (builder \o consumed)[k].node = Objects[i].node
                          /\ (builder \o consumed)[k].event.addr = Objects[i].addr
    BY DEF SuccessfulPollsAreEmitted, IsEmitted, emitted
  <2> DEFINE Is(x) == x.node = Objects[i].node /\ x.event.addr = Objects[i].addr
  <2>1. builder \in Seq(Value) /\ consumed \in Seq(Value) BY DEF IInv, TypeOK
  <2>2. Reported(i) /\ ~acted BY DEF EInv, SuccessIsReported, acted
  <2>3. (\E k \in 1 .. Len(builder) : Is(builder[k])) \/ (\E k \in 1 .. Len(consumed) : Is(consumed[k]))
    BY <2>2 DEF Reported
  <2> HIDE DEF Is
  <2>4. \A k \in 1 .. Len(builder) : k \in 1 .. Len(builder \o consumed) /\ (builder \o consumed)[k] = builder[k]
    BY <2>1, ConcatProperties
  <2>5. \A k \in 1 .. Len(consumed) : /\ Len(builder) + k \in 1 .. Len(builder \o consumed)
                                     /\ (builder \o consumed)[Len(builder) + k] = consumed[k]
    BY <2>1, ConcatProperties
  <2>6. \E k \in 1 .. Len(builder \o consumed) : Is((builder \o consumed)[k]) BY <2>3, <2>4, <2>5
  <2> QED BY <2>6 DEF Is
<1>2. IInv /\ IInv' /\ AInv /\ OInv /\ WInv /\ [Next]_vars => WInv' BY WholeInductive
<1>3. IInv /\ IInv' /\ OInv /\ WInv /\ EInv /\ [Next]_vars => EInv' BY EmissionInductive
<1> QED
  BY <1>1, <1>2, <1>3, InitIInv, Inductive, InitAInv, AnswersInductive, InitOInv, OrderInductive, InitWInv, InitEInv, PTL
  DEF Spec
=============================================================================
