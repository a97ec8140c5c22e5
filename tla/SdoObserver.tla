---------------------------- MODULE SdoObserver ----------------------------
(***************************************************************************)
(* The passive SDO observer (internal/sdoobserver): one reassembly state   *)
(* per channel, fed with whatever frames the bus carries.  Nothing is      *)
(* assumed about the frames: client and server may be confused, several    *)
(* clients may share a channel, frames may be lost, repeated or truncated. *)
(*                                                                         *)
(* seen is a history variable: what the channel has carried so far.  It    *)
(* lets the properties say which frames an event was put together from.    *)
(***************************************************************************)
EXTENDS SdoTransfer, FiniteSets

CONSTANTS Channels,     \* channel keys
          Frames,       \* the frames the bus may carry
          MaxFrames     \* bound: frames observed per channel

ASSUME FramesAssumption == Frames \subseteq SdoFrame
ASSUME MaxFramesAssumption == MaxFrames \in Nat

VARIABLES transfers,    \* Observer.transfers: channel key -> transfer in progress
          event,        \* per channel: the event the last observation returned
          seen          \* history: the frames observed on each channel

vars == <<transfers, event, seen>>

TypeOK ==
    /\ transfers \in [Channels -> Transfer \cup {NoTransfer}]
    /\ event \in [Channels -> Event \cup {NoEvent}]
    /\ seen \in [Channels -> Seq(Frames)]

New ==
    /\ transfers = [ch \in Channels |-> NoTransfer]
    /\ event = [ch \in Channels |-> NoEvent]
    /\ seen = [ch \in Channels |-> << >>]

Observe(ch, f) ==
    /\ Len(seen[ch]) < MaxFrames
    /\ LET o == ObserveOnChannel(transfers[ch], f)
       IN  /\ transfers' = [transfers EXCEPT ![ch] = o.transfer]
           /\ event' = [event EXCEPT ![ch] = o.event]
    /\ seen' = [seen EXCEPT ![ch] = Append(@, f)]

Next == \E ch \in Channels, f \in Frames : Observe(ch, f)

Spec == New /\ [][Next]_vars

-----------------------------------------------------------------------------
(* What a completed transfer is, said of the frames alone.                 *)

Whole(f) == f.len = sdoFrameLength

\* The client frames that start a transfer the observer has to reassemble.
Opens(f, op) ==
    /\ Whole(f) /\ f.dir = ClientToServer
    /\ CASE op = "upload"   -> f.cmd = UploadRequest
         [] op = "download" -> f.cmd # UploadRequest /\ Specifier(f.cmd) = 1 /\ ~ExpeditedBit(f.cmd)

Aborts(f) == Whole(f) /\ f.dir = ServerToClient /\ f.cmd = Abort

\* A server's answer to the upload request of object a.
Answers(f, a) == Whole(f) /\ f.dir = ServerToClient /\ Specifier(f.cmd) = 2 /\ f.addr = a

DataDirection(op) == IF op = "upload" THEN ServerToClient ELSE ClientToServer

IsSegment(f, op) == Whole(f) /\ f.dir = DataDirection(op) /\ Specifier(f.cmd) = 0

(* Frame r opened transfer op, no later frame opened another or aborted    *)
(* it, and no frame before the last answered it with expedited data.       *)
OpenSince(h, r, op) ==
    /\ Opens(h[r], op)
    /\ \A k \in r + 1 .. Len(h) : ~Opens(h[k], "upload") /\ ~Opens(h[k], "download") /\ ~Aborts(h[k])
    /\ op = "upload" => \A k \in r + 1 .. Len(h) - 1 : ~(Answers(h[k], h[r].addr) /\ ExpeditedBit(h[k].cmd))

(* Segments are accepted from frame s on: the first matching initiation    *)
(* response of an upload, the opening frame itself of a download.          *)
AcceptsFrom(h, r, s, op) ==
    IF op = "upload" THEN /\ s > r /\ Answers(h[s], h[r].addr) /\ ~ExpeditedBit(h[s].cmd)
                          /\ \A k \in r + 1 .. s - 1 : ~Answers(h[k], h[r].addr)
                     ELSE s = r

(* data are the payloads of the frames pos[1] < pos[2] < ..., which are    *)
(* all the segments after frame s; their toggle bits alternate from 0.     *)
Segments(h, s, pos, op, data) ==
    /\ \A i \in 1 .. Len(data) : /\ pos[i] > s
                                 /\ IsSegment(h[pos[i]], op)
                                 /\ ToggleBit(h[pos[i]].cmd) <=> i % 2 = 0
                                 /\ data[i] = segmentData(h[pos[i]])
    /\ \A i \in 1 .. Len(data) - 1 : pos[i] < pos[i + 1] /\ ~LowBit(h[pos[i]].cmd)
    /\ \A k \in s + 1 .. Len(h) : IsSegment(h[k], op) => \E i \in 1 .. Len(data) : pos[i] = k

(* Event e is a segmented transfer that the last frame of h completes.     *)
SegmentedFrom(h, e, r, s, pos) ==
    /\ OpenSince(h, r, e.operation)
    /\ AcceptsFrom(h, r, s, e.operation)
    /\ Segments(h, s, pos, e.operation, e.data)
    /\ Len(e.data) > 0 /\ pos[Len(e.data)] = Len(h) /\ LowBit(h[Len(h)].cmd)
    /\ e.direction = DataDirection(e.operation) /\ e.addr = h[r].addr

(* Event e is an expedited transfer: the last frame of h carries the data. *)
ExpeditedUpload(h, e, r) ==
    /\ OpenSince(h, r, "upload")
    /\ Answers(h[Len(h)], h[r].addr) /\ ExpeditedBit(h[Len(h)].cmd)
    /\ e = [operation |-> "upload", direction |-> ServerToClient,
            addr |-> h[r].addr, data |-> expeditedData(h[Len(h)])]

ExpeditedDownload(h, e) ==
    LET f == h[Len(h)]
    IN  /\ Whole(f) /\ f.dir = ClientToServer /\ Specifier(f.cmd) = 1 /\ ExpeditedBit(f.cmd)
        /\ e = [operation |-> "download", direction |-> ClientToServer,
                addr |-> f.addr, data |-> expeditedData(f)]

(* Event e is a transfer that the frames of h really make up.              *)
Genuine(h, e) ==
    \/ ExpeditedDownload(h, e)
    \/ \E r \in 1 .. Len(h) :
        \/ ExpeditedUpload(h, e, r)
        \/ \E s \in r .. Len(h) : \E pos \in [1 .. Len(e.data) -> 1 .. Len(h)] :
               SegmentedFrom(h, e, r, s, pos)

(* Every completed transfer the observer reports is one that the channel   *)
(* really carried: an upload answers the last request of that very object, *)
(* its data are all the segments since the matching initiation response,   *)
(* in order, with alternating toggle bits and no other transfer's segments *)
(* among them (ObserveOnChannel; README: "Upload initiation responses must *)
(* match the pending request's index and subindex ... upload segments are  *)
(* accepted only after a matching initiation response").                   *)
EventsAreGenuine ==
    \A ch \in Channels :
        event[ch].operation \in {"upload", "download"} => Genuine(seen[ch], event[ch])

(* The same of the transfer in progress: it is the last one opened, still  *)
(* open, with all its segments so far.  This is the inductive invariant    *)
(* behind EventsAreGenuine.                                                *)
Tracked(h, t, r) ==
    /\ OpenSince(h, r, t.operation) /\ h[r].addr = t.addr
    /\ t.direction = DataDirection(t.operation)
    /\ t.operation = "upload" /\ h # << >> => ~(Answers(h[Len(h)], t.addr) /\ ExpeditedBit(h[Len(h)].cmd))
    /\ IF t.operation = "upload" /\ ~t.uploadInitiated
       THEN t.data = << >> /\ ~t.toggle /\ \A k \in r + 1 .. Len(h) : ~Answers(h[k], t.addr)
       ELSE \E s \in r .. Len(h) : \E pos \in [1 .. Len(t.data) -> 1 .. Len(h)] :
              /\ AcceptsFrom(h, r, s, t.operation)
              /\ Segments(h, s, pos, t.operation, t.data)
              /\ \A i \in 1 .. Len(t.data) : ~LowBit(h[pos[i]].cmd)
              /\ t.toggle <=> Len(t.data) % 2 = 1

TransfersAreTracked ==
    \A ch \in Channels :
        transfers[ch] # NoTransfer => \E r \in 1 .. Len(seen[ch]) : Tracked(seen[ch], transfers[ch], r)

(* Conversely no completed transfer goes unreported: when the frames since *)
(* the last opening form a whole transfer, the last observation returned   *)
(* it.  In particular a mismatched answer or a stray segment in between is *)
(* "ignored without clearing the request" (README; observeServer).         *)
NoTransferIsMissed ==
    \A ch \in Channels : LET h == seen[ch] IN \A r \in 1 .. Len(h) :
        /\ LET e == [operation |-> "upload", direction |-> ServerToClient, addr |-> h[r].addr,
                     data |-> expeditedData(h[Len(h)])]
           IN  /\ ExpeditedUpload(h, e, r)
               /\ \A s \in r .. Len(h) : ~AcceptsFrom(h, r, s, "upload")
               => event[ch] = e
        /\ \A op \in {o \in {"upload", "download"} : OpenSince(h, r, o)} :
           \A s \in {k \in r .. Len(h) - 1 : AcceptsFrom(h, r, k, op)} :
             LET P == {k \in s + 1 .. Len(h) : IsSegment(h[k], op)}
             IN  \A pos \in [1 .. Cardinality(P) -> P] :
                   LET e == [operation |-> op, direction |-> DataDirection(op), addr |-> h[r].addr,
                             data |-> [i \in 1 .. Cardinality(P) |-> segmentData(h[pos[i]])]]
                   IN  SegmentedFrom(h, e, r, s, pos) => event[ch] = e
=============================================================================
