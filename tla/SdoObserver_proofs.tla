------------------------ MODULE SdoObserver_proofs -------------------------
(***************************************************************************)
(* Every event the observer returns is a transfer its channel carried, and *)
(* every transfer a channel carried is returned, for any frames, any       *)
(* number of channels and histories of any length.                         *)
(***************************************************************************)
EXTENDS SdoObserver, SdoTransfer_proofs, SequenceTheorems, FiniteSetTheorems

(* History g is history h and one more frame f.                            *)
OneMore(h, f, g) ==
    /\ h \in Seq(Frames) /\ g \in Seq(Frames) /\ Len(g) = Len(h) + 1
    /\ \A k \in 1 .. Len(h) : g[k] = h[k]
    /\ g[Len(h) + 1] = f

\* Observe makes the history one frame longer.
LEMMA AppendIsOneMore ==
    ASSUME NEW h \in Seq(Frames), NEW f \in Frames
    PROVE  OneMore(h, f, Append(h, f))
BY DEF OneMore

\* The toggle bit alternates with the number of segments.
LEMMA Parity ==
    /\ 0 % 2 # 1
    /\ \A n \in Nat : /\ n % 2 = 1 <=> (n + 1) % 2 = 0
                      /\ n % 2 = 1 <=> (n + 1) % 2 # 1
<1>1. 0 % 2 = 0 OBVIOUS
<1>2. \A n \in Nat : n % 2 = 1 <=> (n + 1) % 2 = 0 OBVIOUS
<1>3. \A n \in Nat : n % 2 = 1 <=> (n + 1) % 2 # 1 OBVIOUS
<1> QED BY <1>1, <1>2, <1>3

(* A frame that neither opens nor aborts a transfer leaves the last one    *)
(* open.                                                                   *)
LEMMA OpenSinceKept ==
    ASSUME NEW h, NEW f, NEW g, OneMore(h, f, g), NEW r \in 1 .. Len(h), NEW op, OpenSince(h, r, op),
           ~Opens(f, "upload"), ~Opens(f, "download"), ~Aborts(f),
           op = "upload" => ~(Answers(h[Len(h)], h[r].addr) /\ ExpeditedBit(h[Len(h)].cmd))
    PROVE  OpenSince(g, r, op)
<1>1. Len(h) \in Nat /\ Len(g) = Len(h) + 1 BY DEF OneMore
<1>2. g[r] = h[r] BY DEF OneMore
<1>3. \A k \in r + 1 .. Len(g) : ~Opens(g[k], "upload") /\ ~Opens(g[k], "download") /\ ~Aborts(g[k])
  <2> TAKE k \in r + 1 .. Len(g)
  <2>1. CASE k = Len(g) BY <2>1, <1>1 DEF OneMore
  <2>2. CASE k # Len(g)
    <3>1. k \in r + 1 .. Len(h) /\ k \in 1 .. Len(h) BY <2>2, <1>1
    <3>2. g[k] = h[k] BY <3>1 DEF OneMore
    <3> QED BY <3>1, <3>2 DEF OpenSince
  <2> QED BY <2>1, <2>2
<1>4. op = "upload" => \A k \in r + 1 .. Len(g) - 1 : ~(Answers(g[k], g[r].addr) /\ ExpeditedBit(g[k].cmd))
  <2> SUFFICES ASSUME op = "upload", NEW k \in r + 1 .. Len(g) - 1
               PROVE  ~(Answers(g[k], g[r].addr) /\ ExpeditedBit(g[k].cmd))
    OBVIOUS
  <2>1. k \in 1 .. Len(h) BY <1>1
  <2>2. g[k] = h[k] BY <2>1 DEF OneMore
  <2>3. CASE k = Len(h) BY <2>3, <2>2, <1>2
  <2>4. CASE k # Len(h)
    <3>1. k \in r + 1 .. Len(h) - 1 BY <2>4, <1>1
    <3> QED BY <3>1, <2>2, <1>2 DEF OpenSince
  <2> QED BY <2>3, <2>4
<1>5. Opens(g[r], op) BY <1>2 DEF OpenSince
<1> QED BY <1>3, <1>4, <1>5 DEF OpenSince

\* Where a transfer began to accept segments does not change later.
LEMMA AcceptsFromKept ==
    ASSUME NEW h, NEW f, NEW g, OneMore(h, f, g), NEW r \in 1 .. Len(h), NEW s \in r .. Len(h), NEW op,
           AcceptsFrom(h, r, s, op)
    PROVE  AcceptsFrom(g, r, s, op)
<1>1. Len(h) \in Nat BY DEF OneMore
<1>2. \A k \in r .. s : g[k] = h[k] BY <1>1 DEF OneMore
<1>3. g[r] = h[r] /\ g[s] = h[s] BY <1>2
<1>4. \A k \in r + 1 .. s - 1 : g[k] = h[k] BY <1>2
<1> QED BY <1>3, <1>4 DEF AcceptsFrom

(* A frame that is no segment of the transfer leaves its segments alone.   *)
LEMMA SegmentsKept ==
    ASSUME NEW h, NEW f, NEW g, OneMore(h, f, g), NEW s \in 1 .. Len(h), NEW op, NEW data \in Seq(Payload),
           NEW pos \in [1 .. Len(data) -> 1 .. Len(h)], Segments(h, s, pos, op, data), ~IsSegment(f, op)
    PROVE  Segments(g, s, pos, op, data)
<1>1. Len(h) \in Nat /\ Len(g) = Len(h) + 1 BY DEF OneMore
<1>2. \A i \in 1 .. Len(data) : g[pos[i]] = h[pos[i]] BY DEF OneMore
<1>3. \A k \in s + 1 .. Len(g) : IsSegment(g[k], op) => k \in s + 1 .. Len(h) /\ IsSegment(h[k], op)
  <2> SUFFICES ASSUME NEW k \in s + 1 .. Len(g), IsSegment(g[k], op)
               PROVE  k \in s + 1 .. Len(h) /\ IsSegment(h[k], op)
    OBVIOUS
  <2>1. k # Len(h) + 1 BY DEF OneMore
  <2>2. k \in 1 .. Len(h) /\ k \in s + 1 .. Len(h) BY <2>1, <1>1
  <2> QED BY <2>2 DEF OneMore
<1>4. \A i \in 1 .. Len(data) - 1 : i \in 1 .. Len(data) OBVIOUS
<1>5. \A k \in s + 1 .. Len(g) : IsSegment(g[k], op) => \E i \in 1 .. Len(data) : pos[i] = k
  BY <1>3 DEF Segments
<1>6. \A i \in 1 .. Len(data) - 1 : pos[i] < pos[i + 1] /\ ~LowBit(g[pos[i]].cmd)
  BY <1>2, <1>4 DEF Segments
<1>7. \A i \in 1 .. Len(data) : /\ pos[i] > s
                                /\ IsSegment(g[pos[i]], op)
                                /\ ToggleBit(g[pos[i]].cmd) <=> i % 2 = 0
                                /\ data[i] = segmentData(g[pos[i]])
  BY <1>2 DEF Segments
<1> QED BY <1>5, <1>6, <1>7 DEF Segments

(* The position list grown by the last frame of g.                         *)
Grown(pos, n, last) == [i \in 1 .. n + 1 |-> IF i = n + 1 THEN last ELSE pos[i]]

(* A segment with the expected toggle bit is the next one.                 *)
LEMMA SegmentsGrown ==
    ASSUME NEW h, NEW f, NEW g, OneMore(h, f, g), NEW s \in 1 .. Len(h), NEW op, NEW data \in Seq(Payload),
           segmentData(f) \in Payload,
           NEW pos \in [1 .. Len(data) -> 1 .. Len(h)], Segments(h, s, pos, op, data), IsSegment(f, op),
           \A i \in 1 .. Len(data) : ~LowBit(h[pos[i]].cmd),
           ToggleBit(f.cmd) <=> Len(data) % 2 = 1
    PROVE  LET more == Append(data, segmentData(f))
               pos2 == Grown(pos, Len(data), Len(g))
           IN  /\ pos2 \in [1 .. Len(more) -> 1 .. Len(g)]
               /\ Segments(g, s, pos2, op, more)
               /\ pos2[Len(more)] = Len(g)
               /\ \A i \in 1 .. Len(data) : ~LowBit(g[pos2[i]].cmd)
<1> DEFINE n == Len(data)
           more == Append(data, segmentData(f))
           pos2 == Grown(pos, n, Len(g))
<1>1. /\ Len(h) \in Nat /\ Len(g) = Len(h) + 1 /\ n \in Nat
      /\ more \in Seq(Payload) /\ Len(more) = n + 1
      /\ \A i \in 1 .. n : more[i] = data[i]
      /\ more[n + 1] = segmentData(f)
  <2>1. Len(h) \in Nat /\ Len(g) = Len(h) + 1 BY DEF OneMore
  <2>2. n \in Nat /\ more \in Seq(Payload) /\ Len(more) = n + 1 OBVIOUS
  <2>3. ASSUME NEW p \in Payload
        PROVE  /\ \A i \in 1 .. n : Append(data, p)[i] = data[i]
               /\ Append(data, p)[n + 1] = p
    OBVIOUS
  <2> QED BY <2>1, <2>2, <2>3
<1>2. \A i \in 1 .. n : pos2[i] = pos[i] /\ pos[i] \in 1 .. Len(h)
  <2> TAKE i \in 1 .. n
  <2>1. i \in 1 .. n + 1 /\ i # n + 1 BY <1>1
  <2>2. pos[i] \in 1 .. Len(h) OBVIOUS
  <2> QED BY <2>1, <2>2 DEF Grown
<1>3. pos2[n + 1] = Len(g) BY <1>1 DEF Grown
<1>4. pos2 \in [1 .. n + 1 -> 1 .. Len(g)] BY <1>1 DEF Grown
<1>5. \A i \in 1 .. n : g[pos2[i]] = h[pos[i]] BY <1>2 DEF OneMore
<1>6. g[pos2[n + 1]] = f BY <1>1, <1>3 DEF OneMore
<1> HIDE DEF n, more, pos2
<1>7. \A i \in 1 .. n + 1 : /\ pos2[i] > s
                            /\ IsSegment(g[pos2[i]], op)
                            /\ ToggleBit(g[pos2[i]].cmd) <=> i % 2 = 0
                            /\ more[i] = segmentData(g[pos2[i]])
  <2> TAKE i \in 1 .. n + 1
  <2>1. CASE i = n + 1
    <3>1. ToggleBit(f.cmd) <=> (n + 1) % 2 = 0
      <4>1. ToggleBit(f.cmd) <=> n % 2 = 1 BY DEF n
      <4>2. n % 2 = 1 <=> (n + 1) % 2 = 0 BY <1>1
      <4> QED BY <4>1, <4>2
    <3>2. Len(g) > s BY <1>1
    <3> QED BY <2>1, <3>1, <3>2, <1>1, <1>3, <1>6
  <2>2. CASE i # n + 1
    <3>1. i \in 1 .. n BY <2>2, <1>1
    <3>2. /\ pos[i] > s
          /\ IsSegment(h[pos[i]], op)
          /\ ToggleBit(h[pos[i]].cmd) <=> i % 2 = 0
          /\ data[i] = segmentData(h[pos[i]])
      BY <3>1 DEF Segments, n
    <3> QED BY <3>1, <3>2, <1>1, <1>2, <1>5
  <2> QED BY <2>1, <2>2
<1>8. \A i \in 1 .. n : ~LowBit(g[pos2[i]].cmd) BY <1>5 DEF n
<1>9. \A i \in 1 .. n : pos2[i] < pos2[i + 1]
  <2> TAKE i \in 1 .. n
  <2>1. CASE i = n BY <2>1, <1>1, <1>2, <1>3
  <2>2. CASE i # n
    <3>1. i \in 1 .. n - 1 /\ i + 1 \in 1 .. n BY <2>2, <1>1
    <3>2. pos[i] < pos[i + 1] BY <3>1 DEF Segments, n
    <3> QED BY <3>1, <3>2, <1>2
  <2> QED BY <2>1, <2>2
<1>10. \A k \in s + 1 .. Len(g) : IsSegment(g[k], op) => \E i \in 1 .. n + 1 : pos2[i] = k
  <2> SUFFICES ASSUME NEW k \in s + 1 .. Len(g), IsSegment(g[k], op)
               PROVE  \E i \in 1 .. n + 1 : pos2[i] = k
    OBVIOUS
  <2>1. CASE k = Len(g) BY <2>1, <1>1, <1>3
  <2>2. CASE k # Len(g)
    <3>0. s \in 1 .. Len(h) /\ k \in s + 1 .. Len(g) /\ Len(h) \in Nat /\ Len(g) = Len(h) + 1 BY <1>1
    <3>1. k \in s + 1 .. Len(h) /\ k \in 1 .. Len(h) BY ONLY <2>2, <3>0
    <3>2. IsSegment(h[k], op) BY <3>1 DEF OneMore
    <3>3. PICK i \in 1 .. n : pos[i] = k BY <3>1, <3>2 DEF Segments, n
    <3>4. i \in 1 .. n + 1 BY <1>1
    <3>5. pos2[i] = k BY <3>3, <1>2
    <3> QED BY <3>4, <3>5
  <2> QED BY <2>1, <2>2
<1>11. Segments(g, s, pos2, op, more)
  <2>1. Len(more) = n + 1 /\ Len(more) - 1 = n BY <1>1
  <2>2. \A i \in 1 .. n : pos2[i] < pos2[i + 1] /\ ~LowBit(g[pos2[i]].cmd) BY <1>8, <1>9
  <2> QED BY <2>1, <2>2, <1>7, <1>10 DEF Segments
<1>12. pos2 \in [1 .. Len(more) -> 1 .. Len(g)] /\ pos2[Len(more)] = Len(g) BY <1>1, <1>3, <1>4
<1> QED BY <1>8, <1>11, <1>12 DEF n, more, pos2

-----------------------------------------------------------------------------
(* What is known of a frame that carries one of the roles.                 *)

Valid(t, h) == t # NoTransfer => \E r \in 1 .. Len(h) : Tracked(h, t, r)

(* A frame that opens a transfer: it is tracked from that frame on.        *)
LEMMA OpenedIsTracked ==
    ASSUME NEW h, NEW f, NEW g, OneMore(h, f, g), NEW op \in {"upload", "download"}, Opens(f, op)
    PROVE  Valid(newTransfer(op, DataDirection(op), f.addr), g)
<1> DEFINE t == newTransfer(op, DataDirection(op), f.addr)
           r == Len(g)
<1>1. Len(h) \in Nat /\ r = Len(h) + 1 /\ r \in 1 .. Len(g) /\ g[r] = f BY DEF OneMore
<1>2. /\ t.operation = op /\ t.direction = DataDirection(op) /\ t.addr = f.addr
      /\ t.uploadInitiated = FALSE /\ t.toggle = FALSE /\ t.data = << >>
  BY DEF newTransfer
<1>3. \A k \in r + 1 .. Len(g) : FALSE BY <1>1
<1>4. OpenSince(g, r, op)
  <2>1. \A k \in r + 1 .. Len(g) - 1 : FALSE BY <1>1
  <2> QED BY <1>1, <1>3, <2>1 DEF OpenSince
<1>5. ~Answers(g[r], f.addr) BY <1>1 DEF Opens, Answers, ClientToServer, ServerToClient
<1>6. op = "download" =>
         \E s \in r .. Len(g) : \E pos \in [1 .. Len(t.data) -> 1 .. Len(g)] :
              /\ AcceptsFrom(g, r, s, op)
              /\ Segments(g, s, pos, op, t.data)
              /\ \A i \in 1 .. Len(t.data) : ~LowBit(g[pos[i]].cmd)
              /\ t.toggle <=> Len(t.data) % 2 = 1
  <2> SUFFICES ASSUME op = "download"
               PROVE  \E s \in r .. Len(g) : \E pos \in [1 .. Len(t.data) -> 1 .. Len(g)] :
                          /\ AcceptsFrom(g, r, s, op)
                          /\ Segments(g, s, pos, op, t.data)
                          /\ \A i \in 1 .. Len(t.data) : ~LowBit(g[pos[i]].cmd)
                          /\ t.toggle <=> Len(t.data) % 2 = 1
    OBVIOUS
  <2> DEFINE empty == [i \in 1 .. 0 |-> 1]
  <2>1. Len(t.data) = 0 BY <1>2
  <2>2. empty \in [1 .. Len(t.data) -> 1 .. Len(g)] BY <2>1
  <2>3. AcceptsFrom(g, r, r, op) BY DEF AcceptsFrom
  <2>4. Segments(g, r, empty, op, t.data)
    <3>1. \A i \in 1 .. Len(t.data) : FALSE BY <2>1
    <3>2. \A i \in 1 .. Len(t.data) - 1 : FALSE BY <2>1
    <3> HIDE DEF t, r, empty
    <3> QED BY <3>1, <3>2, <1>3 DEF Segments
  <2>5. \A i \in 1 .. Len(t.data) : ~LowBit(g[empty[i]].cmd) BY <2>1
  <2>6. t.toggle <=> Len(t.data) % 2 = 1
    <3>1. ~t.toggle BY <1>2
    <3>2. ~(Len(t.data) % 2 = 1) BY <2>1, Parity
    <3> QED BY <3>1, <3>2
  <2>7. r \in r .. Len(g) BY <1>1
  <2> HIDE DEF t, r, empty
  <2> QED BY <2>2, <2>3, <2>4, <2>5, <2>6, <2>7
<1> HIDE DEF t, r
<1>7. Tracked(g, t, r)
  <2>1. CASE op = "upload"
    <3>1. ~Answers(g[Len(g)], t.addr)
      <4>1. t.addr = f.addr BY <1>2
      <4> QED BY <4>1, <1>5 DEF r
    <3>2. t.operation = "upload" /\ ~t.uploadInitiated BY <2>1, <1>2
    <3>3. t.data = << >> /\ ~t.toggle /\ \A k \in r + 1 .. Len(g) : ~Answers(g[k], t.addr) BY <1>2, <1>3
    <3>4. OpenSince(g, r, t.operation) /\ g[r].addr = t.addr /\ t.direction = DataDirection(t.operation)
      BY <1>1, <1>2, <1>4
    <3> QED BY <3>1, <3>2, <3>3, <3>4 DEF Tracked
  <2>2. CASE op = "download" BY <2>2, <1>1, <1>2, <1>4, <1>6 DEF Tracked
  <2> QED BY <2>1, <2>2
<1> QED BY <1>1, <1>7 DEF Valid, t

(* A frame the transfer ignores leaves it tracked.                         *)
LEMMA IgnoredStaysTracked ==
    ASSUME NEW h, NEW f, NEW g, OneMore(h, f, g), NEW t \in Transfer, NEW r \in 1 .. Len(h),
           Tracked(h, t, r), ~Opens(f, "upload"), ~Opens(f, "download"), ~Aborts(f),
           t.operation = "upload" => ~(Answers(f, t.addr) /\ ExpeditedBit(f.cmd)),
           IF t.operation = "upload" /\ ~t.uploadInitiated THEN ~Answers(f, t.addr)
                                                          ELSE ~IsSegment(f, t.operation)
    PROVE  r \in 1 .. Len(g) /\ Tracked(g, t, r)
<1>1. Len(h) \in Nat /\ Len(g) = Len(h) + 1 /\ g[Len(g)] = f /\ g[r] = h[r] BY DEF OneMore
<1>2. h # << >> BY <1>1
<1>3. OpenSince(g, r, t.operation) BY <1>2, OpenSinceKept DEF Tracked
<1>4. CASE t.operation = "upload" /\ ~t.uploadInitiated
  <2>1. \A k \in r + 1 .. Len(g) : ~Answers(g[k], t.addr)
    <3> TAKE k \in r + 1 .. Len(g)
    <3>1. CASE k = Len(g) BY <3>1, <1>1, <1>4
    <3>2. CASE k # Len(g)
      <4>1. k \in r + 1 .. Len(h) /\ k \in 1 .. Len(h) BY <3>2, <1>1
      <4>2. g[k] = h[k] BY <4>1 DEF OneMore
      <4> QED BY <4>1, <4>2, <1>4 DEF Tracked
    <3> QED BY <3>1, <3>2
  <2> QED BY <2>1, <1>1, <1>3, <1>4 DEF Tracked
<1>5. CASE ~(t.operation = "upload" /\ ~t.uploadInitiated)
  <2>1. PICK s \in r .. Len(h), pos \in [1 .. Len(t.data) -> 1 .. Len(h)] :
              /\ AcceptsFrom(h, r, s, t.operation)
              /\ Segments(h, s, pos, t.operation, t.data)
              /\ \A i \in 1 .. Len(t.data) : ~LowBit(h[pos[i]].cmd)
              /\ t.toggle <=> Len(t.data) % 2 = 1
    BY <1>5 DEF Tracked
  <2>2. t.data \in Seq(Payload) /\ s \in 1 .. Len(h) BY <1>1 DEF Transfer
  <2>3. AcceptsFrom(g, r, s, t.operation) BY <2>1, AcceptsFromKept
  <2>4. Segments(g, s, pos, t.operation, t.data) BY <1>5, <2>1, <2>2, SegmentsKept
  <2>5. \A i \in 1 .. Len(t.data) : ~LowBit(g[pos[i]].cmd) BY <2>1 DEF OneMore
  <2>6. pos \in [1 .. Len(t.data) -> 1 .. Len(g)] /\ s \in r .. Len(g) BY <1>1
  <2>7. \E ss \in r .. Len(g) : \E pp \in [1 .. Len(t.data) -> 1 .. Len(g)] :
              /\ AcceptsFrom(g, r, ss, t.operation)
              /\ Segments(g, ss, pp, t.operation, t.data)
              /\ \A i \in 1 .. Len(t.data) : ~LowBit(g[pp[i]].cmd)
              /\ t.toggle <=> Len(t.data) % 2 = 1
    BY <2>1, <2>3, <2>4, <2>5, <2>6
  <2>8. h[r].addr = t.addr /\ t.direction = DataDirection(t.operation) BY DEF Tracked
  <2>9. g[r].addr = t.addr BY <2>8, <1>1
  <2>10. t.operation = "upload" => ~(Answers(g[Len(g)], t.addr) /\ ExpeditedBit(g[Len(g)].cmd)) BY <1>1
  <2>11. Tracked(g, t, r) BY ONLY <2>7, <2>8, <2>9, <2>10, <1>3, <1>5 DEF Tracked
  <2> QED BY <2>11, <1>1
<1> QED BY <1>1, <1>4, <1>5

(* The first matching initiation response makes an upload accept segments. *)
LEMMA InitiatedIsTracked ==
    ASSUME NEW h, NEW f, NEW g, OneMore(h, f, g), NEW t \in Transfer, NEW r \in 1 .. Len(h),
           Tracked(h, t, r), t.operation = "upload", Answers(f, t.addr), ~ExpeditedBit(f.cmd),
           ~Aborts(f)
    PROVE  LET u == [t EXCEPT !.uploadInitiated = TRUE]
           IN  r \in 1 .. Len(g) /\ Tracked(g, u, r)
<1> DEFINE u == [t EXCEPT !.uploadInitiated = TRUE]
<1>1. Len(h) \in Nat /\ Len(g) = Len(h) + 1 /\ g[Len(g)] = f /\ g[r] = h[r] BY DEF OneMore
<1>2. /\ u.operation = "upload" /\ u.direction = t.direction /\ u.addr = t.addr
      /\ u.data = t.data /\ u.toggle = t.toggle /\ u.uploadInitiated = TRUE
  BY DEF Transfer
<1>3. ~Opens(f, "upload") /\ ~Opens(f, "download") BY DEF Opens, Answers, ClientToServer, ServerToClient
<1>4. CASE t.uploadInitiated
  <2>1. u = t BY <1>4, <1>2 DEF Transfer
  <2>2. ~IsSegment(f, t.operation) BY DEF Answers, IsSegment
  <2>3. r \in 1 .. Len(g) /\ Tracked(g, t, r) BY <2>2, <1>3, <1>4, IgnoredStaysTracked
  <2> QED BY <2>1, <2>3
<1>5. CASE ~t.uploadInitiated
  <2>1. h # << >> BY <1>1
  <2>2. OpenSince(g, r, "upload") BY <1>3, <2>1, OpenSinceKept DEF Tracked
  <2>3. t.data = << >> /\ ~t.toggle /\ \A k \in r + 1 .. Len(h) : ~Answers(h[k], t.addr)
    BY <1>5 DEF Tracked
  <2>4. h[r].addr = t.addr /\ t.direction = DataDirection("upload") BY DEF Tracked
  <2> DEFINE s == Len(g)
             empty == [i \in 1 .. 0 |-> 1]
  <2>5. AcceptsFrom(g, r, s, "upload")
    <3>1. \A k \in r + 1 .. s - 1 : k \in 1 .. Len(h) /\ k \in r + 1 .. Len(h) BY <1>1
    <3>2. \A k \in r + 1 .. s - 1 : ~Answers(g[k], g[r].addr) BY <3>1, <2>3, <2>4, <1>1 DEF OneMore
    <3>3. s > r /\ Answers(g[s], g[r].addr) /\ ~ExpeditedBit(g[s].cmd) BY <1>1, <2>4
    <3> QED BY <3>2, <3>3 DEF AcceptsFrom
  <2>6. Len(t.data) = 0 BY <2>3
  <2>7. Segments(g, s, empty, "upload", t.data)
    <3>1. \A i \in 1 .. Len(t.data) : FALSE BY <2>6
    <3>2. \A i \in 1 .. Len(t.data) - 1 : FALSE BY <2>6
    <3>3. \A k \in s + 1 .. Len(g) : FALSE BY <1>1
    <3> HIDE DEF s, empty
    <3> QED BY <3>1, <3>2, <3>3 DEF Segments
  <2>8. empty \in [1 .. Len(t.data) -> 1 .. Len(g)] /\ s \in r .. Len(g) BY <2>6, <1>1
  <2>9. u.toggle <=> Len(u.data) % 2 = 1
    <3>1. ~u.toggle BY <1>2, <2>3
    <3>2. Len(u.data) = 0 BY <1>2, <2>6
    <3> QED BY <3>1, <3>2, Parity
  <2>10. \A i \in 1 .. Len(u.data) : FALSE BY <1>2, <2>6
  <2> HIDE DEF u, s, empty
  <2>11. \E ss \in r .. Len(g) : \E pp \in [1 .. Len(u.data) -> 1 .. Len(g)] :
              /\ AcceptsFrom(g, r, ss, u.operation)
              /\ Segments(g, ss, pp, u.operation, u.data)
              /\ \A i \in 1 .. Len(u.data) : ~LowBit(g[pp[i]].cmd)
              /\ u.toggle <=> Len(u.data) % 2 = 1
    BY <1>2, <2>5, <2>7, <2>8, <2>9, <2>10
  <2>12. ~(Answers(g[Len(g)], u.addr) /\ ExpeditedBit(g[Len(g)].cmd)) BY <1>1
  <2>13. OpenSince(g, r, u.operation) /\ g[r].addr = u.addr /\ u.direction = DataDirection(u.operation)
    BY <1>1, <1>2, <2>2, <2>4
  <2>14. Tracked(g, u, r) BY ONLY <1>2, <2>11, <2>12, <2>13 DEF Tracked
  <2> QED BY <2>14, <1>1 DEF u
<1> QED BY <1>4, <1>5

(* A segment with the expected toggle bit: the transfer goes on, or is a   *)
(* genuine event.                                                          *)
LEMMA SegmentIsTracked ==
    ASSUME NEW h, NEW f, NEW g, OneMore(h, f, g), NEW t \in Transfer, NEW r \in 1 .. Len(h),
           Tracked(h, t, r), ~Opens(f, "upload"), ~Opens(f, "download"), ~Aborts(f),
           IsSegment(f, t.operation), ~(t.operation = "upload" /\ ~t.uploadInitiated),
           ToggleBit(f.cmd) = t.toggle, segmentData(f) \in Payload
    PROVE  LET data == Append(t.data, segmentData(f))
               u    == [t EXCEPT !.data = data, !.toggle = ~@]
           IN  /\ LowBit(f.cmd) => Genuine(g, complete(t, data))
               /\ ~LowBit(f.cmd) => r \in 1 .. Len(g) /\ Tracked(g, u, r)
<1> DEFINE data == Append(t.data, segmentData(f))
           u    == [t EXCEPT !.data = data, !.toggle = ~@]
           e    == complete(t, data)
           op   == t.operation
<1>1. Len(h) \in Nat /\ Len(g) = Len(h) + 1 /\ g[Len(g)] = f /\ g[r] = h[r] BY DEF OneMore
<1>2. h # << >> BY <1>1
<1>3. OpenSince(g, r, op) BY <1>2, OpenSinceKept DEF Tracked
<1>4. PICK s \in r .. Len(h), pos \in [1 .. Len(t.data) -> 1 .. Len(h)] :
              /\ AcceptsFrom(h, r, s, op)
              /\ Segments(h, s, pos, op, t.data)
              /\ \A i \in 1 .. Len(t.data) : ~LowBit(h[pos[i]].cmd)
              /\ t.toggle <=> Len(t.data) % 2 = 1
  BY DEF Tracked
<1>5. t.data \in Seq(Payload) /\ s \in 1 .. Len(h) BY <1>1 DEF Transfer
<1>6. AcceptsFrom(g, r, s, op) BY <1>4, AcceptsFromKept
<1> DEFINE pos2 == Grown(pos, Len(t.data), Len(g))
<1>7. /\ pos2 \in [1 .. Len(data) -> 1 .. Len(g)]
      /\ Segments(g, s, pos2, op, data)
      /\ pos2[Len(data)] = Len(g)
      /\ \A i \in 1 .. Len(t.data) : ~LowBit(g[pos2[i]].cmd)
  <2>1. ToggleBit(f.cmd) <=> Len(t.data) % 2 = 1 BY <1>4
  <2> HIDE DEF op
  <2> QED BY <2>1, <1>4, <1>5, SegmentsGrown DEF op
<1>8. Len(data) = Len(t.data) + 1 /\ Len(t.data) \in Nat /\ data \in Seq(Payload) BY <1>5
<1>9. h[r].addr = t.addr /\ t.direction = DataDirection(op) BY DEF Tracked
<1>10. ASSUME LowBit(f.cmd) PROVE Genuine(g, e)
  <2>1. e.operation = op /\ e.direction = t.direction /\ e.addr = t.addr /\ e.data = data BY DEF complete
  <2> HIDE DEF e, data, pos2, op
  <2>2. Len(e.data) > 0 /\ pos2[Len(e.data)] = Len(g) /\ LowBit(g[Len(g)].cmd)
    BY <1>1, <1>7, <1>8, <1>10, <2>1
  <2>3. OpenSince(g, r, e.operation) /\ AcceptsFrom(g, r, s, e.operation)
        /\ Segments(g, s, pos2, e.operation, e.data)
    BY <1>3, <1>6, <1>7, <2>1
  <2>4. e.direction = DataDirection(e.operation) /\ e.addr = g[r].addr BY <1>1, <1>9, <2>1
  <2>5. SegmentedFrom(g, e, r, s, pos2) BY <2>2, <2>3, <2>4 DEF SegmentedFrom
  <2>6. pos2 \in [1 .. Len(e.data) -> 1 .. Len(g)] BY <1>7, <2>1
  <2>7. r \in 1 .. Len(g) /\ s \in r .. Len(g) BY <1>1
  <2> QED BY <2>5, <2>6, <2>7 DEF Genuine
<1>11. ASSUME ~LowBit(f.cmd) PROVE r \in 1 .. Len(g) /\ Tracked(g, u, r)
  <2>1. /\ u.operation = op /\ u.direction = t.direction /\ u.addr = t.addr /\ u.data = data
        /\ u.uploadInitiated = t.uploadInitiated
    BY DEF Transfer
  <2>2. u.toggle = ~t.toggle BY DEF Transfer
  <2> HIDE DEF u, data, pos2
  <2>3. \A i \in 1 .. Len(u.data) : ~LowBit(g[pos2[i]].cmd)
    <3> TAKE i \in 1 .. Len(u.data)
    <3>1. i \in 1 .. Len(t.data) \/ i = Len(data) BY <1>8, <2>1
    <3>2. CASE i \in 1 .. Len(t.data) BY <3>2, <1>7
    <3>3. CASE i = Len(data) BY <3>3, <1>1, <1>7, <1>11
    <3> QED BY <3>1, <3>2, <3>3
  <2>4. u.toggle <=> Len(u.data) % 2 = 1
    <3>1. Len(t.data) % 2 = 1 <=> ~((Len(t.data) + 1) % 2 = 1) BY <1>8, Parity
    <3>2. t.toggle <=> Len(t.data) % 2 = 1 BY <1>4
    <3>3. u.toggle <=> ~t.toggle BY <2>2
    <3>4. Len(u.data) = Len(t.data) + 1 BY <1>8, <2>1
    <3> QED BY <3>1, <3>2, <3>3, <3>4
  <2>5. pos2 \in [1 .. Len(u.data) -> 1 .. Len(g)] /\ s \in r .. Len(g) BY <1>1, <1>7, <2>1
  <2>6. AcceptsFrom(g, r, s, u.operation) /\ Segments(g, s, pos2, u.operation, u.data)
    BY <1>6, <1>7, <2>1
  <2>7. \E ss \in r .. Len(g) : \E pp \in [1 .. Len(u.data) -> 1 .. Len(g)] :
              /\ AcceptsFrom(g, r, ss, u.operation)
              /\ Segments(g, ss, pp, u.operation, u.data)
              /\ \A i \in 1 .. Len(u.data) : ~LowBit(g[pp[i]].cmd)
              /\ u.toggle <=> Len(u.data) % 2 = 1
    BY <2>3, <2>4, <2>5, <2>6
  <2>8. OpenSince(g, r, u.operation) /\ g[r].addr = u.addr /\ u.direction = DataDirection(u.operation)
    BY <1>1, <1>3, <1>9, <2>1
  <2>9. ~(u.operation = "upload" /\ ~u.uploadInitiated) BY <2>1
  <2>10. u.operation = "upload" => ~Answers(g[Len(g)], u.addr) BY <1>1, <2>1 DEF IsSegment, Answers
  <2>11. Tracked(g, u, r) BY ONLY <2>7, <2>8, <2>9, <2>10 DEF Tracked
  <2> QED BY <2>11, <1>1
<1> QED BY <1>10, <1>11

-----------------------------------------------------------------------------
(* One observation: the transfer kept is tracked, the event is genuine.    *)

Sound(o, g) ==
    /\ Valid(o.transfer, g)
    /\ o.event.operation \in {"upload", "download"} => Genuine(g, o.event)

\* An ignored frame is sound if the transfer stays tracked.
LEMMA IgnoredIsSound ==
    ASSUME NEW u, NEW g, Valid(u, g)
    PROVE  Sound(Ignored(u), g)
BY DEF Sound, Ignored, Observed, NoEvent

\* A reported event is sound if it is genuine.
LEMMA ReportedIsSound ==
    ASSUME NEW u, NEW g, NEW e, Valid(u, g), e.operation \in {"upload", "download"} => Genuine(g, e)
    PROVE  Sound(Observed(u, e), g)
BY DEF Sound, Observed

\* A frame without a role leaves the transfer tracked.
LEMMA KeptIsSound ==
    ASSUME NEW h, NEW f, NEW g, OneMore(h, f, g), NEW t \in Transfer \cup {NoTransfer}, Valid(t, h),
           ~Opens(f, "upload"), ~Opens(f, "download"), ~Aborts(f),
           t # NoTransfer =>
               /\ t.operation = "upload" => ~(Answers(f, t.addr) /\ ExpeditedBit(f.cmd))
               /\ IF t.operation = "upload" /\ ~t.uploadInitiated THEN ~Answers(f, t.addr)
                                                              ELSE ~IsSegment(f, t.operation)
    PROVE  Valid(t, g)
<1>1. CASE t = NoTransfer BY <1>1 DEF Valid
<1>2. CASE t # NoTransfer
  <2>1. t \in Transfer BY <1>2
  <2>2. PICK r \in 1 .. Len(h) : Tracked(h, t, r) BY <1>2 DEF Valid
  <2>3. r \in 1 .. Len(g) /\ Tracked(g, t, r) BY <1>2, <2>1, <2>2, IgnoredStaysTracked
  <2> QED BY <2>3 DEF Valid
<1> QED BY <1>1, <1>2

\* An absent transfer needs no description.
LEMMA NoTransferIsValid == \A g : Valid(NoTransfer, g)
BY DEF Valid

\* observeSegment is sound.
LEMMA SegmentIsSound ==
    ASSUME NEW h, NEW f, NEW g, OneMore(h, f, g), NEW t \in Transfer \cup {NoTransfer}, Valid(t, h),
           FrameFields(f), f.len = sdoFrameLength, Specifier(f.cmd) = 0,
           ~Opens(f, "upload"), ~Opens(f, "download"), ~Aborts(f)
    PROVE  Sound(observeSegment(t, f), g)
<1> DEFINE skip == t = NoTransfer \/ t.direction # f.dir \/ (t.operation = "upload" /\ ~t.uploadInitiated)
<1>1. \A a : ~Answers(f, a) BY DEF Answers
<1>2. CASE skip
  <2>1. t # NoTransfer /\ ~(t.operation = "upload" /\ ~t.uploadInitiated) => ~IsSegment(f, t.operation)
    <3> SUFFICES ASSUME t # NoTransfer, ~(t.operation = "upload" /\ ~t.uploadInitiated)
                 PROVE  ~IsSegment(f, t.operation)
      OBVIOUS
    <3>1. PICK r \in 1 .. Len(h) : Tracked(h, t, r) BY DEF Valid
    <3>2. t.direction = DataDirection(t.operation) BY <3>1 DEF Tracked
    <3> QED BY <1>2, <3>2 DEF IsSegment
  <2>2. Valid(t, g) BY <1>1, <2>1, KeptIsSound
  <2>3. observeSegment(t, f) = Ignored(t) BY <1>2 DEF observeSegment
  <2> QED BY <2>2, <2>3, IgnoredIsSound
<1>3. CASE ~skip /\ ToggleBit(f.cmd) # t.toggle
  <2>1. observeSegment(t, f) = Ignored(NoTransfer) BY <1>3 DEF observeSegment
  <2> QED BY <2>1, NoTransferIsValid, IgnoredIsSound
<1>4. CASE ~skip /\ ToggleBit(f.cmd) = t.toggle
  <2> DEFINE data == Append(t.data, segmentData(f))
             u    == [t EXCEPT !.data = data, !.toggle = ~@]
  <2>1. t \in Transfer /\ t # NoTransfer BY <1>4
  <2>2. PICK r \in 1 .. Len(h) : Tracked(h, t, r) BY <2>1 DEF Valid
  <2>3. t.direction = DataDirection(t.operation) BY <2>2 DEF Tracked
  <2>4. IsSegment(f, t.operation) BY <1>4, <2>3 DEF IsSegment, Whole
  <2>5. segmentData(f) \in Payload BY PayloadType
  <2>6. /\ LowBit(f.cmd) => Genuine(g, complete(t, data))
        /\ ~LowBit(f.cmd) => r \in 1 .. Len(g) /\ Tracked(g, u, r)
    BY <1>4, <2>1, <2>2, <2>4, <2>5, SegmentIsTracked
  <2>7. observeSegment(t, f) = IF LowBit(f.cmd) THEN Observed(NoTransfer, complete(t, data)) ELSE Ignored(u)
    BY <1>4 DEF observeSegment
  <2> HIDE DEF data, u
  <2>8. CASE LowBit(f.cmd) BY <2>6, <2>7, <2>8, NoTransferIsValid, ReportedIsSound
  <2>9. CASE ~LowBit(f.cmd)
    <3>1. Valid(u, g) BY <2>6, <2>9 DEF Valid
    <3> QED BY <2>7, <2>9, <3>1, IgnoredIsSound
  <2> QED BY <2>8, <2>9
<1> QED BY <1>2, <1>3, <1>4

\* observeClient is sound.
LEMMA ClientIsSound ==
    ASSUME NEW h, NEW f, NEW g, OneMore(h, f, g), NEW t \in Transfer \cup {NoTransfer}, Valid(t, h),
           FrameFields(f), f.len = sdoFrameLength, f.dir = ClientToServer
    PROVE  Sound(observeClient(t, f), g)
<1>1. ~Aborts(f) /\ \A a : ~Answers(f, a) BY DEF Aborts, Answers, ClientToServer, ServerToClient
<1>2. CASE f.cmd = UploadRequest
  <2>1. Opens(f, "upload") BY <1>2 DEF Opens, Whole
  <2>2. Valid(newTransfer("upload", ServerToClient, f.addr), g)
    BY <2>1, OpenedIsTracked DEF DataDirection
  <2> QED BY <1>2, <2>2, IgnoredIsSound DEF observeClient
<1>3. CASE f.cmd # UploadRequest /\ Specifier(f.cmd) = 1 /\ ~ExpeditedBit(f.cmd)
  <2>1. Opens(f, "download") BY <1>3 DEF Opens, Whole
  <2>2. Valid(newTransfer("download", ClientToServer, f.addr), g)
    BY <2>1, OpenedIsTracked DEF DataDirection
  <2> QED BY <1>3, <2>2, IgnoredIsSound DEF observeClient
<1>4. ASSUME f.cmd # UploadRequest, Specifier(f.cmd) # 1 \/ ExpeditedBit(f.cmd)
      PROVE  ~Opens(f, "upload") /\ ~Opens(f, "download")
  BY <1>4 DEF Opens
<1>5. CASE f.cmd # UploadRequest /\ Specifier(f.cmd) = 1 /\ ExpeditedBit(f.cmd)
  <2> DEFINE e == complete(newTransfer("download", ClientToServer, f.addr), expeditedData(f))
  <2>1. Valid(t, g)
    <3>1. \A op : ~IsSegment(f, op) BY <1>5 DEF IsSegment
    <3> QED BY <1>1, <1>4, <1>5, <3>1, KeptIsSound
  <2>2. g[Len(g)] = f BY DEF OneMore
  <2>3. ExpeditedDownload(g, e)
    <3>1. e = [operation |-> "download", direction |-> ClientToServer, addr |-> f.addr, data |-> expeditedData(f)]
      BY DEF complete, newTransfer
    <3> QED BY <1>5, <2>2, <3>1 DEF ExpeditedDownload, Whole
  <2>4. observeClient(t, f) = Observed(t, e) BY <1>5 DEF observeClient
  <2> HIDE DEF e
  <2> QED BY <2>1, <2>3, <2>4, ReportedIsSound DEF Genuine
<1>6. CASE f.cmd # UploadRequest /\ Specifier(f.cmd) \notin {0, 1}
  <2>1. \A op : ~IsSegment(f, op) BY <1>6 DEF IsSegment
  <2>2. Valid(t, g) BY <1>1, <1>4, <1>6, <2>1, KeptIsSound
  <2> QED BY <1>6, <2>2, IgnoredIsSound DEF observeClient
<1>7. CASE f.cmd # UploadRequest /\ Specifier(f.cmd) = 0
  <2>1. Sound(observeSegment(t, f), g) BY <1>1, <1>4, <1>7, SegmentIsSound
  <2> QED BY <1>7, <2>1 DEF observeClient
<1> QED BY <1>2, <1>3, <1>5, <1>6, <1>7

\* observeServer is sound.
LEMMA ServerIsSound ==
    ASSUME NEW h, NEW f, NEW g, OneMore(h, f, g), NEW t \in Transfer \cup {NoTransfer}, Valid(t, h),
           FrameFields(f), f.len = sdoFrameLength, f.dir = ServerToClient, f.cmd # Abort
    PROVE  Sound(observeServer(t, f), g)
<1>1. ~Aborts(f) /\ ~Opens(f, "upload") /\ ~Opens(f, "download")
  BY DEF Aborts, Opens, ClientToServer, ServerToClient
<1>2. CASE t = NoTransfer BY <1>2, NoTransferIsValid, IgnoredIsSound DEF observeServer
<1>3. CASE t # NoTransfer /\ t.operation = "upload" /\ Specifier(f.cmd) = 2
  <2>1. t \in Transfer /\ (\A op : ~IsSegment(f, op)) BY <1>3 DEF IsSegment
  <2>2. PICK r \in 1 .. Len(h) : Tracked(h, t, r) BY <1>3 DEF Valid
  <2>3. CASE f.addr # t.addr
    <3>1. ~Answers(f, t.addr) BY <2>3 DEF Answers
    <3>2. Valid(t, g) BY <1>1, <2>1, <3>1, KeptIsSound
    <3> QED BY <1>3, <2>3, <3>2, IgnoredIsSound DEF observeServer
  <2>4. CASE f.addr = t.addr /\ ExpeditedBit(f.cmd)
    <3> DEFINE e == complete(t, expeditedData(f))
    <3>1. /\ Len(h) \in Nat /\ Len(g) = Len(h) + 1 /\ g[Len(g)] = f /\ g[r] = h[r]
          /\ r \in 1 .. Len(g)
      BY DEF OneMore
    <3>2. h # << >> BY <3>1
    <3>3. OpenSince(h, r, "upload") /\ h[r].addr = t.addr /\ t.direction = ServerToClient
      BY <1>3, <2>2 DEF Tracked, DataDirection
    <3>4. OpenSince(g, r, "upload") BY <1>1, <1>3, <2>2, <3>2, <3>3, OpenSinceKept DEF Tracked
    <3>5. e = [operation |-> "upload", direction |-> ServerToClient, addr |-> t.addr, data |-> expeditedData(f)]
      BY <1>3, <3>3 DEF complete
    <3>6. Answers(f, t.addr) BY <1>3, <2>4 DEF Answers, Whole
    <3>7. ExpeditedUpload(g, e, r) BY <2>4, <3>1, <3>3, <3>4, <3>5, <3>6 DEF ExpeditedUpload
    <3>8. observeServer(t, f) = Observed(NoTransfer, e) BY <1>3, <2>4 DEF observeServer
    <3> HIDE DEF e
    <3>9. Genuine(g, e) BY <3>1, <3>7 DEF Genuine
    <3> QED BY <3>8, <3>9, NoTransferIsValid, ReportedIsSound
  <2>5. CASE f.addr = t.addr /\ ~ExpeditedBit(f.cmd)
    <3> DEFINE u == [t EXCEPT !.uploadInitiated = TRUE]
    <3>1. Answers(f, t.addr) BY <1>3, <2>5 DEF Answers, Whole
    <3>2. r \in 1 .. Len(g) /\ Tracked(g, u, r) BY <1>1, <1>3, <2>1, <2>2, <2>5, <3>1, InitiatedIsTracked
    <3>3. observeServer(t, f) = Ignored(u) BY <1>3, <2>5 DEF observeServer
    <3> HIDE DEF u
    <3>4. Valid(u, g) BY <3>2 DEF Valid
    <3> QED BY <3>3, <3>4, IgnoredIsSound
  <2> QED BY <2>3, <2>4, <2>5
<1>4. CASE t # NoTransfer /\ ~(t.operation = "upload" /\ Specifier(f.cmd) = 2) /\ Specifier(f.cmd) # 0
  <2>1. \A op : ~IsSegment(f, op) BY <1>4 DEF IsSegment
  <2>2. t.operation = "upload" => ~Answers(f, t.addr) BY <1>4 DEF Answers
  <2>3. Valid(t, g) BY <1>1, <2>1, <2>2, KeptIsSound
  <2> QED BY <1>4, <2>3, IgnoredIsSound DEF observeServer
<1>5. CASE t # NoTransfer /\ Specifier(f.cmd) = 0
  <2>1. Sound(observeSegment(t, f), g) BY <1>1, <1>5, SegmentIsSound
  <2> QED BY <1>5, <2>1 DEF observeServer
<1> QED BY <1>2, <1>3, <1>4, <1>5

\* ObserveOnChannel is sound for every frame, truncated ones included.
LEMMA ObserveIsSound ==
    ASSUME NEW h, NEW f, NEW g, OneMore(h, f, g), NEW t \in Transfer \cup {NoTransfer}, Valid(t, h),
           FrameFields(f)
    PROVE  Sound(ObserveOnChannel(t, f), g)
<1>1. CASE f.len < sdoFrameLength
  <2>1. ~Whole(f) BY <1>1 DEF Whole, sdoFrameLength, FrameFields
  <2>2. /\ ~Opens(f, "upload") /\ ~Opens(f, "download") /\ ~Aborts(f)
        /\ (\A a : ~Answers(f, a)) /\ (\A op : ~IsSegment(f, op))
    BY <2>1 DEF Opens, Aborts, Answers, IsSegment
  <2>3. Valid(t, g) BY <2>2, KeptIsSound
  <2> QED BY <1>1, <2>3, IgnoredIsSound DEF ObserveOnChannel
<1>2. CASE ~(f.len < sdoFrameLength) /\ f.dir = ServerToClient /\ f.cmd = Abort
  <2>1. abortEvent(f).operation = "abort" BY DEF abortEvent
  <2>2. ObserveOnChannel(t, f) = Observed(NoTransfer, abortEvent(f)) BY <1>2 DEF ObserveOnChannel
  <2> QED BY <2>1, <2>2, NoTransferIsValid, ReportedIsSound
<1>3. CASE ~(f.len < sdoFrameLength) /\ ~(f.dir = ServerToClient /\ f.cmd = Abort)
  <2>0. f.len = sdoFrameLength BY <1>3 DEF FrameFields, sdoFrameLength
  <2>1. CASE f.dir = ClientToServer BY <1>3, <2>0, <2>1, ClientIsSound DEF ObserveOnChannel
  <2>2. CASE f.dir # ClientToServer
    <3>1. f.dir = ServerToClient /\ f.cmd # Abort BY <1>3, <2>2 DEF FrameFields
    <3> QED BY <1>3, <2>0, <2>2, <3>1, ServerIsSound DEF ObserveOnChannel
  <2> QED BY <2>1, <2>2
<1> QED BY <1>1, <1>2, <1>3

-----------------------------------------------------------------------------
\* Every frame of the bus has the fields of an SDO frame.
LEMMA FramesHaveFields == \A f \in Frames : FrameFields(f)
BY FramesAssumption DEF SdoFrame, FrameFields, sdoFrameLength

(* The observer's state stays well typed on any traffic.                   *)
THEOREM TypeCorrect == Spec => []TypeOK
<1>1. New => TypeOK BY DEF New, TypeOK
<1>2. TypeOK /\ [Next]_vars => TypeOK'
  <2> SUFFICES ASSUME TypeOK, [Next]_vars PROVE TypeOK' OBVIOUS
  <2>1. CASE UNCHANGED vars BY <2>1 DEF TypeOK, vars
  <2>2. ASSUME NEW ch \in Channels, NEW f \in Frames, Observe(ch, f) PROVE TypeOK'
    <3>1. transfers[ch] \in Transfer \cup {NoTransfer} BY DEF TypeOK
    <3>2. FrameFields(f) BY FramesHaveFields
    <3>3. /\ ObserveOnChannel(transfers[ch], f).transfer \in Transfer \cup {NoTransfer}
          /\ ObserveOnChannel(transfers[ch], f).event \in Event \cup {NoEvent}
      BY <3>1, <3>2, ObserveType
    <3> QED BY <2>2, <3>3 DEF TypeOK, Observe
  <2> QED BY <2>1, <2>2 DEF Next
<1> QED BY <1>1, <1>2, PTL DEF Spec

IInv == TypeOK /\ TransfersAreTracked /\ EventsAreGenuine

\* IInv is inductive: each observation is sound.
LEMMA Inductive == IInv /\ [Next]_vars => IInv'
<1> SUFFICES ASSUME IInv, [Next]_vars PROVE TransfersAreTracked' /\ EventsAreGenuine' /\ TypeOK'
  BY DEF IInv
<1>1. CASE UNCHANGED vars
  <2>1. transfers' = transfers /\ event' = event /\ seen' = seen BY <1>1 DEF vars
  <2>2. TypeOK' BY <2>1 DEF IInv, TypeOK
  <2>3. TransfersAreTracked' BY <2>1 DEF IInv, TransfersAreTracked
  <2>4. EventsAreGenuine' BY <2>1 DEF IInv, EventsAreGenuine
  <2> QED BY <2>2, <2>3, <2>4
<1>2. ASSUME NEW ch \in Channels, NEW f \in Frames, Observe(ch, f)
      PROVE  TransfersAreTracked' /\ EventsAreGenuine' /\ TypeOK'
  <2> DEFINE o == ObserveOnChannel(transfers[ch], f)
             g == Append(seen[ch], f)
  <2>1. /\ transfers[ch] \in Transfer \cup {NoTransfer} /\ seen[ch] \in Seq(Frames)
        /\ transfers \in [Channels -> Transfer \cup {NoTransfer}]
        /\ event \in [Channels -> Event \cup {NoEvent}] /\ seen \in [Channels -> Seq(Frames)]
    BY DEF IInv, TypeOK
  <2>2. OneMore(seen[ch], f, g) BY <2>1, AppendIsOneMore
  <2>3. Valid(transfers[ch], seen[ch]) BY DEF IInv, TransfersAreTracked, Valid
  <2>4. FrameFields(f) BY FramesHaveFields
  <2>5. Sound(o, g) BY <2>1, <2>2, <2>3, <2>4, ObserveIsSound
  <2>6. o.transfer \in Transfer \cup {NoTransfer} /\ o.event \in Event \cup {NoEvent}
    BY <2>1, <2>4, ObserveType
  <2>7. /\ transfers' = [transfers EXCEPT ![ch] = o.transfer]
        /\ event' = [event EXCEPT ![ch] = o.event]
        /\ seen' = [seen EXCEPT ![ch] = g]
    BY <1>2 DEF Observe
  <2> HIDE DEF o, g
  <2>8. \A c \in Channels :
           /\ c = ch => transfers'[c] = o.transfer /\ event'[c] = o.event /\ seen'[c] = g
           /\ c # ch => transfers'[c] = transfers[c] /\ event'[c] = event[c] /\ seen'[c] = seen[c]
    BY <2>1, <2>7
  <2>9. TransfersAreTracked'
    <3> SUFFICES ASSUME NEW c \in Channels, transfers'[c] # NoTransfer
                 PROVE  \E r \in 1 .. Len(seen'[c]) : Tracked(seen'[c], transfers'[c], r)
      BY DEF TransfersAreTracked
    <3>1. CASE c = ch BY <3>1, <2>5, <2>8 DEF Sound, Valid
    <3>2. CASE c # ch BY <3>2, <2>8 DEF IInv, TransfersAreTracked
    <3> QED BY <3>1, <3>2
  <2>10. EventsAreGenuine'
    <3> SUFFICES ASSUME NEW c \in Channels, event'[c].operation \in {"upload", "download"}
                 PROVE  Genuine(seen'[c], event'[c])
      BY DEF EventsAreGenuine
    <3>1. CASE c = ch BY <3>1, <2>5, <2>8 DEF Sound
    <3>2. CASE c # ch BY <3>2, <2>8 DEF IInv, EventsAreGenuine
    <3> QED BY <3>1, <3>2
  <2>11. TypeOK'
    <3>1. g \in Seq(Frames) BY <2>2 DEF OneMore
    <3> QED BY <2>1, <2>6, <2>7, <3>1 DEF TypeOK
  <2> QED BY <2>9, <2>10, <2>11
<1> QED BY <1>1, <1>2 DEF Next

(* Whatever the bus carries, on however many channels and for however      *)
(* long: a completed transfer the observer reports is one that its channel *)
(* carried, with all of its segments, in order, and none of another        *)
(* transfer (ObserveOnChannel).                                            *)
THEOREM ReassemblyIsSound == Spec => [](EventsAreGenuine /\ TransfersAreTracked)
<1>1. New => IInv
  <2>1. NoEvent.operation = "none" BY DEF NoEvent
  <2> QED BY <2>1 DEF New, IInv, TypeOK, TransfersAreTracked, EventsAreGenuine
<1>2. IInv => EventsAreGenuine /\ TransfersAreTracked BY DEF IInv
<1> QED BY <1>1, <1>2, Inductive, PTL DEF Spec

-----------------------------------------------------------------------------
(* Completeness: a transfer the channel carried is reported.  What         *)
(* ObserveOnChannel does with a frame of each role.                        *)

\* The frame roles exclude one another by their command specifiers.
LEMMA Specifiers ==
    /\ Specifier(UploadRequest) = 2 /\ Specifier(Abort) = 4
    /\ \A f, op : IsSegment(f, op) => f.cmd # UploadRequest /\ f.cmd # Abort /\ ~Opens(f, "upload") /\ ~Opens(f, "download")
    /\ \A f, a : Answers(f, a) => f.cmd # Abort /\ f.dir = ServerToClient /\ f.len = sdoFrameLength
<1>1. Specifier(UploadRequest) = 2 /\ Specifier(Abort) = 4 BY DEF Specifier, UploadRequest, Abort
<1>2. \A f, op : IsSegment(f, op) => f.cmd # UploadRequest /\ f.cmd # Abort /\ ~Opens(f, "upload") /\ ~Opens(f, "download")
  BY <1>1 DEF IsSegment, Opens
<1>3. \A f, a : Answers(f, a) => f.cmd # Abort /\ f.dir = ServerToClient /\ f.len = sdoFrameLength
  BY <1>1 DEF Answers, Whole
<1> QED BY <1>1, <1>2, <1>3

\* A frame that opens a transfer replaces whatever the channel holds.
LEMMA OpeningReplaces ==
    ASSUME NEW t, NEW f, NEW op \in {"upload", "download"}, Opens(f, op)
    PROVE  ObserveOnChannel(t, f).transfer = newTransfer(op, DataDirection(op), f.addr)
<1>1. f.len = sdoFrameLength /\ f.dir = ClientToServer /\ f.dir # ServerToClient
  BY DEF Opens, Whole, ClientToServer, ServerToClient
<1>2. ObserveOnChannel(t, f) = observeClient(t, f) BY <1>1 DEF ObserveOnChannel, sdoFrameLength
<1>3. observeClient(t, f) = Ignored(newTransfer(op, DataDirection(op), f.addr))
  BY DEF observeClient, Opens, DataDirection
<1> QED BY <1>2, <1>3 DEF Ignored, Observed

\* A matching answer completes an upload, or lets it accept segments.
LEMMA AnswerAccepted ==
    ASSUME NEW t \in Transfer, t.operation = "upload", NEW f, Answers(f, t.addr)
    PROVE  /\ ExpeditedBit(f.cmd) => ObserveOnChannel(t, f).event = complete(t, expeditedData(f))
           /\ ~ExpeditedBit(f.cmd) => ObserveOnChannel(t, f).transfer = [t EXCEPT !.uploadInitiated = TRUE]
<1>1. t # NoTransfer BY DEF NoTransfer
<1>2. /\ f.len = sdoFrameLength /\ f.dir = ServerToClient /\ f.dir # ClientToServer /\ f.cmd # Abort
      /\ Specifier(f.cmd) = 2 /\ f.addr = t.addr
  BY Specifiers DEF Answers, ClientToServer, ServerToClient
<1>3. ObserveOnChannel(t, f) = observeServer(t, f) BY <1>2 DEF ObserveOnChannel, sdoFrameLength
<1>4. CASE ExpeditedBit(f.cmd)
  <2>1. observeServer(t, f) = Observed(NoTransfer, complete(t, expeditedData(f))) BY <1>1, <1>2, <1>4 DEF observeServer
  <2> QED BY <1>3, <1>4, <2>1 DEF Observed
<1>5. CASE ~ExpeditedBit(f.cmd)
  <2> DEFINE u == [t EXCEPT !.uploadInitiated = TRUE]
  <2>1. observeServer(t, f) = Ignored(u) BY <1>1, <1>2, <1>5 DEF observeServer
  <2> HIDE DEF u
  <2>2. Ignored(u).transfer = u BY DEF Ignored, Observed
  <2> QED BY <1>3, <1>5, <2>1, <2>2 DEF u
<1> QED BY <1>4, <1>5

accepting(t) == t.operation = "download" \/ t.uploadInitiated

\* A segment with the expected toggle bit is appended.
LEMMA SegmentAccepted ==
    ASSUME NEW t \in Transfer, t.direction = DataDirection(t.operation), accepting(t),
           NEW f, IsSegment(f, t.operation), ToggleBit(f.cmd) = t.toggle
    PROVE  LET data == Append(t.data, segmentData(f))
           IN  /\ LowBit(f.cmd) => ObserveOnChannel(t, f).event = complete(t, data)
               /\ ~LowBit(f.cmd) => ObserveOnChannel(t, f).transfer = [t EXCEPT !.data = data, !.toggle = ~@]
<1> DEFINE data == Append(t.data, segmentData(f))
           u == [t EXCEPT !.data = data, !.toggle = ~@]
<1>1. t # NoTransfer BY DEF Transfer, NoTransfer
<1>2. /\ f.len = sdoFrameLength /\ Specifier(f.cmd) = 0 /\ f.dir = t.direction
      /\ f.cmd # UploadRequest /\ f.cmd # Abort
  BY Specifiers DEF IsSegment, Whole
<1>3. ObserveOnChannel(t, f) = observeSegment(t, f)
  BY <1>1, <1>2 DEF ObserveOnChannel, observeClient, observeServer, sdoFrameLength
<1>4. ~(t = NoTransfer \/ t.direction # f.dir \/ (t.operation = "upload" /\ ~t.uploadInitiated))
  BY <1>1, <1>2 DEF accepting
<1>5. observeSegment(t, f) = IF LowBit(f.cmd) THEN Observed(NoTransfer, complete(t, data)) ELSE Ignored(u)
  BY <1>4 DEF observeSegment
<1> HIDE DEF u, data
<1>6. Ignored(u).transfer = u /\ Observed(NoTransfer, complete(t, data)).event = complete(t, data)
  BY DEF Ignored, Observed
<1> QED BY <1>3, <1>5, <1>6 DEF u, data

\* A frame without a role for the transfer leaves it as it is.
LEMMA OthersIgnored ==
    ASSUME NEW t \in Transfer, t.direction = DataDirection(t.operation), NEW f, FrameFields(f),
           ~Opens(f, "upload"), ~Opens(f, "download"), ~Aborts(f),
           ~(t.operation = "upload" /\ Answers(f, t.addr)), ~(accepting(t) /\ IsSegment(f, t.operation))
    PROVE  ObserveOnChannel(t, f).transfer = t
<1>0. Ignored(t).transfer = t /\ \A e : Observed(t, e).transfer = t BY DEF Ignored, Observed
<1>1. CASE f.len < sdoFrameLength BY <1>0, <1>1 DEF ObserveOnChannel
<1>2. CASE ~(f.len < sdoFrameLength)
  <2>0. f.len = sdoFrameLength /\ Whole(f) BY <1>2 DEF FrameFields, Whole, sdoFrameLength
  <2>1. t # NoTransfer BY DEF Transfer, NoTransfer
  <2>2. Specifier(f.cmd) = 0 => observeSegment(t, f) = Ignored(t)
    <3> SUFFICES ASSUME Specifier(f.cmd) = 0 PROVE observeSegment(t, f) = Ignored(t) OBVIOUS
    <3>1. t.direction # f.dir \/ ~accepting(t) BY <2>0 DEF IsSegment
    <3>2. t.operation \in {"upload", "download"} BY DEF Transfer
    <3> QED BY <3>1, <3>2 DEF observeSegment, accepting
  <2>3. CASE f.dir = ClientToServer
    <3>1. ObserveOnChannel(t, f) = observeClient(t, f)
      BY <1>2, <2>3 DEF ObserveOnChannel, ClientToServer, ServerToClient
    <3>2. f.cmd # UploadRequest /\ (Specifier(f.cmd) = 1 => ExpeditedBit(f.cmd)) BY <2>0, <2>3 DEF Opens
    <3> QED BY <1>0, <2>2, <3>1, <3>2 DEF observeClient
  <2>4. CASE f.dir = ServerToClient
    <3>1. ObserveOnChannel(t, f) = observeServer(t, f)
      BY <1>2, <2>0, <2>4 DEF ObserveOnChannel, ClientToServer, ServerToClient, Aborts
    <3>2. t.operation = "upload" /\ Specifier(f.cmd) = 2 => f.addr # t.addr BY <2>0, <2>4 DEF Answers
    <3> QED BY <1>0, <2>1, <2>2, <3>1, <3>2 DEF observeServer
  <2> QED BY <2>3, <2>4 DEF FrameFields
<1> QED BY <1>1, <1>2

-----------------------------------------------------------------------------
(* Frame r opened transfer op, and no frame since, the last included,      *)
(* ended it with another opening, an abort or expedited data.              *)
OpenNow(h, r, op) ==
    /\ Opens(h[r], op)
    /\ \A k \in r + 1 .. Len(h) : ~Opens(h[k], "upload") /\ ~Opens(h[k], "download") /\ ~Aborts(h[k])
    /\ op = "upload" => \A k \in r + 1 .. Len(h) : ~(Answers(h[k], h[r].addr) /\ ExpeditedBit(h[k].cmd))

\* What is open after a frame was open before it, unless that frame opened it.
LEMMA OpenBefore ==
    ASSUME NEW h, NEW f, NEW g, OneMore(h, f, g), NEW r \in 1 .. Len(h), NEW op
    PROVE  /\ OpenSince(g, r, op) => /\ OpenNow(h, r, op)
                                     /\ ~Opens(f, "upload") /\ ~Opens(f, "download") /\ ~Aborts(f)
           /\ OpenNow(g, r, op) => /\ OpenSince(g, r, op)
                                   /\ op = "upload" => ~(Answers(f, h[r].addr) /\ ExpeditedBit(f.cmd))
<1>1. Len(h) \in Nat /\ Len(g) = Len(h) + 1 /\ g[r] = h[r] /\ g[Len(g)] = f BY DEF OneMore
<1>2. \A k \in r + 1 .. Len(h) : k \in r + 1 .. Len(g) /\ k \in r + 1 .. Len(g) - 1 /\ g[k] = h[k]
  BY <1>1 DEF OneMore
<1>3. Len(g) \in r + 1 .. Len(g) /\ \A k \in r + 1 .. Len(g) - 1 : k \in r + 1 .. Len(g) BY <1>1
<1>4. ASSUME OpenSince(g, r, op)
      PROVE  OpenNow(h, r, op) /\ ~Opens(f, "upload") /\ ~Opens(f, "download") /\ ~Aborts(f)
  BY <1>1, <1>2, <1>3, <1>4 DEF OpenSince, OpenNow
<1>5. ASSUME OpenNow(g, r, op)
      PROVE  OpenSince(g, r, op) /\ (op = "upload" => ~(Answers(f, h[r].addr) /\ ExpeditedBit(f.cmd)))
  BY <1>1, <1>3, <1>5 DEF OpenSince, OpenNow
<1> QED BY <1>4, <1>5

\* Where a transfer accepts segments from was so before, unless the last frame was the answer.
LEMMA AcceptsBefore ==
    ASSUME NEW h, NEW f, NEW g, OneMore(h, f, g), NEW r \in 1 .. Len(h), NEW s \in r .. Len(h), NEW op,
           AcceptsFrom(g, r, s, op)
    PROVE  AcceptsFrom(h, r, s, op)
<1>1. Len(h) \in Nat BY DEF OneMore
<1>2. \A k \in r .. s : g[k] = h[k] BY <1>1 DEF OneMore
<1>3. g[r] = h[r] /\ g[s] = h[s] BY <1>2
<1>4. \A k \in r + 1 .. s - 1 : g[k] = h[k] BY <1>2
<1> QED BY <1>3, <1>4 DEF AcceptsFrom

\* The segments of g are those of h when the last frame is none.
LEMMA SegmentsBefore ==
    ASSUME NEW h, NEW f, NEW g, OneMore(h, f, g), NEW s \in 1 .. Len(h), NEW op, NEW data \in Seq(Payload),
           NEW pos \in [1 .. Len(data) -> 1 .. Len(g)], Segments(g, s, pos, op, data), ~IsSegment(f, op)
    PROVE  /\ pos \in [1 .. Len(data) -> 1 .. Len(h)] /\ Segments(h, s, pos, op, data)
           /\ \A i \in 1 .. Len(data) : g[pos[i]] = h[pos[i]]
<1>1. Len(h) \in Nat /\ Len(g) = Len(h) + 1 /\ g[Len(g)] = f BY DEF OneMore
<1>2. \A i \in 1 .. Len(data) : pos[i] \in 1 .. Len(h)
  <2> TAKE i \in 1 .. Len(data)
  <2>1. pos[i] \in 1 .. Len(g) /\ IsSegment(g[pos[i]], op) BY DEF Segments
  <2>2. pos[i] # Len(g) BY <1>1, <2>1
  <2> QED BY <1>1, <2>1, <2>2
<1>3. \A i \in 1 .. Len(data) : g[pos[i]] = h[pos[i]] BY <1>2 DEF OneMore
<1>4. \A k \in s + 1 .. Len(h) : k \in s + 1 .. Len(g) /\ g[k] = h[k] BY <1>1 DEF OneMore
<1>5. \A i \in 1 .. Len(data) - 1 : i \in 1 .. Len(data) OBVIOUS
<1>6. Segments(h, s, pos, op, data) BY <1>3, <1>4, <1>5 DEF Segments
<1>7. pos \in [1 .. Len(data) -> 1 .. Len(h)] BY <1>2
<1> QED BY <1>3, <1>6, <1>7

Short(pos, n) == [i \in 1 .. n |-> pos[i]]

\* less are the segments data without the last, f, all of them in h.
Shrunk(h, f, s, pos, op, data, less) ==
    LET n == Len(less)
        pos0 == Short(pos, n)
    IN  /\ data = Append(less, segmentData(f)) /\ Len(data) = n + 1
        /\ pos0 \in [1 .. n -> 1 .. Len(h)] /\ Segments(h, s, pos0, op, less)
        /\ \A i \in 1 .. n : ~LowBit(h[pos0[i]].cmd)
        /\ ToggleBit(f.cmd) <=> n % 2 = 1

(* When the last frame is a segment it is the last of the segments, and    *)
(* the others are those of h.                                              *)
LEMMA SegmentsShrink ==
    ASSUME NEW h, NEW f, NEW g, OneMore(h, f, g), NEW s \in 1 .. Len(h), NEW op, NEW data \in Seq(Payload),
           NEW pos \in [1 .. Len(data) -> 1 .. Len(g)], Segments(g, s, pos, op, data), IsSegment(f, op)
    PROVE  \E less \in Seq(Payload) : Shrunk(h, f, s, pos, op, data, less)
<1>1. Len(h) \in Nat /\ Len(g) = Len(h) + 1 /\ g[Len(g)] = f BY DEF OneMore
<1>2. PICK j \in 1 .. Len(data) : pos[j] = Len(g)
  <2>1. Len(g) \in s + 1 .. Len(g) BY <1>1
  <2> QED BY <1>1, <2>1 DEF Segments
<1>3. data # << >> BY <1>2
<1>4. PICK less \in Seq(Payload), p \in Payload : data = Append(less, p) BY <1>3, SequenceEmptyOrAppend
<1> DEFINE n == Len(less)
           pos0 == Short(pos, n)
<1>5. /\ n \in Nat /\ Len(data) = n + 1 /\ data[n + 1] = p
      /\ \A i \in 1 .. n : data[i] = less[i]
  BY <1>4, AppendProperties
<1> HIDE DEF n
<1>6. \A i \in 1 .. n : i \in 1 .. Len(data) /\ i + 1 \in 1 .. Len(data) /\ i \in 1 .. Len(data) - 1 BY <1>5
<1>7. \A i \in 1 .. n : pos[i] \in 1 .. Len(h)
  <2> TAKE i \in 1 .. n
  <2>1. pos[i] < pos[i + 1] BY <1>6 DEF Segments
  <2>2. pos[i] \in 1 .. Len(g) /\ pos[i + 1] \in 1 .. Len(g) BY <1>6
  <2> QED BY <1>1, <2>1, <2>2
<1>8. pos[n + 1] = Len(g)
  <2>1. j = n + 1
    <3>1. j \notin 1 .. n BY <1>1, <1>2, <1>7
    <3> QED BY <1>5, <3>1
  <2> QED BY <1>2, <2>1
<1>9. n + 1 \in 1 .. Len(data) BY <1>5
<1>10. p = segmentData(f) /\ (ToggleBit(f.cmd) <=> (n + 1) % 2 = 0)
  BY <1>1, <1>5, <1>8, <1>9 DEF Segments
<1>11. ToggleBit(f.cmd) <=> n % 2 = 1 BY <1>5, <1>10, Parity
<1>12. /\ pos0 \in [1 .. n -> 1 .. Len(h)]
       /\ \A i \in 1 .. n : pos0[i] = pos[i] /\ g[pos[i]] = h[pos[i]]
  BY <1>7 DEF Short, OneMore
<1> HIDE DEF pos0
<1>13. \A i \in 1 .. n : ~LowBit(h[pos0[i]].cmd) BY <1>6, <1>12 DEF Segments
<1>14. Segments(h, s, pos0, op, less)
  <2>1. \A i \in 1 .. n : /\ pos0[i] > s
                          /\ IsSegment(h[pos0[i]], op)
                          /\ ToggleBit(h[pos0[i]].cmd) <=> i % 2 = 0
                          /\ less[i] = segmentData(h[pos0[i]])
    <3> TAKE i \in 1 .. n
    <3>1. i \in 1 .. Len(data) /\ pos0[i] = pos[i] /\ g[pos[i]] = h[pos0[i]] /\ data[i] = less[i]
      BY <1>5, <1>6, <1>12
    <3>2. /\ pos[i] > s
          /\ IsSegment(g[pos[i]], op)
          /\ ToggleBit(g[pos[i]].cmd) <=> i % 2 = 0
          /\ data[i] = segmentData(g[pos[i]])
      BY <3>1 DEF Segments
    <3> QED BY <3>1, <3>2
  <2>2. \A i \in 1 .. n - 1 : pos0[i] < pos0[i + 1] /\ ~LowBit(h[pos0[i]].cmd)
    <3> TAKE i \in 1 .. n - 1
    <3>1. i \in 1 .. n /\ i + 1 \in 1 .. n BY <1>5
    <3>2. pos[i] < pos[i + 1] BY <1>6, <3>1 DEF Segments
    <3> QED BY <1>12, <1>13, <3>1, <3>2
  <2>3. \A k \in s + 1 .. Len(h) : IsSegment(h[k], op) => \E i \in 1 .. n : pos0[i] = k
    <3> SUFFICES ASSUME NEW k \in s + 1 .. Len(h), IsSegment(h[k], op) PROVE \E i \in 1 .. n : pos0[i] = k OBVIOUS
    <3>1. k \in s + 1 .. Len(g) /\ k # Len(g) /\ g[k] = h[k] BY <1>1 DEF OneMore
    <3>2. PICK i \in 1 .. Len(data) : pos[i] = k BY <3>1 DEF Segments
    <3>3. i # n + 1 BY <1>8, <3>1, <3>2
    <3>4. i \in 1 .. n BY <1>5, <3>3
    <3> QED BY <1>12, <3>2, <3>4
  <2> QED BY <2>1, <2>2, <2>3 DEF Segments, n
<1>15. Shrunk(h, f, s, pos, op, data, less)
  BY <1>4, <1>5, <1>10, <1>11, <1>12, <1>13, <1>14 DEF n, pos0, Shrunk
<1> QED BY <1>15

-----------------------------------------------------------------------------
(* What the channel holds, from the frames alone.                          *)

\* t is an upload of object a whose answer is still to come,
Waits(t, a) ==
    /\ t \in Transfer /\ t.operation = "upload" /\ t.direction = DataDirection("upload") /\ t.addr = a
    /\ ~t.uploadInitiated /\ ~t.toggle /\ t.data = << >>

\* or a transfer of object a with these segments so far.
Holds(t, op, a, data) ==
    /\ t \in Transfer /\ t.operation = op /\ t.direction = DataDirection(op) /\ t.addr = a
    /\ op = "upload" => t.uploadInitiated
    /\ t.toggle <=> Len(data) % 2 = 1
    /\ t.data = data

Awaiting(h, t) ==
    \A r \in 1 .. Len(h) :
        OpenNow(h, r, "upload") /\ (\A s \in r .. Len(h) : ~AcceptsFrom(h, r, s, "upload"))
        => Waits(t, h[r].addr) /\ \A k \in r + 1 .. Len(h) : ~Answers(h[k], h[r].addr)

Accepting(h, t) ==
    \A op \in {"upload", "download"} : \A r \in 1 .. Len(h) : \A s \in r .. Len(h) :
    \A data \in Seq(Payload) : \A pos \in [1 .. Len(data) -> 1 .. Len(h)] :
        /\ OpenNow(h, r, op) /\ AcceptsFrom(h, r, s, op) /\ Segments(h, s, pos, op, data)
        /\ \A i \in 1 .. Len(data) : ~LowBit(h[pos[i]].cmd)
        => Holds(t, op, h[r].addr, data)

\* The event of a whole transfer of object a.
Completed(op, a, data) == [operation |-> op, direction |-> DataDirection(op), addr |-> a, data |-> data]

\* The event e of the last frame of h is what that frame completed.
Reported(h, e) ==
    \A r \in 1 .. Len(h) :
        /\ \A x : /\ ExpeditedUpload(h, x, r)
                  /\ \A s \in r .. Len(h) : ~AcceptsFrom(h, r, s, "upload")
                  => e = x
        /\ \A op \in {"upload", "download"} : \A s \in r .. Len(h) - 1 :
           \A data \in Seq(Payload) : \A pos \in [1 .. Len(data) -> 1 .. Len(h)] :
             LET x == Completed(op, h[r].addr, data)
             IN  SegmentedFrom(h, x, r, s, pos) => e = x

\* A fresh upload waits; a fresh download holds no segments yet.
LEMMA NewTransferHolds ==
    ASSUME NEW a \in Addr
    PROVE  /\ Waits(newTransfer("upload", DataDirection("upload"), a), a)
           /\ Holds(newTransfer("download", DataDirection("download"), a), "download", a, << >>)
<1>1. newTransfer("upload", DataDirection("upload"), a) \in Transfer
  BY NewTransferType DEF DataDirection
<1>2. newTransfer("download", DataDirection("download"), a) \in Transfer
  BY NewTransferType DEF DataDirection
<1>3. Len(<< >>) % 2 # 1 BY Parity
<1>4. Waits(newTransfer("upload", DataDirection("upload"), a), a) BY <1>1 DEF Waits, newTransfer
<1>5. Holds(newTransfer("download", DataDirection("download"), a), "download", a, << >>)
  BY <1>2, <1>3 DEF Holds, newTransfer
<1> QED BY <1>4, <1>5

\* As long as no answer has come the upload waits.
LEMMA AwaitingKept ==
    ASSUME NEW h, NEW f, NEW g, OneMore(h, f, g), NEW t, Awaiting(h, t), FrameFields(f)
    PROVE  Awaiting(g, ObserveOnChannel(t, f).transfer)
<1> DEFINE u == ObserveOnChannel(t, f).transfer
<1>1. Len(h) \in Nat /\ Len(g) = Len(h) + 1 /\ g[Len(g)] = f BY DEF OneMore
<1> SUFFICES ASSUME NEW r \in 1 .. Len(g), OpenNow(g, r, "upload"),
                    \A s \in r .. Len(g) : ~AcceptsFrom(g, r, s, "upload")
             PROVE  Waits(u, g[r].addr) /\ \A k \in r + 1 .. Len(g) : ~Answers(g[k], g[r].addr)
  BY DEF Awaiting
<1>2. CASE r = Len(g)
  <2>1. Opens(f, "upload") /\ g[r] = f BY <1>1, <1>2 DEF OpenNow
  <2>2. u = newTransfer("upload", DataDirection("upload"), f.addr) BY <2>1, OpeningReplaces
  <2>3. f.addr \in Addr BY DEF FrameFields
  <2>4. Waits(u, f.addr) BY <2>2, <2>3, NewTransferHolds
  <2>5. \A k \in r + 1 .. Len(g) : FALSE BY <1>1, <1>2
  <2> QED BY <2>1, <2>4, <2>5
<1>3. CASE r # Len(g)
  <2>1. r \in 1 .. Len(h) /\ g[r] = h[r] BY <1>1, <1>3 DEF OneMore
  <2>2. /\ OpenNow(h, r, "upload") /\ ~Opens(f, "upload") /\ ~Opens(f, "download") /\ ~Aborts(f)
        /\ ~(Answers(f, h[r].addr) /\ ExpeditedBit(f.cmd))
    BY <2>1, OpenBefore
  <2>3. \A s \in r .. Len(h) : ~AcceptsFrom(h, r, s, "upload")
    <3>1. \A s \in r .. Len(h) : s \in r .. Len(g) BY <1>1
    <3> QED BY <2>1, <3>1, AcceptsFromKept
  <2>4. Waits(t, h[r].addr) /\ \A k \in r + 1 .. Len(h) : ~Answers(h[k], h[r].addr)
    BY <2>1, <2>2, <2>3 DEF Awaiting
  <2>5. \A k \in r + 1 .. Len(g) - 1 : ~Answers(g[k], g[r].addr)
    <3>1. \A k \in r + 1 .. Len(g) - 1 : k \in r + 1 .. Len(h) /\ g[k] = h[k] BY <1>1, <2>1 DEF OneMore
    <3> QED BY <2>1, <2>4, <3>1
  <2>6. ~Answers(f, h[r].addr)
    <3> SUFFICES ASSUME Answers(f, h[r].addr) PROVE FALSE OBVIOUS
    <3>1. Len(g) > r /\ Len(g) \in r .. Len(g) BY <1>1, <2>1
    <3>2. AcceptsFrom(g, r, Len(g), "upload") BY <1>1, <2>1, <2>2, <2>5, <3>1 DEF AcceptsFrom
    <3> QED BY <3>1, <3>2
  <2>7. u = t
    <3>1. ~accepting(t) BY <2>4 DEF accepting, Waits
    <3> QED BY <2>2, <2>4, <2>6, <3>1, OthersIgnored DEF Waits
  <2>8. \A k \in r + 1 .. Len(g) : k \in r + 1 .. Len(g) - 1 \/ k = Len(g) BY <1>1
  <2> QED BY <1>1, <2>1, <2>4, <2>5, <2>6, <2>7, <2>8
<1> QED BY <1>2, <1>3

\* Segments after the last frame: none.
LEMMA NoSegmentsYet ==
    ASSUME NEW g \in Seq(Frames), NEW op, NEW data \in Seq(Payload),
           NEW pos \in [1 .. Len(data) -> 1 .. Len(g)], Segments(g, Len(g), pos, op, data)
    PROVE  data = << >>
<1>1. \A i \in 1 .. Len(data) : pos[i] > Len(g) /\ pos[i] \in 1 .. Len(g) BY DEF Segments
<1>2. Len(g) \in Nat /\ Len(data) \in Nat OBVIOUS
<1>3. \A i \in 1 .. Len(data) : FALSE BY <1>1, <1>2
<1>4. Len(data) = 0 BY <1>2, <1>3
<1> QED BY <1>4, EmptySeq

\* Before a segment came the transfer held the others.
LEMMA LessIsHeld ==
    ASSUME NEW h, NEW t, Accepting(h, t), NEW op \in {"upload", "download"}, NEW r \in 1 .. Len(h),
           NEW s \in r .. Len(h), OpenNow(h, r, op), AcceptsFrom(h, r, s, op),
           NEW f, NEW pos, NEW data, NEW less \in Seq(Payload), Shrunk(h, f, s, pos, op, data, less)
    PROVE  Holds(t, op, h[r].addr, less)
<1> DEFINE pos0 == Short(pos, Len(less))
<1>1. /\ pos0 \in [1 .. Len(less) -> 1 .. Len(h)] /\ Segments(h, s, pos0, op, less)
      /\ \A i \in 1 .. Len(less) : ~LowBit(h[pos0[i]].cmd)
  BY DEF Shrunk
<1> HIDE DEF pos0
<1> QED BY <1>1 DEF Accepting

\* A transfer that accepts segments holds exactly those that have come.
LEMMA AcceptingKept ==
    ASSUME NEW h, NEW f, NEW g, OneMore(h, f, g), NEW t, Awaiting(h, t), Accepting(h, t), FrameFields(f)
    PROVE  Accepting(g, ObserveOnChannel(t, f).transfer)
<1> DEFINE u == ObserveOnChannel(t, f).transfer
<1>1. Len(h) \in Nat /\ Len(g) = Len(h) + 1 /\ g[Len(g)] = f /\ g \in Seq(Frames) BY DEF OneMore
<1> SUFFICES ASSUME NEW op \in {"upload", "download"}, NEW r \in 1 .. Len(g), NEW s \in r .. Len(g),
                    NEW data \in Seq(Payload), NEW pos \in [1 .. Len(data) -> 1 .. Len(g)],
                    OpenNow(g, r, op), AcceptsFrom(g, r, s, op), Segments(g, s, pos, op, data),
                    \A i \in 1 .. Len(data) : ~LowBit(g[pos[i]].cmd)
             PROVE  Holds(u, op, g[r].addr, data)
  BY DEF Accepting
<1>2. CASE r = Len(g)
  <2>1. s = r /\ op = "download" BY <1>1, <1>2 DEF AcceptsFrom
  <2>2. Opens(f, "download") /\ g[r] = f BY <1>1, <1>2, <2>1 DEF OpenNow
  <2>3. u = newTransfer("download", DataDirection("download"), f.addr) BY <2>2, OpeningReplaces
  <2>4. data = << >> BY <1>1, <1>2, <2>1, NoSegmentsYet
  <2>5. f.addr \in Addr BY DEF FrameFields
  <2> QED BY <2>1, <2>2, <2>3, <2>4, <2>5, NewTransferHolds
<1>3. CASE r # Len(g)
  <2>1. r \in 1 .. Len(h) /\ g[r] = h[r] BY <1>1, <1>3 DEF OneMore
  <2>2. /\ OpenNow(h, r, op) /\ ~Opens(f, "upload") /\ ~Opens(f, "download") /\ ~Aborts(f)
        /\ op = "upload" => ~(Answers(f, h[r].addr) /\ ExpeditedBit(f.cmd))
    BY <2>1, OpenBefore
  <2>3. CASE s = Len(g)
    <3>1. op = "upload" BY <1>3, <2>3 DEF AcceptsFrom
    <3>2. /\ Answers(f, h[r].addr) /\ ~ExpeditedBit(f.cmd)
          /\ \A k \in r + 1 .. Len(h) : ~Answers(h[k], h[r].addr)
      <4>1. \A k \in r + 1 .. Len(h) : k \in r + 1 .. s - 1 /\ g[k] = h[k] BY <1>1, <2>1, <2>3 DEF OneMore
      <4> QED BY <1>1, <2>1, <2>3, <3>1, <4>1 DEF AcceptsFrom
    <3>3. \A k \in r .. Len(h) : ~AcceptsFrom(h, r, k, "upload")
      <4> SUFFICES ASSUME NEW k \in r .. Len(h), AcceptsFrom(h, r, k, "upload") PROVE FALSE OBVIOUS
      <4>1. k > r /\ Answers(h[k], h[r].addr) BY DEF AcceptsFrom
      <4>2. k \in r + 1 .. Len(h) BY <1>1, <4>1
      <4> QED BY <3>2, <4>1, <4>2
    <3>4. Waits(t, h[r].addr) BY <2>1, <2>2, <3>1, <3>3 DEF Awaiting
    <3>5. u = [t EXCEPT !.uploadInitiated = TRUE] BY <3>2, <3>4, AnswerAccepted DEF Waits
    <3>6. /\ u \in Transfer /\ u.operation = t.operation /\ u.direction = t.direction /\ u.addr = t.addr
          /\ u.uploadInitiated = TRUE /\ u.toggle = t.toggle /\ u.data = t.data
      BY <3>4, <3>5 DEF Waits, Transfer
    <3> HIDE DEF u
    <3>7. data = << >> BY <1>1, <2>3, NoSegmentsYet
    <3>8. Len(data) % 2 # 1 BY <3>7, Parity
    <3> QED BY <2>1, <3>1, <3>4, <3>6, <3>7, <3>8 DEF Waits, Holds
  <2>4. CASE s # Len(g)
    <3>1. s \in r .. Len(h) /\ s \in 1 .. Len(h) BY <1>1, <2>1, <2>4
    <3>2. AcceptsFrom(h, r, s, op) BY <2>1, <3>1, AcceptsBefore
    <3>3. CASE ~IsSegment(f, op)
      <4>1. /\ pos \in [1 .. Len(data) -> 1 .. Len(h)] /\ Segments(h, s, pos, op, data)
            /\ \A i \in 1 .. Len(data) : g[pos[i]] = h[pos[i]]
        BY <3>1, <3>3, SegmentsBefore
      <4>2. Holds(t, op, h[r].addr, data) BY <2>1, <2>2, <3>1, <3>2, <4>1 DEF Accepting
      <4>3. CASE op = "upload" /\ Answers(f, h[r].addr)
        <5>1. u = [t EXCEPT !.uploadInitiated = TRUE] BY <2>2, <4>2, <4>3, AnswerAccepted DEF Holds
        <5>2. /\ u \in Transfer /\ u.operation = t.operation /\ u.direction = t.direction /\ u.addr = t.addr
              /\ u.uploadInitiated = TRUE /\ u.toggle = t.toggle /\ u.data = t.data
          BY <4>2, <5>1 DEF Holds, Transfer
        <5> HIDE DEF u
        <5> QED BY <2>1, <4>2, <5>2 DEF Holds
      <4>4. CASE ~(op = "upload" /\ Answers(f, h[r].addr))
        <5>1. u = t BY <2>2, <3>3, <4>2, <4>4, OthersIgnored DEF Holds
        <5> QED BY <2>1, <4>2, <5>1
      <4> QED BY <4>3, <4>4
    <3>4. CASE IsSegment(f, op)
      <4>1. PICK less \in Seq(Payload) : Shrunk(h, f, s, pos, op, data, less)
        BY <3>1, <3>4, SegmentsShrink
      <4>2. Holds(t, op, h[r].addr, less) BY <2>1, <2>2, <3>1, <3>2, <4>1, LessIsHeld
      <4>3. ~LowBit(f.cmd)
        <5>1. Len(g) \in s + 1 .. Len(g) BY <1>1, <3>1
        <5>2. PICK i \in 1 .. Len(data) : pos[i] = Len(g) BY <1>1, <3>4, <5>1 DEF Segments
        <5> QED BY <1>1, <5>2
      <4>4. ToggleBit(f.cmd) = t.toggle BY <4>1, <4>2 DEF Holds, Transfer, ToggleBit, Shrunk
      <4>5. accepting(t) BY <4>2 DEF Holds, accepting
      <4>6. u = [t EXCEPT !.data = data, !.toggle = ~@]
        BY <3>4, <4>1, <4>2, <4>3, <4>4, <4>5, SegmentAccepted DEF Holds, Shrunk
      <4>7. /\ u \in Transfer /\ u.operation = t.operation /\ u.direction = t.direction /\ u.addr = t.addr
            /\ u.uploadInitiated = t.uploadInitiated /\ u.data = data
        BY <4>2, <4>6 DEF Holds, Transfer
      <4>8. u.toggle = ~t.toggle BY <4>2, <4>6 DEF Holds, Transfer
      <4> HIDE DEF u
      <4>9. u.toggle <=> Len(data) % 2 = 1
        <5>1. Len(less) \in Nat /\ Len(data) = Len(less) + 1 BY <4>1 DEF Shrunk
        <5>2. Len(less) % 2 = 1 <=> Len(data) % 2 # 1 BY <5>1, Parity
        <5>3. t.toggle <=> Len(less) % 2 = 1 BY <4>2 DEF Holds
        <5> QED BY <4>8, <5>2, <5>3
      <4> QED BY <2>1, <4>2, <4>7, <4>9 DEF Holds
    <3> QED BY <3>3, <3>4
  <2> QED BY <2>3, <2>4
<1> QED BY <1>2, <1>3

\* An expedited answer to the upload that waits for it is reported.
LEMMA ExpeditedIsReported ==
    ASSUME NEW h, NEW f, NEW g, OneMore(h, f, g), NEW t, Awaiting(h, t), NEW r \in 1 .. Len(g), NEW x,
           ExpeditedUpload(g, x, r), \A s \in r .. Len(g) : ~AcceptsFrom(g, r, s, "upload")
    PROVE  ObserveOnChannel(t, f).event = x
<1>1. Len(h) \in Nat /\ Len(g) = Len(h) + 1 /\ g[Len(g)] = f BY DEF OneMore
<1>2. /\ OpenSince(g, r, "upload") /\ Answers(f, g[r].addr) /\ ExpeditedBit(f.cmd)
      /\ x = [operation |-> "upload", direction |-> ServerToClient, addr |-> g[r].addr, data |-> expeditedData(f)]
  BY <1>1 DEF ExpeditedUpload
<1>3. r # Len(g)
  <2>1. f.dir = ServerToClient BY <1>2 DEF Answers
  <2>2. Opens(g[r], "upload") BY <1>2 DEF OpenSince
  <2> QED BY <1>1, <2>1, <2>2 DEF Opens, ClientToServer, ServerToClient
<1>4. r \in 1 .. Len(h) /\ g[r] = h[r] BY <1>1, <1>3 DEF OneMore
<1>5. OpenNow(h, r, "upload") BY <1>2, <1>4, OpenBefore
<1>6. \A s \in r .. Len(h) : ~AcceptsFrom(h, r, s, "upload")
  <2>1. \A s \in r .. Len(h) : s \in r .. Len(g) BY <1>1
  <2> QED BY <1>4, <2>1, AcceptsFromKept
<1>7. Waits(t, h[r].addr) BY <1>4, <1>5, <1>6 DEF Awaiting
<1>8. ObserveOnChannel(t, f).event = complete(t, expeditedData(f))
  BY <1>2, <1>4, <1>7, AnswerAccepted DEF Waits
<1> QED BY <1>2, <1>4, <1>7, <1>8 DEF Waits, complete, DataDirection

\* The last segment of a transfer that holds the others is reported.
LEMMA SegmentedIsReported ==
    ASSUME NEW h, NEW f, NEW g, OneMore(h, f, g), NEW t, Accepting(h, t), NEW r \in 1 .. Len(g),
           NEW op \in {"upload", "download"}, NEW s \in r .. Len(g) - 1, NEW data \in Seq(Payload),
           NEW pos \in [1 .. Len(data) -> 1 .. Len(g)],
           SegmentedFrom(g, Completed(op, g[r].addr, data), r, s, pos)
    PROVE  ObserveOnChannel(t, f).event = Completed(op, g[r].addr, data)
<1> DEFINE x == Completed(op, g[r].addr, data)
<1>1. Len(h) \in Nat /\ Len(g) = Len(h) + 1 /\ g[Len(g)] = f BY DEF OneMore
<1>2. x.operation = op /\ x.data = data BY DEF Completed
<1>3. /\ OpenSince(g, r, op) /\ AcceptsFrom(g, r, s, op) /\ Segments(g, s, pos, op, data)
      /\ Len(data) > 0 /\ pos[Len(data)] = Len(g) /\ LowBit(f.cmd)
  BY <1>1, <1>2 DEF SegmentedFrom
<1>4. r \in 1 .. Len(h) /\ s \in r .. Len(h) /\ s \in 1 .. Len(h) /\ g[r] = h[r] BY <1>1 DEF OneMore
<1>5. IsSegment(f, op)
  <2>1. Len(data) \in 1 .. Len(data) BY <1>3
  <2> QED BY <1>1, <1>3, <2>1 DEF Segments
<1>6. PICK less \in Seq(Payload) : Shrunk(h, f, s, pos, op, data, less) BY <1>3, <1>4, <1>5, SegmentsShrink
<1>7. OpenNow(h, r, op) /\ AcceptsFrom(h, r, s, op) BY <1>3, <1>4, OpenBefore, AcceptsBefore
<1>8. Holds(t, op, h[r].addr, less) BY <1>4, <1>6, <1>7, LessIsHeld
<1>9. ToggleBit(f.cmd) = t.toggle BY <1>6, <1>8 DEF Holds, Transfer, ToggleBit, Shrunk
<1>10. accepting(t) BY <1>8 DEF Holds, accepting
<1>11. ObserveOnChannel(t, f).event = complete(t, data)
  BY <1>3, <1>5, <1>6, <1>8, <1>9, <1>10, SegmentAccepted DEF Holds, Shrunk
<1> QED BY <1>4, <1>8, <1>11 DEF Holds, complete, Completed

\* So whatever the last frame completes is reported.
LEMMA ReportedAfter ==
    ASSUME NEW h, NEW f, NEW g, OneMore(h, f, g), NEW t, Awaiting(h, t), Accepting(h, t)
    PROVE  Reported(g, ObserveOnChannel(t, f).event)
<1>1. ASSUME NEW r \in 1 .. Len(g), NEW x, ExpeditedUpload(g, x, r),
             \A s \in r .. Len(g) : ~AcceptsFrom(g, r, s, "upload")
      PROVE  ObserveOnChannel(t, f).event = x
  BY <1>1, ExpeditedIsReported
<1>2. ASSUME NEW r \in 1 .. Len(g), NEW op \in {"upload", "download"}, NEW s \in r .. Len(g) - 1,
             NEW data \in Seq(Payload), NEW pos \in [1 .. Len(data) -> 1 .. Len(g)],
             SegmentedFrom(g, Completed(op, g[r].addr, data), r, s, pos)
      PROVE  ObserveOnChannel(t, f).event = Completed(op, g[r].addr, data)
  BY <1>2, SegmentedIsReported
<1> QED BY <1>1, <1>2 DEF Reported

-----------------------------------------------------------------------------
Complete(h, t, e) == Awaiting(h, t) /\ Accepting(h, t) /\ Reported(h, e)

(* Each channel holds what its frames have opened and not yet completed,   *)
(* and has reported what the last of them completed.                       *)
CompleteInv == \A ch \in Channels : Complete(seen[ch], transfers[ch], event[ch])

\* CompleteInv is inductive: each observation is complete.
LEMMA CompleteInductive == TypeOK /\ CompleteInv /\ [Next]_vars => CompleteInv'
<1> SUFFICES ASSUME TypeOK, CompleteInv, [Next]_vars PROVE CompleteInv' OBVIOUS
<1>1. CASE UNCHANGED vars
  <2>1. transfers' = transfers /\ event' = event /\ seen' = seen BY <1>1 DEF vars
  <2> QED BY <2>1 DEF CompleteInv
<1>2. ASSUME NEW ch \in Channels, NEW f \in Frames, Observe(ch, f) PROVE CompleteInv'
  <2> DEFINE o == ObserveOnChannel(transfers[ch], f)
             g == Append(seen[ch], f)
  <2>1. /\ seen[ch] \in Seq(Frames)
        /\ transfers \in [Channels -> Transfer \cup {NoTransfer}]
        /\ event \in [Channels -> Event \cup {NoEvent}] /\ seen \in [Channels -> Seq(Frames)]
    BY DEF TypeOK
  <2>2. OneMore(seen[ch], f, g) BY <2>1, AppendIsOneMore
  <2>3. Awaiting(seen[ch], transfers[ch]) /\ Accepting(seen[ch], transfers[ch])
    BY DEF CompleteInv, Complete
  <2>4. FrameFields(f) BY FramesHaveFields
  <2>5. Complete(g, o.transfer, o.event)
    BY <2>2, <2>3, <2>4, AwaitingKept, AcceptingKept, ReportedAfter DEF Complete
  <2>6. /\ transfers' = [transfers EXCEPT ![ch] = o.transfer]
        /\ event' = [event EXCEPT ![ch] = o.event]
        /\ seen' = [seen EXCEPT ![ch] = g]
    BY <1>2 DEF Observe
  <2> HIDE DEF o, g
  <2>7. \A c \in Channels :
           /\ c = ch => transfers'[c] = o.transfer /\ event'[c] = o.event /\ seen'[c] = g
           /\ c # ch => transfers'[c] = transfers[c] /\ event'[c] = event[c] /\ seen'[c] = seen[c]
    BY <2>1, <2>6
  <2> SUFFICES ASSUME NEW c \in Channels PROVE Complete(seen'[c], transfers'[c], event'[c])
    BY DEF CompleteInv
  <2>8. CASE c = ch BY <2>5, <2>7, <2>8
  <2>9. CASE c # ch BY <2>7, <2>9 DEF CompleteInv
  <2> QED BY <2>8, <2>9
<1> QED BY <1>1, <1>2 DEF Next

\* An event that reports what the last frame completed misses no transfer.
LEMMA ReportedIsEnough ==
    ASSUME TypeOK, CompleteInv
    PROVE  NoTransferIsMissed
<1> SUFFICES ASSUME NEW ch \in Channels, NEW r \in 1 .. Len(seen[ch])
             PROVE  LET h == seen[ch] IN
        /\ LET e == [operation |-> "upload", direction |-> ServerToClient, addr |-> h[r].addr,
                     data |-> expeditedData(h[Len(h)])]
           IN  /\ ExpeditedUpload(h, e, r)
               /\ \A s \in r .. Len(h) : ~AcceptsFrom(h, r, s, "upload")
               => event[ch] = e
        /\ \A op \in {o \in {"upload", "download"} : OpenSince(h, r, o)} :
           \A s \in {k \in r .. Len(h) - 1 : AcceptsFrom(h, r, k, op)} :
             LET P == {k \in s + 1 .. Len(h) : IsSegment(h[k], op)}
             IN  \A pos \in [1 .. Cardinality(P) -> P] :
                   LET e == [operation |-> op, direction |-> DataDirection(op), addr |-> h[r].addr,
                             data |-> [i \in 1 .. Cardinality(P) |-> segmentData(h[pos[i]])]]
                   IN  SegmentedFrom(h, e, r, s, pos) => event[ch] = e
  BY DEF NoTransferIsMissed
<1> DEFINE h == seen[ch]
<1>1. h \in Seq(Frames) /\ Reported(h, event[ch]) BY DEF TypeOK, CompleteInv, Complete
<1>2. r \in 1 .. Len(h) OBVIOUS
<1> HIDE DEF h
<1>3. ASSUME NEW e, ExpeditedUpload(h, e, r), \A s \in r .. Len(h) : ~AcceptsFrom(h, r, s, "upload")
      PROVE  event[ch] = e
  BY <1>1, <1>2, <1>3 DEF Reported
<1>4. ASSUME NEW op \in {"upload", "download"}, NEW s \in r .. Len(h) - 1,
             NEW pos \in [1 .. Cardinality({k \in s + 1 .. Len(h) : IsSegment(h[k], op)})
                            -> {k \in s + 1 .. Len(h) : IsSegment(h[k], op)}],
             SegmentedFrom(h, Completed(op, h[r].addr,
                [i \in 1 .. Cardinality({k \in s + 1 .. Len(h) : IsSegment(h[k], op)}) |-> segmentData(h[pos[i]])]), r, s, pos)
      PROVE  event[ch] = Completed(op, h[r].addr,
                [i \in 1 .. Cardinality({k \in s + 1 .. Len(h) : IsSegment(h[k], op)}) |-> segmentData(h[pos[i]])])
  <2> DEFINE P == {k \in s + 1 .. Len(h) : IsSegment(h[k], op)}
             n == Cardinality(P)
             data == [i \in 1 .. n |-> segmentData(h[pos[i]])]
  <2>1. Len(h) \in Nat /\ r \in Nat /\ s \in Nat BY <1>1, <1>2
  <2>2. n \in Nat
    <3>1. IsFiniteSet(s + 1 .. Len(h)) BY <2>1, FS_Interval
    <3>2. IsFiniteSet(P) BY <3>1, FS_Subset
    <3> QED BY <3>2, FS_CardinalityType
  <2>3. \A k \in P : k \in 1 .. Len(h) /\ h[k] \in Frames BY <1>1, <2>1
  <2>4. pos \in [1 .. n -> P] OBVIOUS
  <2> HIDE DEF P, n
  <2>5. pos \in [1 .. n -> 1 .. Len(h)] BY <2>3, <2>4
  <2>6. data \in Seq(Payload)
    <3>1. \A i \in 1 .. n : segmentData(h[pos[i]]) \in Payload BY <2>3, <2>4, FramesHaveFields, PayloadType
    <3> QED BY <2>2, <3>1, IsASeq
  <2>7. Len(data) = n BY <2>2, <2>6
  <2>8. SegmentedFrom(h, Completed(op, h[r].addr, data), r, s, pos) BY <1>4 DEF n, P
  <2>9. event[ch] = Completed(op, h[r].addr, data)
    <3> HIDE DEF data
    <3> QED BY <1>1, <1>2, <2>5, <2>6, <2>7, <2>8 DEF Reported
  <2> QED BY <2>9 DEF n, P
<1> QED BY <1>3, <1>4 DEF h, Completed

(* Conversely, whatever the bus carries, no transfer that the frames of a  *)
(* channel complete is missed: mismatched answers, stray or truncated      *)
(* frames between its own do not end it (ObserveOnChannel).                *)
THEOREM NothingMissed == Spec => []NoTransferIsMissed
<1>1. New => CompleteInv
  <2> SUFFICES ASSUME New, NEW ch \in Channels PROVE Complete(<< >>, transfers[ch], event[ch])
    BY DEF New, CompleteInv
  <2>1. \A r \in 1 .. Len(<< >>) : FALSE OBVIOUS
  <2> QED BY <2>1 DEF Complete, Awaiting, Accepting, Reported
<1>2. TypeOK /\ CompleteInv => NoTransferIsMissed BY ReportedIsEnough
<1> QED BY <1>1, <1>2, CompleteInductive, TypeCorrect, PTL DEF Spec

(* The transfer a channel holds is the one its frames last opened and not  *)
(* yet closed, with all its segments so far (Observer.transfers).          *)
THEOREM TransfersTracked == Spec => []TransfersAreTracked
BY ReassemblyIsSound, PTL
=============================================================================
