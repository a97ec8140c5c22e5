-------------------------- MODULE Lifecycle_proofs --------------------------
(***************************************************************************)
(* Proofs about the life of a receiver, for any pipelines, any enabled     *)
(* signals, any number of reloads and any number of frames: a receiver ID  *)
(* has one instance and at most one connection, a first start that         *)
(* succeeds runs, a shutdown no caller of which gave up waiting leaves     *)
(* nothing behind and is the last the consumers hear, and the dispatch     *)
(* loop flushes what it decodes.                                           *)
(***************************************************************************)
EXTENDS Lifecycle, FiniteSetTheorems, SequenceTheorems, TLAPS

(* What holds of an instance by itself.  Before Start has run it is empty; *)
(* what Start made, only Shutdown ends; and once Start or Shutdown has     *)
(* been called every pipeline has its consumer there.                      *)
Fresh(r) == /\ r.conn = "none" /\ r.poller = "none" /\ ~r.startErr /\ ~r.shutdownOnce
            /\ r.loop = "none"

Connected(r) == /\ r.conn = "none" <=> r.loop = "none"
                /\ r.loop = "none" => r.poller = "none" /\ \A s \in Signals : r.builder[s] = << >>
                /\ r.startOnce /\ ~r.startErr => r.conn # "none"
                /\ r.startErr => r.conn = "none"

Running(r) == ~r.shutdownOnce => ~r.cancelled /\ r.conn # "closed" /\ r.loop # "done"

NoFrames(b) == \A k \in 1 .. Len(b) : b[k] # "frame"

(* The dispatch loop on its way from a frame to the next receive: metrics  *)
(* are flushed first, then logs.                                           *)
Flushed(r) ==
    /\ r.loop = "recv" => \A s \in r.consumers : NoFrames(r.builder[s])
    /\ r.loop = "logs" /\ "metrics" \in r.consumers => NoFrames(r.builder["metrics"])

InstanceOK(r) ==
    /\ r \in Receiver
    /\ ~r.startOnce => Fresh(r)
    /\ r.startOnce => Pipelines \subseteq r.consumers
    /\ Connected(r) /\ Running(r) /\ Flushed(r)

Instances == /\ receivers \in Seq(Receiver)
             /\ \A i \in 1 .. Len(receivers) : InstanceOK(receivers[i])

(* An entry of sharedReceivers is never removed: one instance, for good.   *)
OneInstance == Len(receivers) \in {0, 1} /\ shared = Len(receivers)

(* How far the Collector has got with the instance.                        *)
CollectorOK ==
    /\ generation \in 1 .. MaxGenerations /\ phase \in {"build", "start", "run", "stop"}
    /\ pipeline \in [Pipelines -> 0 .. Len(receivers)]
    /\ started \subseteq Pipelines /\ stopped \subseteq Pipelines
    /\ items \in 0 .. MaxItems /\ consumed \in Nat
    /\ phase # "build" => \A s \in Pipelines : pipeline[s] # 0

Progress ==
    \A i \in 1 .. Len(receivers) :
        /\ \A s \in Pipelines : pipeline[s] = i => s \in receivers[i].consumers
        /\ phase \in {"run", "stop"} => receivers[i].startOnce
        /\ phase = "run" => ~receivers[i].startErr
        /\ generation = 1 /\ phase # "stop" => ~receivers[i].shutdownOnce
        /\ receivers[i].cfg <= generation

Emptied(r) == \A s \in r.consumers : r.builder[s] = << >>

(* A doShutdown in progress: after wg.Wait no goroutine is left, after     *)
(* flushMetrics no metrics.                                                *)
StoppingOK ==
    stopping # NotStopping =>
        /\ stopping \in [receiver : 1 .. Len(receivers), signal : Pipelines,
                         step : {"cancel", "close", "wait", "metrics", "logs"}]
        /\ receivers[stopping.receiver].shutdownOnce
        /\ stopping.receiver \notin quiet \cup expired
        /\ stopping.step \in {"metrics", "logs"} => wgDone(receivers[stopping.receiver])
        /\ stopping.step = "logs" /\ "metrics" \in receivers[stopping.receiver].consumers =>
             receivers[stopping.receiver].builder["metrics"] = << >>

(* A doShutdown that ran to its end has left no goroutine and nothing in   *)
(* the builders.                                                           *)
QuietOK ==
    /\ quiet \cup expired \subseteq 1 .. Len(receivers)
    /\ \A i \in quiet \cup expired : receivers[i].shutdownOnce
    /\ \A i \in quiet \ expired : wgDone(receivers[i]) /\ Emptied(receivers[i])

(* A doShutdown that was begun and is over has returned nil or the         *)
(* context's error: only then does a later Shutdown return nil at once.    *)
Accounted ==
    \A i \in 1 .. Len(receivers) : receivers[i].shutdownOnce =>
        i \in quiet \cup expired \/ (stopping # NotStopping /\ stopping.receiver = i)

IInv == Instances /\ OneInstance /\ CollectorOK /\ Progress /\ StoppingOK /\ QuietOK /\ Accounted

-----------------------------------------------------------------------------
(* Changes of one instance.                                                *)

\* Storing an instance that is as it should be.
LEMMA StoreInstance ==
    ASSUME Instances, NEW i \in 1 .. Len(receivers), NEW r, InstanceOK(r),
           receivers' = [receivers EXCEPT ![i] = r]
    PROVE  /\ Instances' /\ Len(receivers') = Len(receivers)
           /\ receivers'[i] = r
           /\ \A j \in 1 .. Len(receivers) : j # i => receivers'[j] = receivers[j]
<1>1. receivers \in Seq(Receiver) /\ r \in Receiver BY DEF Instances, InstanceOK
<1>2. /\ receivers' \in Seq(Receiver) /\ Len(receivers') = Len(receivers) /\ receivers'[i] = r
      /\ \A j \in 1 .. Len(receivers) : j # i => receivers'[j] = receivers[j]
  BY <1>1
<1> QED BY <1>2 DEF Instances

\* A record that keeps what the other components of the state speak of.
SameCalls(r, q) == /\ q.cfg = r.cfg /\ q.startOnce = r.startOnce /\ q.startErr = r.startErr
                   /\ q.shutdownOnce = r.shutdownOnce /\ q.consumers = r.consumers

\* What a Shutdown that waited for the goroutines relies on stays as it is.
Steady(r, q) ==
    r.shutdownOnce => /\ q.shutdownOnce
                      /\ wgDone(r) => wgDone(q) /\ q.consumers = r.consumers /\ q.builder = r.builder

\* A step that is steady disturbs neither a Shutdown in progress nor one that has returned.
LEMMA StoreSteady ==
    ASSUME IInv, NEW i \in 1 .. Len(receivers), NEW r, InstanceOK(r),
           receivers' = [receivers EXCEPT ![i] = r], Steady(receivers[i], r), UNCHANGED <<shared, quiet, expired>>
    PROVE  /\ Instances' /\ OneInstance' /\ QuietOK'
           /\ UNCHANGED stopping => StoppingOK'
           /\ UNCHANGED stopping /\ r.shutdownOnce = receivers[i].shutdownOnce => Accounted'
<1>1. /\ Instances' /\ Len(receivers') = Len(receivers) /\ receivers'[i] = r
      /\ \A j \in 1 .. Len(receivers) : j # i => receivers'[j] = receivers[j]
  BY StoreInstance DEF IInv
<1>2. OneInstance' BY <1>1 DEF IInv, OneInstance
<1>3. QuietOK'
  <2>1. quiet \cup expired \subseteq 1 .. Len(receivers') BY <1>1 DEF IInv, QuietOK
  <2>2. ASSUME NEW j \in quiet \cup expired
        PROVE  receivers'[j].shutdownOnce /\ (j \notin expired => wgDone(receivers'[j]) /\ Emptied(receivers'[j]))
    <3>1. receivers[j].shutdownOnce /\ (j \notin expired => wgDone(receivers[j]) /\ Emptied(receivers[j]))
      BY DEF IInv, QuietOK
    <3>2. CASE j = i BY <1>1, <3>1, <3>2 DEF Steady, Emptied
    <3>3. CASE j # i BY <1>1, <2>1, <3>1, <3>3
    <3> QED BY <3>2, <3>3
  <2> QED BY <2>1, <2>2 DEF QuietOK
<1>4. UNCHANGED stopping => StoppingOK'
  <2> SUFFICES ASSUME UNCHANGED stopping, stopping # NotStopping PROVE StoppingOK' BY DEF StoppingOK
  <2>1. stopping.receiver \in 1 .. Len(receivers) BY DEF IInv, StoppingOK
  <2>2. CASE stopping.receiver = i BY <1>1, <2>2 DEF IInv, StoppingOK, Steady
  <2>3. CASE stopping.receiver # i BY <1>1, <2>1, <2>3 DEF IInv, StoppingOK
  <2> QED BY <2>2, <2>3
<1>5. UNCHANGED stopping /\ r.shutdownOnce = receivers[i].shutdownOnce => Accounted'
  BY <1>1 DEF IInv, Accounted
<1> QED BY <1>1, <1>2, <1>3, <1>4, <1>5

(* A step of a goroutine of instance i: after wg.Wait there is none, so it *)
(* disturbs neither a Shutdown that is past it nor one that has returned.  *)
LEMMA GoroutineKeeps ==
    ASSUME IInv, NEW i \in 1 .. Len(receivers), NEW r, InstanceOK(r),
           receivers' = [receivers EXCEPT ![i] = r], SameCalls(receivers[i], r),
           ~wgDone(receivers[i]),
           UNCHANGED <<shared, collector, stopping, quiet, expired>>,
           items' \in 0 .. MaxItems, consumed' \in Nat
    PROVE  IInv'
<1>1. /\ Len(receivers') = Len(receivers) /\ receivers'[i] = r
      /\ \A j \in 1 .. Len(receivers) : j # i => receivers'[j] = receivers[j]
  BY StoreInstance DEF IInv
<1>2. \A j \in 1 .. Len(receivers) : SameCalls(receivers[j], receivers'[j]) BY <1>1 DEF SameCalls
<1>3. Steady(receivers[i], r) BY DEF Steady, SameCalls
<1>4. Instances' /\ OneInstance' /\ StoppingOK' /\ QuietOK' /\ Accounted' BY <1>3, StoreSteady DEF SameCalls
<1>5. CollectorOK' BY <1>1 DEF IInv, CollectorOK, collector
<1>6. Progress' BY <1>1, <1>2 DEF IInv, Progress, collector, SameCalls
<1> QED BY <1>4, <1>5, <1>6 DEF IInv

-----------------------------------------------------------------------------
(* The steps of the goroutines, on an instance.                            *)

\* A builder of an instance is a sequence of items.
LEMMA BuilderType ==
    ASSUME NEW r \in Receiver, NEW s \in Signals PROVE r.builder[s] \in Seq({"frame", "poll"})
BY DEF Receiver

\* All of a record but its builders.
SameButBuilders(r, q) ==
    /\ SameCalls(r, q)
    /\ q.conn = r.conn /\ q.cancelled = r.cancelled /\ q.loop = r.loop /\ q.poller = r.poller

\* HandleFrame appends an item to the enabled builders and leaves the rest.
LEMMA SniffedFields ==
    ASSUME NEW r \in Receiver, NEW o \in {"frame", "poll"}
    PROVE  /\ Sniffed(r, o) \in Receiver /\ SameButBuilders(r, Sniffed(r, o))
           /\ \A s \in Signals : Sniffed(r, o).builder[s] \in {r.builder[s], Append(r.builder[s], o)}
<1> DEFINE b == [s \in Signals |-> IF s \in Enabled THEN Append(r.builder[s], o) ELSE r.builder[s]]
<1>1. Sniffed(r, o) = [r EXCEPT !.builder = b] BY DEF Sniffed
<1>2. b \in [Signals -> Seq({"frame", "poll"})] BY BuilderType
<1>3. \A s \in Signals : b[s] \in {r.builder[s], Append(r.builder[s], o)} OBVIOUS
<1> HIDE DEF b
<1>4. [r EXCEPT !.builder = b] \in Receiver BY <1>2 DEF Receiver
<1>5. [r EXCEPT !.builder = b].builder = b BY DEF Receiver
<1>6. SameButBuilders(r, [r EXCEPT !.builder = b]) BY DEF Receiver, SameButBuilders, SameCalls
<1> QED BY <1>1, <1>3, <1>4, <1>5, <1>6

\* Appending a request keeps a builder free of frames.
LEMMA PollIsNoFrame ==
    ASSUME NEW b \in Seq({"frame", "poll"}), NoFrames(b) PROVE NoFrames(Append(b, "poll"))
BY DEF NoFrames

\* A poller's request may be sniffed at any point of the dispatch loop.
LEMMA PollSniffedOK ==
    ASSUME NEW r, InstanceOK(r), r.poller = "running" PROVE InstanceOK(Sniffed(r, "poll"))
<1> DEFINE q == Sniffed(r, "poll")
<1>0. r \in Receiver BY DEF InstanceOK
<1>1. /\ q \in Receiver /\ SameButBuilders(r, q)
      /\ \A s \in Signals : q.builder[s] \in {r.builder[s], Append(r.builder[s], "poll")}
  BY <1>0, SniffedFields
<1> HIDE DEF q
<1>2. r.loop # "none" BY DEF InstanceOK, Connected
<1>3. ~q.startOnce => Fresh(q) BY <1>1 DEF InstanceOK, Fresh, SameButBuilders, SameCalls
<1>4. q.startOnce => Pipelines \subseteq q.consumers BY <1>1 DEF InstanceOK, SameButBuilders, SameCalls
<1>5. Connected(q) /\ Running(q)
  BY <1>1, <1>2 DEF InstanceOK, Connected, Running, SameButBuilders, SameCalls
<1>6. ASSUME NEW s \in Signals, NoFrames(r.builder[s]) PROVE NoFrames(q.builder[s])
  <2>1. NoFrames(Append(r.builder[s], "poll")) BY <1>0, <1>6, BuilderType, PollIsNoFrame
  <2> QED BY <1>1, <1>6, <2>1
<1>7. Flushed(q)
  <2>1. r.consumers \subseteq Signals /\ "metrics" \in Signals BY <1>0 DEF Receiver, Signals
  <2> QED BY <1>1, <1>6, <2>1 DEF InstanceOK, Flushed, SameButBuilders, SameCalls
<1> QED BY <1>1, <1>3, <1>4, <1>5, <1>7 DEF InstanceOK, q

\* Moving the dispatch loop on, and nothing else.
LEMMA LoopMoves ==
    ASSUME NEW r \in Receiver, NEW l \in {"recv", "metrics", "logs", "done"},
           r.loop # "none"
    PROVE  LET q == [r EXCEPT !.loop = l]
           IN  /\ q \in Receiver /\ SameCalls(r, q) /\ q.loop = l
               /\ q.conn = r.conn /\ q.cancelled = r.cancelled /\ q.poller = r.poller /\ q.builder = r.builder
BY DEF Receiver, SameCalls

\* The loop takes a frame: both builders may hold it now.
LEMMA FrameSniffedOK ==
    ASSUME NEW r, InstanceOK(r), r.loop = "recv"
    PROVE  LET q == [Sniffed(r, "frame") EXCEPT !.loop = "metrics"]
           IN  InstanceOK(q) /\ SameCalls(r, q)
<1> DEFINE p == Sniffed(r, "frame")
           q == [p EXCEPT !.loop = "metrics"]
<1>0. r \in Receiver BY DEF InstanceOK
<1>1. p \in Receiver /\ SameButBuilders(r, p) BY <1>0, SniffedFields
<1> HIDE DEF p
<1>2. /\ q \in Receiver /\ SameCalls(p, q) /\ q.loop = "metrics"
      /\ q.conn = p.conn /\ q.cancelled = p.cancelled /\ q.poller = p.poller
  BY <1>1, LoopMoves DEF SameButBuilders
<1> HIDE DEF q
<1>3. /\ SameCalls(r, q) /\ q.conn = r.conn /\ q.cancelled = r.cancelled /\ q.poller = r.poller
  BY <1>1, <1>2 DEF SameButBuilders, SameCalls
<1>4. r.startOnce BY DEF InstanceOK, Fresh
<1>5. Connected(q) /\ Running(q) /\ Flushed(q)
  BY <1>2, <1>3 DEF InstanceOK, Connected, Running, Flushed, SameCalls
<1>6. InstanceOK(q) BY <1>2, <1>3, <1>4, <1>5 DEF InstanceOK, SameCalls
<1> QED BY <1>3, <1>6 DEF q, p

\* The loop returns, which only a Shutdown makes it do.
LEMMA LoopReturnsOK ==
    ASSUME NEW r, InstanceOK(r), r.loop = "recv", r.cancelled \/ r.conn = "closed"
    PROVE  LET q == [r EXCEPT !.loop = "done"] IN InstanceOK(q) /\ SameCalls(r, q)
<1> DEFINE q == [r EXCEPT !.loop = "done"]
<1>1. /\ q \in Receiver /\ SameCalls(r, q) /\ q.loop = "done"
      /\ q.conn = r.conn /\ q.cancelled = r.cancelled /\ q.poller = r.poller /\ q.builder = r.builder
  BY LoopMoves DEF InstanceOK
<1> HIDE DEF q
<1>2. r.startOnce /\ r.shutdownOnce BY DEF InstanceOK, Fresh, Running
<1>3. Connected(q) /\ Running(q) /\ Flushed(q)
  BY <1>1, <1>2 DEF InstanceOK, Connected, Running, Flushed, SameCalls
<1>4. InstanceOK(q) BY <1>1, <1>2, <1>3 DEF InstanceOK, SameCalls
<1> QED BY <1>1, <1>4 DEF q

\* A poller returns.
LEMMA PollerReturnsOK ==
    ASSUME NEW r, InstanceOK(r), r.poller = "running"
    PROVE  LET q == [r EXCEPT !.poller = "done"] IN InstanceOK(q) /\ SameCalls(r, q)
<1> DEFINE q == [r EXCEPT !.poller = "done"]
<1>1. /\ q \in Receiver /\ SameCalls(r, q) /\ q.loop = r.loop
      /\ q.conn = r.conn /\ q.cancelled = r.cancelled /\ q.builder = r.builder
  BY DEF InstanceOK, Receiver, SameCalls
<1> HIDE DEF q
<1>2. r.startOnce /\ r.loop # "none" BY DEF InstanceOK, Fresh, Connected
<1>3. Connected(q) /\ Running(q) /\ Flushed(q)
  BY <1>1, <1>2 DEF InstanceOK, Connected, Running, Flushed, SameCalls
<1>4. InstanceOK(q) BY <1>1, <1>2, <1>3 DEF InstanceOK, SameCalls
<1> QED BY <1>1, <1>4 DEF q

\* A flush empties the builder of a signal that has a consumer, and touches nothing else.
LEMMA FlushFields ==
    ASSUME NEW r \in Receiver, NEW s \in Signals
    PROVE  /\ flush(r, s).after \in Receiver /\ SameButBuilders(r, flush(r, s).after)
           /\ flush(r, s).calls \in {0, 1}
           /\ s \in r.consumers => flush(r, s).after.builder[s] = << >>
           /\ \A t \in Signals : flush(r, s).after.builder[t] \in {r.builder[t], << >>}
<1>1. CASE s \in r.consumers /\ r.builder[s] # << >>
  <2> DEFINE b == [r.builder EXCEPT ![s] = << >>]
  <2>1. flush(r, s).after = [r EXCEPT !.builder = b] /\ flush(r, s).calls = 1 BY <1>1 DEF flush
  <2>2. r.builder \in [Signals -> Seq({"frame", "poll"})] BY DEF Receiver
  <2>3. b \in [Signals -> Seq({"frame", "poll"})] /\ b[s] = << >> BY <2>2
  <2>4. \A t \in Signals : b[t] = IF t = s THEN << >> ELSE r.builder[t] BY <2>2
  <2> HIDE DEF b
  <2>5. [r EXCEPT !.builder = b] \in Receiver /\ [r EXCEPT !.builder = b].builder = b BY <2>3 DEF Receiver
  <2>6. SameButBuilders(r, [r EXCEPT !.builder = b]) BY DEF Receiver, SameButBuilders, SameCalls
  <2> QED BY <2>1, <2>3, <2>4, <2>5, <2>6
<1>2. CASE ~(s \in r.consumers /\ r.builder[s] # << >>)
  <2>1. flush(r, s) = [after |-> r, calls |-> 0] BY <1>2 DEF flush
  <2> QED BY <1>2, <2>1 DEF SameButBuilders, SameCalls
<1> QED BY <1>1, <1>2

\* The loop flushes metrics, then logs, and is back at its receive without a frame.
LEMMA FlushMovesOK ==
    ASSUME NEW r, InstanceOK(r), r.loop \in Signals
    PROVE  LET q == [flush(r, r.loop).after EXCEPT !.loop = IF @ = "metrics" THEN "logs" ELSE "recv"]
           IN  InstanceOK(q) /\ SameCalls(r, q)
<1> DEFINE p == flush(r, r.loop).after
           l == IF r.loop = "metrics" THEN "logs" ELSE "recv"
           q == [p EXCEPT !.loop = l]
<1>0. r \in Receiver BY DEF InstanceOK
<1>1. /\ p \in Receiver /\ SameButBuilders(r, p)
      /\ r.loop \in r.consumers => p.builder[r.loop] = << >>
      /\ \A t \in Signals : p.builder[t] \in {r.builder[t], << >>}
  BY <1>0, FlushFields
<1> HIDE DEF p
<1>2. /\ q \in Receiver /\ SameCalls(p, q)
      /\ q.loop = l
      /\ q.conn = p.conn /\ q.cancelled = p.cancelled /\ q.poller = p.poller /\ q.builder = p.builder
  <2>1. p.loop # "none" BY <1>1 DEF SameButBuilders, Signals
  <2>2. l \in {"recv", "metrics", "logs", "done"} OBVIOUS
  <2> HIDE DEF l
  <2> QED BY <1>1, <2>1, <2>2, LoopMoves
<1> HIDE DEF q
<1>3. /\ SameCalls(r, q) /\ q.conn = r.conn /\ q.cancelled = r.cancelled /\ q.poller = r.poller
  BY <1>1, <1>2 DEF SameButBuilders, SameCalls
<1>4. r.startOnce BY DEF InstanceOK, Fresh, Signals
<1>5. Connected(q) /\ Running(q)
  BY <1>2, <1>3 DEF InstanceOK, Connected, Running, SameCalls, Signals
<1>6. NoFrames(<< >>) BY DEF NoFrames
<1>7. Flushed(q)
  <2>1. CASE r.loop = "metrics" BY <1>1, <1>2, <1>3, <1>6, <2>1 DEF Flushed, SameCalls
  <2>2. CASE r.loop = "logs"
    <3>1. q.loop = "recv" BY <1>2, <2>2
    <3>2. "metrics" \in q.consumers => NoFrames(q.builder["metrics"])
      BY <1>1, <1>2, <1>3, <1>6, <2>2 DEF InstanceOK, Flushed, SameCalls, Signals
    <3>3. "logs" \in q.consumers => NoFrames(q.builder["logs"]) BY <1>1, <1>2, <1>3, <1>6, <2>2 DEF SameCalls
    <3>4. q.consumers \subseteq {"metrics", "logs"} BY <1>2 DEF Receiver, Signals
    <3> QED BY <3>1, <3>2, <3>3, <3>4 DEF Flushed
  <2> QED BY <2>1, <2>2 DEF Signals
<1>8. InstanceOK(q) BY <1>2, <1>3, <1>4, <1>5, <1>7 DEF InstanceOK, SameCalls
<1>9. q = [flush(r, r.loop).after EXCEPT !.loop = IF @ = "metrics" THEN "logs" ELSE "recv"]
  <2>1. flush(r, r.loop).after.loop = r.loop BY <1>1 DEF SameButBuilders, p
  <2> QED BY <2>1 DEF q, p
<1> QED BY <1>3, <1>8, <1>9

-----------------------------------------------------------------------------
(* The calls of the Collector, on an instance.                             *)

\* A consumer is new only before Start.
LEMMA ConsumerOK ==
    ASSUME NEW r, InstanceOK(r), NEW s \in Pipelines
    PROVE  LET q == [r EXCEPT !.consumers = @ \cup {s}]
           IN  /\ InstanceOK(q) /\ Steady(r, q) /\ q.consumers = r.consumers \cup {s}
               /\ q.startOnce = r.startOnce /\ q.startErr = r.startErr
               /\ q.shutdownOnce = r.shutdownOnce /\ q.cfg = r.cfg
<1> DEFINE q == [r EXCEPT !.consumers = r.consumers \cup {s}]
<1>0. r \in Receiver /\ s \in Signals BY SignalsAssumption DEF InstanceOK
<1>1. /\ q \in Receiver /\ q.consumers = r.consumers \cup {s}
      /\ q.startOnce = r.startOnce /\ q.startErr = r.startErr
      /\ q.shutdownOnce = r.shutdownOnce /\ q.cfg = r.cfg /\ q.conn = r.conn
      /\ q.cancelled = r.cancelled /\ q.loop = r.loop /\ q.poller = r.poller /\ q.builder = r.builder
  BY <1>0 DEF Receiver
<1> HIDE DEF q
<1>2. r.startOnce => q.consumers = r.consumers BY <1>1 DEF InstanceOK
<1>3. Connected(q) /\ Running(q) BY <1>1 DEF InstanceOK, Connected, Running
<1>4. Flushed(q) BY <1>1, <1>2 DEF InstanceOK, Flushed, Fresh
<1>5. InstanceOK(q) BY <1>1, <1>3, <1>4 DEF InstanceOK, Fresh
<1>6. Steady(r, q) BY <1>1, <1>2 DEF Steady, InstanceOK, Fresh, wgDone
<1> QED BY <1>1, <1>5, <1>6 DEF q

\* A new instance.
LEMMA NewOK ==
    ASSUME NEW g \in 1 .. MaxGenerations
    PROVE  /\ InstanceOK(newCanopenReceiver(g)) /\ ~newCanopenReceiver(g).startOnce
           /\ ~newCanopenReceiver(g).shutdownOnce /\ newCanopenReceiver(g).cfg = g
<1> DEFINE r == newCanopenReceiver(g)
<1>1. r \in Receiver
  <2> DEFINE b == [s \in Signals |-> << >>]
  <2>1. b \in [Signals -> Seq({"frame", "poll"})] OBVIOUS
  <2> HIDE DEF b
  <2>2. [cfg |-> g, startOnce |-> FALSE, startErr |-> FALSE, shutdownOnce |-> FALSE,
         conn |-> "none", cancelled |-> FALSE, loop |-> "none", poller |-> "none",
         consumers |-> {}, builder |-> b] \in Receiver
    BY <2>1 DEF Receiver
  <2> QED BY <2>2 DEF b, newCanopenReceiver
<1>2. /\ r.cfg = g /\ ~r.startOnce /\ ~r.startErr /\ ~r.shutdownOnce /\ r.conn = "none" /\ ~r.cancelled
      /\ r.loop = "none" /\ r.poller = "none" /\ \A s \in Signals : r.builder[s] = << >>
  BY DEF newCanopenReceiver
<1> HIDE DEF r
<1>3. InstanceOK(r) BY <1>1, <1>2 DEF InstanceOK, Fresh, Connected, Running, Flushed
<1> QED BY <1>2, <1>3 DEF r

\* doStart, on an instance that has not been started and that every pipeline feeds on.
LEMMA StartOK ==
    ASSUME NEW r, InstanceOK(r), ~r.startOnce, Pipelines \subseteq r.consumers,
           NEW q \in doStart([r EXCEPT !.startOnce = TRUE])
    PROVE  /\ InstanceOK(q) /\ q.startOnce /\ q.shutdownOnce = r.shutdownOnce
           /\ q.consumers = r.consumers /\ q.cfg = r.cfg
<1>1. /\ r \in Receiver /\ Fresh(r) /\ Connected(r) /\ Running(r) BY DEF InstanceOK
<1>2. /\ q \in Receiver /\ q.startOnce /\ q.shutdownOnce = r.shutdownOnce
      /\ q.consumers = r.consumers /\ q.cfg = r.cfg /\ q.cancelled = r.cancelled /\ q.builder = r.builder
      /\ \/ q.conn = "open" /\ q.loop = "recv" /\ q.poller = "running" /\ q.startErr = r.startErr
         \/ q.conn = r.conn /\ q.loop = r.loop /\ q.poller = r.poller /\ q.startErr
  <2>1. CASE q = [[r EXCEPT !.startOnce = TRUE] EXCEPT !.conn = "open", !.loop = "recv", !.poller = "running"]
    BY <1>1, <2>1 DEF Receiver
  <2>2. CASE q = [[r EXCEPT !.startOnce = TRUE] EXCEPT !.startErr = TRUE]
    BY <1>1, <2>2 DEF Receiver
  <2> QED BY <2>1, <2>2 DEF doStart
<1>3. \A s \in r.consumers : r.builder[s] = << >> BY <1>1 DEF Fresh, Connected, Receiver
<1>4. Connected(q) /\ Running(q) BY <1>1, <1>2 DEF Fresh, Connected, Running
<1>5. Flushed(q) BY <1>1, <1>2, <1>3 DEF Flushed, Fresh, NoFrames
<1> QED BY <1>2, <1>4, <1>5 DEF InstanceOK

\* What doShutdown may have changed of an instance before it flushes.
ShutDown(r, q) ==
    /\ q \in Receiver /\ q.shutdownOnce
    /\ q.cfg = r.cfg /\ q.consumers = r.consumers /\ q.startOnce = r.startOnce /\ q.startErr = r.startErr
    /\ q.loop = r.loop /\ q.poller = r.poller /\ q.builder = r.builder
    /\ q.conn = r.conn \/ (r.conn = "open" /\ q.conn = "closed")

\* The first Shutdown marks the instance; r.cancel and conn.Close change it only then.
LEMMA ShutdownOK ==
    ASSUME NEW r, InstanceOK(r), r.startOnce, NEW q, ShutDown(r, q)
    PROVE  InstanceOK(q) /\ Steady(r, q)
<1>1. Connected(q) /\ Running(q) /\ Flushed(q) BY DEF ShutDown, InstanceOK, Connected, Running, Flushed
<1>2. InstanceOK(q) BY <1>1 DEF ShutDown, InstanceOK
<1>3. Steady(r, q) BY DEF ShutDown, Steady, wgDone
<1> QED BY <1>2, <1>3

-----------------------------------------------------------------------------
(* One lemma per action.                                                   *)

\* Initially there is no instance.
LEMMA InitIInv == Init => IInv
<1> SUFFICES ASSUME Init PROVE IInv OBVIOUS
<1>1. receivers = << >> /\ Len(receivers) = 0 BY DEF Init
<1>2. Instances /\ OneInstance /\ Progress /\ QuietOK /\ Accounted
  BY <1>1 DEF Init, Instances, OneInstance, Progress, QuietOK, Accounted
<1>3. CollectorOK BY <1>1, SignalsAssumption DEF Init, CollectorOK
<1>4. StoppingOK BY DEF Init, StoppingOK
<1> QED BY <1>2, <1>3, <1>4 DEF IInv

\* The instance of a pipeline, once it has one.
LEMMA PipelineInstance ==
    ASSUME IInv, NEW s \in Pipelines, pipeline[s] # 0
    PROVE  pipeline[s] = 1 /\ Len(receivers) = 1 /\ shared = 1
<1>1. pipeline[s] \in 0 .. Len(receivers) /\ Len(receivers) \in {0, 1} /\ shared = Len(receivers)
  BY DEF IInv, CollectorOK, OneInstance
<1> QED BY <1>1

\* Creating a signal's receiver makes the instance or finds it.
LEMMA CreateIInv == ASSUME IInv, NEW s \in Pipelines, Create(s) PROVE IInv'
<1> DEFINE got == getOrCreateReceiver(generation)
<1>0. /\ phase = "build" /\ shared' = got.index
      /\ receivers' = [got.all EXCEPT ![got.index].consumers = @ \cup {s}]
      /\ pipeline' = [pipeline EXCEPT ![s] = got.index]
      /\ phase' = IF \A p \in Pipelines \ {s} : pipeline[p] # 0 THEN "start" ELSE "build"
      /\ UNCHANGED <<generation, started, stopped, stopping, items, consumed, quiet, expired>>
  BY DEF Create
<1>1. Len(receivers) \in {0, 1} /\ shared = Len(receivers) /\ receivers \in Seq(Receiver)
  BY DEF IInv, OneInstance, Instances
<1>2. pipeline \in [Pipelines -> 0 .. Len(receivers)] BY DEF IInv, CollectorOK
<1>3. generation \in 1 .. MaxGenerations BY DEF IInv, CollectorOK
<1>4. got.index = 1 /\ shared' = 1
  <2>1. CASE shared = 0 BY <1>0, <1>1, <2>1 DEF getOrCreateReceiver
  <2>2. CASE shared # 0 BY <1>0, <1>1, <2>2 DEF getOrCreateReceiver
  <2> QED BY <2>1, <2>2
<1>5. /\ receivers' \in Seq(Receiver) /\ Len(receivers') = 1 /\ InstanceOK(receivers'[1])
      /\ s \in receivers'[1].consumers /\ receivers'[1].cfg <= generation
      /\ generation = 1 => ~receivers'[1].shutdownOnce
      /\ \A p \in Pipelines : pipeline[p] # 0 => p \in receivers'[1].consumers
      /\ QuietOK' /\ StoppingOK' /\ Accounted'
  <2>1. CASE shared # 0
    <3> DEFINE r == receivers[1]
               q == [r EXCEPT !.consumers = @ \cup {s}]
    <3>1. Len(receivers) = 1 /\ got.all = receivers BY <1>1, <2>1 DEF getOrCreateReceiver
    <3>2. receivers' = [receivers EXCEPT ![1] = q] BY <1>0, <1>4, <3>1
    <3>3. InstanceOK(r) BY <3>1 DEF IInv, Instances
    <3>4. /\ InstanceOK(q) /\ Steady(r, q) /\ q.consumers = r.consumers \cup {s}
          /\ q.shutdownOnce = r.shutdownOnce /\ q.cfg = r.cfg
      BY <3>3, ConsumerOK
    <3>5. /\ r.cfg <= generation /\ (generation = 1 => ~r.shutdownOnce)
          /\ \A p \in Pipelines : pipeline[p] # 0 => p \in r.consumers
      BY <1>0, <3>1, PipelineInstance DEF IInv, Progress
    <3> HIDE DEF q
    <3>6. 1 \in 1 .. Len(receivers) /\ Instances BY <3>1 DEF IInv
    <3>7. Len(receivers') = 1 /\ receivers'[1] = q /\ Instances'
      BY <3>1, <3>2, <3>4, <3>6, StoreInstance
    <3>8. UNCHANGED <<shared, quiet, expired, stopping>> BY <1>0, <1>1, <1>4, <3>1
    <3>9. QuietOK' /\ StoppingOK' /\ Accounted' BY <3>2, <3>4, <3>6, <3>8, StoreSteady
    <3> QED BY <3>4, <3>5, <3>7, <3>9 DEF Instances
  <2>2. CASE shared = 0
    <3> DEFINE r == newCanopenReceiver(generation)
               q == [r EXCEPT !.consumers = @ \cup {s}]
    <3>0. receivers = << >> BY <1>1, <2>2, EmptySeq
    <3>1. got.all = <<r>> BY <2>2, <3>0 DEF getOrCreateReceiver
    <3>2. InstanceOK(r) /\ ~r.shutdownOnce /\ r.cfg = generation BY <1>3, NewOK
    <3>3. /\ InstanceOK(q) /\ q.consumers = r.consumers \cup {s}
          /\ q.shutdownOnce = r.shutdownOnce /\ q.cfg = r.cfg
      BY <3>2, ConsumerOK
    <3> HIDE DEF r
    <3>4. receivers' = [<<r>> EXCEPT ![1] = q] BY <1>0, <1>4, <3>1
    <3> HIDE DEF q
    <3>5. Len(receivers') = 1 /\ receivers'[1] = q BY <3>4
    <3>6. receivers' \in Seq(Receiver) BY <3>2, <3>3, <3>4 DEF InstanceOK
    <3>7. quiet = {} /\ expired = {} /\ stopping = NotStopping
      BY <3>0 DEF IInv, QuietOK, StoppingOK
    <3>8. \A p \in Pipelines : pipeline[p] = 0 BY <1>2, <3>0
    <3>9. QuietOK' /\ StoppingOK' /\ Accounted'
      <4>1. QuietOK' /\ StoppingOK' BY <1>0, <3>5, <3>7 DEF QuietOK, StoppingOK
      <4>2. \A j \in 1 .. Len(receivers') : j = 1 /\ ~receivers'[j].shutdownOnce
        BY <3>2, <3>3, <3>5
      <4> QED BY <4>1, <4>2 DEF Accounted
    <3> QED BY <1>3, <3>2, <3>3, <3>5, <3>6, <3>8, <3>9
  <2> QED BY <2>1, <2>2
<1>6. Instances' /\ OneInstance' BY <1>4, <1>5 DEF Instances, OneInstance
<1>7. pipeline' \in [Pipelines -> 0 .. 1] /\ (\A p \in Pipelines : p # s => pipeline'[p] = pipeline[p]) /\ pipeline'[s] = 1
  BY <1>0, <1>1, <1>2, <1>4
<1>8. CollectorOK' BY <1>0, <1>5, <1>7 DEF IInv, CollectorOK
<1>9. Progress' BY <1>0, <1>5, <1>7 DEF Progress
<1> QED BY <1>5, <1>6, <1>8, <1>9 DEF IInv

\* Start runs doStart once; later calls return its result.
LEMMA StartIInv == ASSUME IInv, NEW s \in Pipelines, Start(s) PROVE IInv'
<1> DEFINE i == pipeline[s]
           r == receivers[i]
<1>0. PICK q \in IF r.startOnce THEN {r} ELSE doStart([r EXCEPT !.startOnce = TRUE]) :
        /\ receivers' = [receivers EXCEPT ![i] = q]
        /\ IF q.startErr THEN phase' = "stop" /\ UNCHANGED started
           ELSE /\ started' = started \cup {s}
                /\ phase' = IF started' = Pipelines THEN "run" ELSE "start"
  BY DEF Start
<1>1. phase = "start" /\ UNCHANGED <<shared, generation, pipeline, stopped, stopping, items, consumed, quiet, expired>>
  BY DEF Start
<1>2. i = 1 /\ Len(receivers) = 1 /\ \A p \in Pipelines : pipeline[p] = 1
  BY <1>1, PipelineInstance DEF IInv, CollectorOK
<1>3. /\ InstanceOK(r) /\ Pipelines \subseteq r.consumers /\ r.cfg <= generation
      /\ generation = 1 => ~r.shutdownOnce
  BY <1>1, <1>2 DEF IInv, Instances, Progress
<1>4. /\ InstanceOK(q) /\ q.startOnce /\ q.shutdownOnce = r.shutdownOnce
      /\ q.consumers = r.consumers /\ q.cfg = r.cfg /\ Steady(r, q)
  <2>1. CASE r.startOnce BY <1>0, <1>3, <2>1 DEF Steady
  <2>2. CASE ~r.startOnce
    <3>1. ~r.shutdownOnce BY <1>3, <2>2 DEF InstanceOK, Fresh
    <3> QED BY <1>0, <1>3, <2>2, <3>1, StartOK DEF Steady
  <2> QED BY <2>1, <2>2
<1>5. /\ i \in 1 .. Len(receivers) /\ Instances /\ receivers' = [receivers EXCEPT ![i] = q]
      /\ Steady(receivers[i], q)
  BY <1>0, <1>2, <1>4 DEF IInv
<1>6. Instances' /\ OneInstance' /\ StoppingOK' /\ QuietOK' /\ Accounted' BY <1>1, <1>4, <1>5, StoreSteady
<1>7. Len(receivers') = 1 /\ receivers'[1] = q BY <1>2, <1>4, <1>5, StoreInstance
<1>8. CollectorOK' BY <1>0, <1>1, <1>2, <1>7 DEF IInv, CollectorOK
<1>9. /\ phase' = "run" => ~q.startErr
      /\ phase' \in {"start", "run", "stop"}
  BY <1>0
<1> HIDE DEF r
<1>10. \A p \in Pipelines : p \in q.consumers BY <1>3, <1>4
<1>11. q.cfg <= generation /\ (generation = 1 => ~q.shutdownOnce) BY <1>3, <1>4
<1>12. Progress' BY <1>1, <1>4, <1>7, <1>9, <1>10, <1>11 DEF Progress
<1> QED BY <1>6, <1>8, <1>12 DEF IInv

\* The steps of the goroutines.
LEMMA GoroutineIInv ==
    ASSUME IInv, NEW i \in 1 .. Len(receivers), GoroutineStep(i) \/ PollerSend(i)
    PROVE  IInv'
<1> DEFINE r == receivers[i]
<1>0. InstanceOK(r) /\ r \in Receiver BY DEF IInv, Instances, InstanceOK
<1>1. items \in 0 .. MaxItems /\ consumed \in Nat /\ MaxItems \in Nat BY SignalsAssumption DEF IInv, CollectorOK
<1>2. CASE DispatchRecv(i)
  <2>1. r.loop = "recv" /\ ~wgDone(r) BY <1>2 DEF DispatchRecv, wgDone
  <2>2. UNCHANGED <<shared, collector, stopping, consumed, quiet, expired>> BY <1>2 DEF DispatchRecv
  <2>3. CASE (r.cancelled \/ r.conn = "closed") /\ receivers' = [receivers EXCEPT ![i].loop = "done"] /\ UNCHANGED items
    <3>1. receivers' = [receivers EXCEPT ![i] = [r EXCEPT !.loop = "done"]] BY <2>3
    <3>2. InstanceOK([r EXCEPT !.loop = "done"]) /\ SameCalls(r, [r EXCEPT !.loop = "done"])
      BY <1>0, <2>1, <2>3, LoopReturnsOK
    <3> QED BY <1>1, <2>1, <2>2, <2>3, <3>1, <3>2, GoroutineKeeps
  <2>4. CASE /\ items < MaxItems /\ items' = items + 1
             /\ receivers' = [receivers EXCEPT ![i] = [Sniffed(r, "frame") EXCEPT !.loop = "metrics"]]
    <3> DEFINE q == [Sniffed(r, "frame") EXCEPT !.loop = "metrics"]
    <3>1. InstanceOK(q) /\ SameCalls(r, q) BY <1>0, <2>1, FrameSniffedOK
    <3>2. items' \in 0 .. MaxItems BY <1>1, <2>4
    <3> HIDE DEF q
    <3>3. receivers' = [receivers EXCEPT ![i] = q] BY <2>4 DEF q
    <3> QED BY <1>1, <2>1, <2>2, <3>1, <3>2, <3>3, GoroutineKeeps
  <2> QED BY <1>2, <2>3, <2>4 DEF DispatchRecv
<1>3. CASE DispatchFlush(i)
  <2> DEFINE f == flush(r, r.loop)
             q == [f.after EXCEPT !.loop = IF @ = "metrics" THEN "logs" ELSE "recv"]
  <2>1. /\ r.loop \in Signals /\ receivers' = [receivers EXCEPT ![i] = q] /\ consumed' = consumed + f.calls
        /\ UNCHANGED <<shared, collector, stopping, items, quiet, expired>>
    BY <1>3 DEF DispatchFlush
  <2>2. InstanceOK(q) /\ SameCalls(r, q) BY <1>0, <2>1, FlushMovesOK
  <2>3. f.calls \in {0, 1} BY <1>0, <2>1, FlushFields
  <2>4. ~wgDone(r) BY <2>1 DEF wgDone, Signals
  <2> HIDE DEF f, q
  <2>5. consumed' \in Nat BY <1>1, <2>1, <2>3
  <2> QED BY <1>1, <2>1, <2>2, <2>4, <2>5, GoroutineKeeps
<1>4. CASE PollerReturn(i)
  <2> DEFINE q == [r EXCEPT !.poller = "done"]
  <2>1. /\ r.poller = "running" /\ receivers' = [receivers EXCEPT ![i] = q]
        /\ UNCHANGED <<shared, collector, stopping, items, consumed, quiet, expired>>
    BY <1>4 DEF PollerReturn
  <2>2. InstanceOK(q) /\ SameCalls(r, q) BY <1>0, <2>1, PollerReturnsOK
  <2>3. ~wgDone(r) BY <2>1 DEF wgDone
  <2> HIDE DEF q
  <2> QED BY <1>1, <2>1, <2>2, <2>3, GoroutineKeeps
<1>5. CASE PollerSend(i)
  <2> DEFINE q == Sniffed(r, "poll")
  <2>1. /\ r.poller = "running" /\ receivers' = [receivers EXCEPT ![i] = q]
        /\ items < MaxItems /\ items' = items + 1
        /\ UNCHANGED <<shared, collector, stopping, consumed, quiet, expired>>
    BY <1>5 DEF PollerSend
  <2>2. InstanceOK(q) BY <1>0, <2>1, PollSniffedOK
  <2>3. SameCalls(r, q) BY <1>0, SniffedFields DEF SameButBuilders
  <2>4. ~wgDone(r) BY <2>1 DEF wgDone
  <2> HIDE DEF q
  <2>5. items' \in 0 .. MaxItems BY <1>1, <2>1
  <2> QED BY <1>1, <2>1, <2>2, <2>3, <2>4, <2>5, GoroutineKeeps
<1> QED BY <1>2, <1>3, <1>4, <1>5 DEF GoroutineStep

\* The Collector's own steps leave the instance alone.
LEMMA CollectorIInv == ASSUME IInv, BeginStop \/ Reload \/ UNCHANGED vars PROVE IInv'
<1>0. UNCHANGED <<receivers, shared, stopping, items, consumed, quiet, expired>>
  BY DEF BeginStop, Reload, vars
<1>1. Instances' /\ OneInstance' /\ StoppingOK' /\ QuietOK' /\ Accounted'
  BY <1>0 DEF IInv, Instances, OneInstance, StoppingOK, QuietOK, Accounted
<1>2. CASE BeginStop
  <2>1. CollectorOK' /\ Progress' BY <1>0, <1>2 DEF IInv, BeginStop, CollectorOK, Progress
  <2> QED BY <1>1, <2>1 DEF IInv
<1>3. CASE Reload
  <2>1. /\ generation' = generation + 1 /\ generation' \in 1 .. MaxGenerations /\ generation' # 1
        /\ generation \in 1 .. MaxGenerations
    BY <1>3, SignalsAssumption DEF IInv, CollectorOK, Reload
  <2>2. pipeline' = [s \in Pipelines |-> 0] /\ phase' = "build" /\ started' = {} /\ stopped' = {}
    BY <1>3 DEF Reload
  <2>3. Len(receivers) \in Nat BY DEF IInv, OneInstance
  <2>4. CollectorOK' BY <1>0, <2>1, <2>2, <2>3 DEF IInv, CollectorOK
  <2>5. \A i \in 1 .. Len(receivers) : receivers[i].cfg <= generation'
    <3> SUFFICES ASSUME NEW i \in 1 .. Len(receivers) PROVE receivers[i].cfg <= generation' OBVIOUS
    <3>1. receivers[i].cfg \in 1 .. MaxGenerations /\ receivers[i].cfg <= generation
      BY DEF IInv, Instances, InstanceOK, Receiver, Progress
    <3> QED BY <2>1, <3>1, SignalsAssumption
  <2>6. Progress' BY <1>0, <2>1, <2>2, <2>5 DEF Progress
  <2> QED BY <1>1, <2>4, <2>6 DEF IInv
<1>4. CASE UNCHANGED vars
  <2>1. CollectorOK' /\ Progress' BY <1>4 DEF IInv, vars, collector, CollectorOK, Progress
  <2> QED BY <1>1, <2>1 DEF IInv
<1> QED BY <1>2, <1>3, <1>4

\* The Collector's state and an instance that only a Shutdown has changed.
LEMMA ShutdownKeepsProgress ==
    ASSUME IInv, NEW i \in 1 .. Len(receivers), Len(receivers') = Len(receivers),
           UNCHANGED <<generation, phase, pipeline, started, items>>,
           stopped' \subseteq Pipelines, consumed' \in Nat,
           receivers'[i].consumers = receivers[i].consumers,
           receivers'[i].startOnce = receivers[i].startOnce,
           receivers'[i].startErr = receivers[i].startErr,
           receivers'[i].cfg = receivers[i].cfg,
           phase = "stop" \/ receivers'[i].shutdownOnce = receivers[i].shutdownOnce
    PROVE  CollectorOK' /\ Progress'
<1>1. CollectorOK' BY DEF IInv, CollectorOK
<1>2. Len(receivers) = 1 /\ i = 1
  <2>1. Len(receivers) \in {0, 1} BY DEF IInv, OneInstance
  <2> QED BY <2>1
<1>3. Progress' BY <1>2 DEF IInv, Progress
<1> QED BY <1>1, <1>3

\* The first caller of Shutdown marks the instance, the second returns.
LEMMA ShutdownIInv == ASSUME IInv, NEW s \in Pipelines, Shutdown(s) PROVE IInv'
<1> DEFINE i == pipeline[s]
           r == receivers[i]
           q == [r EXCEPT !.shutdownOnce = TRUE]
<1>0. /\ phase = "stop" /\ stopping = NotStopping
      /\ UNCHANGED <<shared, generation, phase, pipeline, started, items, consumed, expired>>
  BY DEF Shutdown
<1>1. i = 1 /\ Len(receivers) = 1 /\ i \in 1 .. Len(receivers)
  <2>1. i = 1 /\ Len(receivers) = 1 BY <1>0, PipelineInstance DEF IInv, CollectorOK
  <2> QED BY <2>1
<1>2. InstanceOK(r) /\ r.startOnce /\ r \in Receiver
  BY <1>0, <1>1 DEF IInv, Instances, Progress, InstanceOK
<1>3. consumed \in Nat /\ stopped \subseteq Pipelines BY DEF IInv, CollectorOK
<1>4. CASE /\ r.shutdownOnce /\ stopped' = stopped \cup {s} /\ quiet' = quiet \cup {i}
           /\ UNCHANGED <<receivers, stopping>>
  <2>0. i \in quiet \cup expired BY <1>0, <1>1, <1>4 DEF IInv, Accounted
  <2>1. Instances' /\ OneInstance' /\ StoppingOK'
    BY <1>0, <1>4 DEF IInv, Instances, OneInstance, StoppingOK
  <2>2. CollectorOK' /\ Progress' BY <1>0, <1>4 DEF IInv, CollectorOK, Progress
  <2>3. quiet' \cup expired' = quiet \cup expired /\ quiet' \ expired' = quiet \ expired
    BY <1>0, <1>4, <2>0
  <2>4. QuietOK' /\ Accounted' BY <1>4, <2>3 DEF IInv, QuietOK, Accounted
  <2> QED BY <2>1, <2>2, <2>4 DEF IInv
<1>5. CASE /\ ~r.shutdownOnce /\ UNCHANGED <<stopped, quiet>>
           /\ receivers' = [receivers EXCEPT ![i].shutdownOnce = TRUE]
           /\ stopping' = [receiver |-> i, signal |-> s, step |-> "cancel"]
  <2>1. ShutDown(r, q) BY <1>2 DEF ShutDown, Receiver
  <2>2. InstanceOK(q) /\ Steady(r, q) BY <1>2, <2>1, ShutdownOK
  <2>3. receivers' = [receivers EXCEPT ![i] = q] BY <1>5
  <2> HIDE DEF q
  <2>4. Instances' /\ OneInstance' /\ QuietOK' BY <1>0, <1>1, <1>5, <2>2, <2>3, StoreSteady
  <2>5. Len(receivers') = Len(receivers) /\ receivers'[i] = q
    BY <1>1, <2>2, <2>3, StoreInstance DEF IInv
  <2>6. CollectorOK' /\ Progress'
    BY <1>0, <1>1, <1>3, <1>5, <2>1, <2>5, ShutdownKeepsProgress DEF ShutDown
  <2>7. i \notin quiet \cup expired BY <1>5 DEF IInv, QuietOK
  <2>8. StoppingOK' BY <1>0, <1>1, <1>5, <2>1, <2>5, <2>7 DEF StoppingOK, ShutDown
  <2>9. Accounted'
    <3>1. stopping'.receiver = 1 /\ NotStopping.receiver = 0 BY <1>1, <1>5 DEF NotStopping
    <3>2. \A j \in 1 .. Len(receivers') : j = 1 BY <1>1, <2>5
    <3> QED BY <3>1, <3>2 DEF Accounted
  <2> QED BY <2>4, <2>6, <2>8, <2>9 DEF IInv
<1> QED BY <1>4, <1>5 DEF Shutdown

\* A step of doShutdown belongs to a Shutdown in progress.
LEMMA StepFacts ==
    ASSUME IInv, NEW from, step(from)
    PROVE  /\ stopping \in [receiver : 1 .. Len(receivers), signal : Pipelines,
                            step : {"cancel", "close", "wait", "metrics", "logs"}]
           /\ stopping.receiver \in 1 .. Len(receivers) /\ stopping.signal \in Pipelines
           /\ stopping.step = from /\ stopping.receiver \notin quiet \cup expired
           /\ receivers[stopping.receiver].shutdownOnce
           /\ InstanceOK(receivers[stopping.receiver]) /\ receivers[stopping.receiver].startOnce
<1>1. /\ stopping \in [receiver : 1 .. Len(receivers), signal : Pipelines,
                       step : {"cancel", "close", "wait", "metrics", "logs"}]
      /\ stopping.step = from /\ stopping.receiver \notin quiet \cup expired
      /\ receivers[stopping.receiver].shutdownOnce
  BY DEF IInv, StoppingOK, step
<1>2. stopping.receiver \in 1 .. Len(receivers) /\ stopping.signal \in Pipelines BY <1>1
<1>3. InstanceOK(receivers[stopping.receiver]) BY <1>2 DEF IInv, Instances
<1> QED BY <1>1, <1>2, <1>3 DEF InstanceOK, Fresh

\* doShutdown moves on to a step before its flushes, or to the first of them once no goroutine is left.
LEMMA StepMoves ==
    ASSUME IInv, NEW from, step(from), NEW to \in {"close", "wait", "metrics"},
           stopping' = [stopping EXCEPT !.step = to], UNCHANGED <<quiet, expired>>, Len(receivers') = Len(receivers),
           receivers'[stopping.receiver].shutdownOnce,
           to = "metrics" => wgDone(receivers'[stopping.receiver])
    PROVE  StoppingOK' /\ Accounted'
<1>1. /\ stopping \in [receiver : 1 .. Len(receivers), signal : Pipelines,
                       step : {"cancel", "close", "wait", "metrics", "logs"}]
      /\ stopping.receiver \in 1 .. Len(receivers) /\ stopping.receiver \notin quiet \cup expired
  BY StepFacts
<1>2. /\ stopping' \in [receiver : 1 .. Len(receivers), signal : Pipelines,
                        step : {"cancel", "close", "wait", "metrics", "logs"}]
      /\ stopping'.receiver = stopping.receiver /\ stopping'.step = to
  BY <1>1
<1>3. StoppingOK' BY <1>1, <1>2 DEF StoppingOK
<1>4. stopping' # NotStopping BY <1>2 DEF NotStopping
<1>5. Len(receivers) \in {0, 1} BY DEF IInv, OneInstance
<1>6. Accounted' BY <1>1, <1>2, <1>4, <1>5 DEF Accounted
<1> QED BY <1>3, <1>6

\* r.cancel and conn.Close
LEMMA CancelCloseIInv == ASSUME IInv, ShutdownCancel \/ ShutdownClose PROVE IInv'
<1> DEFINE i == stopping.receiver
           r == receivers[i]
<1>0. PICK from \in {"cancel", "close"}, to \in {"close", "wait"} :
        step(from) /\ stopping' = [stopping EXCEPT !.step = to]
  BY DEF ShutdownCancel, ShutdownClose
<1>1. UNCHANGED <<shared, collector, items, consumed, quiet, expired>> BY DEF ShutdownCancel, ShutdownClose
<1>2. i \in 1 .. Len(receivers) /\ InstanceOK(r) /\ r.startOnce /\ r.shutdownOnce /\ r \in Receiver
  BY <1>0, StepFacts DEF InstanceOK
<1>3. PICK q : receivers' = [receivers EXCEPT ![i] = q] /\ ShutDown(r, q)
  <2>1. CASE ShutdownCancel
    <3> DEFINE c == (r.cancelled \/ r.conn # "none")
               q == [r EXCEPT !.cancelled = c]
    <3>1. receivers' = [receivers EXCEPT ![i] = q] BY <2>1 DEF ShutdownCancel
    <3>2. c \in BOOLEAN OBVIOUS
    <3> HIDE DEF c
    <3>3. ShutDown(r, q) BY <1>2, <3>2 DEF ShutDown, Receiver
    <3> QED BY <3>1, <3>3
  <2>2. CASE ShutdownClose
    <3> DEFINE c == IF r.conn = "open" THEN "closed" ELSE r.conn
               q == [r EXCEPT !.conn = c]
    <3>1. receivers' = [receivers EXCEPT ![i] = q] BY <2>2 DEF ShutdownClose
    <3>2. c = r.conn \/ (r.conn = "open" /\ c = "closed") OBVIOUS
    <3> HIDE DEF c
    <3>3. ShutDown(r, q) BY <1>2, <3>2 DEF ShutDown, Receiver
    <3> QED BY <3>1, <3>3
  <2> QED BY <2>1, <2>2
<1>4. InstanceOK(q) /\ Steady(r, q) BY <1>2, <1>3, ShutdownOK
<1>5. Instances' /\ OneInstance' /\ QuietOK' BY <1>1, <1>2, <1>3, <1>4, StoreSteady
<1>6. Len(receivers') = Len(receivers) /\ receivers'[i] = q BY <1>2, <1>3, <1>4, StoreInstance DEF IInv
<1>7. stopped \subseteq Pipelines /\ consumed \in Nat BY DEF IInv, CollectorOK
<1>8. CollectorOK' /\ Progress'
  BY <1>1, <1>2, <1>3, <1>6, <1>7, ShutdownKeepsProgress DEF ShutDown, collector
<1>9. StoppingOK' /\ Accounted' BY <1>0, <1>1, <1>3, <1>6, StepMoves DEF ShutDown
<1> QED BY <1>5, <1>8, <1>9 DEF IInv

\* wg.Wait returns, or the caller's context expires.
LEMMA WaitIInv == ASSUME IInv, ShutdownWait \/ ShutdownExpired PROVE IInv'
<1>0. /\ step("wait") /\ UNCHANGED <<receivers, shared, generation, phase, pipeline, started, items, consumed, quiet>>
  BY DEF ShutdownWait, ShutdownExpired, collector
<1>1. /\ stopping.signal \in Pipelines /\ stopping.receiver \in 1 .. Len(receivers)
      /\ receivers[stopping.receiver].shutdownOnce
  BY <1>0, StepFacts
<1>2. stopped' \subseteq Pipelines
  BY <1>1 DEF ShutdownWait, ShutdownExpired, collector, IInv, CollectorOK
<1>3. Instances' /\ OneInstance' /\ CollectorOK' /\ Progress'
  BY <1>0, <1>2 DEF IInv, Instances, OneInstance, CollectorOK, Progress
<1>4. CASE ShutdownWait
  <2>1. UNCHANGED expired BY <1>4 DEF ShutdownWait
  <2>2. StoppingOK' /\ Accounted' BY <1>0, <1>1, <1>4, <2>1, StepMoves DEF ShutdownWait
  <2>3. QuietOK' BY <1>0, <2>1 DEF IInv, QuietOK
  <2> QED BY <1>3, <2>2, <2>3 DEF IInv
<1>5. CASE ShutdownExpired
  <2>1. stopping' = NotStopping /\ expired' = expired \cup {stopping.receiver} BY <1>5 DEF ShutdownExpired
  <2>2. StoppingOK' BY <2>1 DEF StoppingOK
  <2>3. QuietOK' BY <1>0, <1>1, <2>1 DEF IInv, QuietOK
  <2>4. Accounted' BY <1>0, <2>1 DEF IInv, Accounted
  <2> QED BY <1>3, <2>2, <2>3, <2>4 DEF IInv
<1> QED BY <1>4, <1>5

\* A flush of an instance without goroutines keeps it as it should be.
LEMMA LastFlushOK ==
    ASSUME NEW r, InstanceOK(r), wgDone(r), NEW s \in Signals, r.startOnce
    PROVE  InstanceOK(flush(r, s).after)
<1> DEFINE q == flush(r, s).after
<1>0. r \in Receiver BY DEF InstanceOK
<1>1. /\ q \in Receiver /\ SameButBuilders(r, q)
      /\ \A t \in Signals : q.builder[t] \in {r.builder[t], << >>}
  BY <1>0, FlushFields
<1> HIDE DEF q
<1>2. Connected(q) /\ Running(q) /\ Flushed(q)
  BY <1>1 DEF InstanceOK, Connected, Running, Flushed, SameButBuilders, SameCalls, wgDone
<1>3. InstanceOK(q) BY <1>1, <1>2 DEF InstanceOK, SameButBuilders, SameCalls
<1> QED BY <1>3 DEF q

\* The last flushes, after which Shutdown returns nil.
LEMMA ShutdownFlushIInv == ASSUME IInv, ShutdownFlush PROVE IInv'
<1> DEFINE i == stopping.receiver
           r == receivers[i]
           f == flush(r, stopping.step)
           q == f.after
<1>0. /\ step("metrics") \/ step("logs")
      /\ receivers' = [receivers EXCEPT ![i] = q] /\ consumed' = consumed + f.calls
      /\ UNCHANGED <<shared, generation, phase, pipeline, started, items, expired>>
  BY DEF ShutdownFlush
<1>1. /\ stopping \in [receiver : 1 .. Len(receivers), signal : Pipelines,
                       step : {"cancel", "close", "wait", "metrics", "logs"}]
      /\ i \in 1 .. Len(receivers) /\ stopping.signal \in Pipelines /\ stopping.step \in Signals
      /\ i \notin quiet \cup expired /\ r.shutdownOnce /\ InstanceOK(r) /\ r.startOnce
  BY <1>0, StepFacts DEF Signals
<1>2. /\ wgDone(r)
      /\ stopping.step = "logs" /\ "metrics" \in r.consumers => r.builder["metrics"] = << >>
  BY <1>0 DEF IInv, StoppingOK, step
<1>3. /\ SameButBuilders(r, q) /\ f.calls \in {0, 1} /\ q \in Receiver
      /\ stopping.step \in r.consumers => q.builder[stopping.step] = << >>
      /\ \A t \in Signals : q.builder[t] \in {r.builder[t], << >>}
  BY <1>1, FlushFields DEF InstanceOK
<1>4. InstanceOK(q) BY <1>1, <1>2, LastFlushOK
<1> HIDE DEF f, q
<1>5. /\ Instances' /\ Len(receivers') = Len(receivers) /\ receivers'[i] = q
      /\ \A j \in 1 .. Len(receivers) : j # i => receivers'[j] = receivers[j]
  BY <1>0, <1>1, <1>4, StoreInstance DEF IInv
<1>6. OneInstance' BY <1>0, <1>5 DEF IInv, OneInstance
<1>7. consumed' \in Nat /\ stopped' \subseteq Pipelines
  <2>1. consumed \in Nat /\ stopped \subseteq Pipelines BY DEF IInv, CollectorOK
  <2>2. consumed' \in Nat BY <1>0, <1>3, <2>1
  <2>3. stopped' = stopped \/ stopped' = stopped \cup {stopping.signal} BY DEF ShutdownFlush
  <2> QED BY <1>1, <2>1, <2>2, <2>3
<1>8. CollectorOK' /\ Progress'
  BY <1>0, <1>1, <1>3, <1>5, <1>7, ShutdownKeepsProgress DEF SameButBuilders, SameCalls
<1>9. q.shutdownOnce /\ wgDone(q) BY <1>1, <1>2, <1>3 DEF SameButBuilders, SameCalls, wgDone
<1>10. \A j \in quiet \cup expired :
          /\ j \in 1 .. Len(receivers') /\ receivers'[j].shutdownOnce
          /\ j \notin expired => wgDone(receivers'[j]) /\ Emptied(receivers'[j])
  <2> TAKE j \in quiet \cup expired
  <2>1. j # i /\ j \in 1 .. Len(receivers) BY <1>1 DEF IInv, QuietOK
  <2> QED BY <1>5, <2>1 DEF IInv, QuietOK
<1>11. i = 1 /\ Len(receivers) = 1
  <2>1. Len(receivers) \in {0, 1} BY DEF IInv, OneInstance
  <2> QED BY <1>1, <2>1
<1>12. CASE stopping.step = "metrics"
  <2>1. stopping' = [stopping EXCEPT !.step = "logs"] /\ UNCHANGED quiet BY <1>12 DEF ShutdownFlush
  <2>2. QuietOK' BY <1>0, <1>10, <2>1 DEF QuietOK
  <2>3. /\ stopping' \in [receiver : 1 .. Len(receivers), signal : Pipelines,
                          step : {"cancel", "close", "wait", "metrics", "logs"}]
        /\ stopping'.receiver = i /\ stopping'.step = "logs"
    BY <1>1, <2>1
  <2>4. "metrics" \in q.consumers => q.builder["metrics"] = << >>
    BY <1>3, <1>12 DEF SameButBuilders, SameCalls
  <2>5. StoppingOK' BY <1>0, <1>1, <1>5, <1>9, <2>1, <2>3, <2>4 DEF StoppingOK
  <2>6. Accounted'
    <3>1. stopping'.receiver = 1 /\ NotStopping.receiver = 0 BY <1>11, <2>3 DEF NotStopping
    <3>2. \A j \in 1 .. Len(receivers') : j = 1 BY <1>5, <1>11
    <3> QED BY <3>1, <3>2 DEF Accounted
  <2> QED BY <1>5, <1>6, <1>8, <2>2, <2>5, <2>6 DEF IInv
<1>13. CASE stopping.step = "logs"
  <2>1. stopping' = NotStopping /\ quiet' = quiet \cup {i} BY <1>13 DEF ShutdownFlush
  <2>2. StoppingOK' BY <2>1 DEF StoppingOK
  <2>3. Emptied(q)
    <3>1. q.consumers \subseteq {"metrics", "logs"} /\ q.consumers = r.consumers
      BY <1>3 DEF Receiver, Signals, SameButBuilders, SameCalls
    <3>2. "logs" \in q.consumers => q.builder["logs"] = << >> BY <1>3, <1>13, <3>1
    <3>3. "metrics" \in q.consumers => q.builder["metrics"] = << >>
      BY <1>2, <1>3, <1>13, <3>1 DEF Signals
    <3> QED BY <3>1, <3>2, <3>3 DEF Emptied
  <2>4. QuietOK' BY <1>0, <1>1, <1>5, <1>9, <1>10, <2>1, <2>3 DEF QuietOK
  <2>5. Accounted' BY <1>1, <1>5, <1>11, <2>1 DEF Accounted
  <2> QED BY <1>5, <1>6, <1>8, <2>2, <2>4, <2>5 DEF IInv
<1> QED BY <1>1, <1>12, <1>13 DEF Signals

\* IInv is inductive.
LEMMA Inductive == IInv /\ [Next]_vars => IInv'
<1> SUFFICES ASSUME IInv, [Next]_vars PROVE IInv' OBVIOUS
<1>1. CASE \E s \in Pipelines : Create(s) \/ Start(s) \/ Shutdown(s)
  BY <1>1, CreateIInv, StartIInv, ShutdownIInv
<1>2. CASE \E i \in 1 .. Len(receivers) : GoroutineStep(i) \/ PollerSend(i)
  BY <1>2, GoroutineIInv
<1>3. CASE ShutdownStep \/ ShutdownExpired
  BY <1>3, CancelCloseIInv, WaitIInv, ShutdownFlushIInv DEF ShutdownStep
<1>4. CASE BeginStop \/ Reload \/ Finished \/ UNCHANGED vars BY <1>4, CollectorIInv DEF Finished
<1> QED BY <1>1, <1>2, <1>3, <1>4 DEF Next

-----------------------------------------------------------------------------
(* The theorems.                                                           *)

(* The state stays well typed, through any number of reloads.              *)
THEOREM TypeCorrect == Spec => []TypeOK
<1>1. IInv => TypeOK
  <2> SUFFICES ASSUME IInv PROVE TypeOK OBVIOUS
  <2>1. Len(receivers) \in Nat BY DEF IInv, OneInstance
  <2>2. receivers \in Seq(Receiver) /\ shared \in 0 .. Len(receivers) BY <2>1 DEF IInv, Instances, OneInstance
  <2>3. stopping \in {NotStopping} \cup
          [receiver : 1 .. Len(receivers), signal : Pipelines,
           step : {"cancel", "close", "wait", "metrics", "logs"}]
    BY DEF IInv, StoppingOK
  <2>4. quiet \subseteq 1 .. Len(receivers) /\ expired \subseteq 1 .. Len(receivers) BY DEF IInv, QuietOK
  <2> QED BY <2>2, <2>3, <2>4 DEF IInv, CollectorOK, TypeOK
<1> QED BY <1>1, InitIInv, Inductive, PTL DEF Spec

\* An open connection is that of the one instance.
LEMMA OpenIsOne == ASSUME IInv PROVE open \subseteq {1}
<1>1. Len(receivers) \in {0, 1} BY DEF IInv, OneInstance
<1> QED BY <1>1 DEF open

(* There is never a second connection to the bus, whatever the pipelines   *)
(* and however often the Collector reloads: getOrCreateReceiver and        *)
(* startOnce.                                                              *)
THEOREM AtMostOneConnection == Spec => []OneConnection
<1>1. IInv => OneConnection
  <2> SUFFICES ASSUME IInv PROVE OneConnection OBVIOUS
  <2>1. open \subseteq {1} BY OpenIsOne
  <2>2. IsFiniteSet({1}) /\ Cardinality({1}) = 1 BY FS_Singleton
  <2>3. Cardinality(open) <= 1 BY <2>1, <2>2, FS_Subset
  <2> QED BY <2>3 DEF OneConnection
<1> QED BY <1>1, InitIInv, Inductive, PTL DEF Spec

(* Once every Start of the first configuration has returned nil, the one   *)
(* instance is connected, its dispatch loop runs, and it has that          *)
(* configuration.                                                          *)
THEOREM FirstStartSucceeds == Spec => []FirstStartRuns
<1>1. IInv => FirstStartRuns
  <2> SUFFICES ASSUME IInv, generation = 1, phase = "run" PROVE running BY DEF FirstStartRuns
  <2>1. PICK s \in Pipelines : pipeline[s] # 0 BY SignalsAssumption DEF IInv, CollectorOK
  <2>2. Len(receivers) = 1 BY <2>1, PipelineInstance
  <2>3. \A p \in Pipelines : pipeline[p] = 1 BY PipelineInstance DEF IInv, CollectorOK
  <2> DEFINE r == receivers[1]
  <2>4. InstanceOK(r) /\ r.startOnce /\ ~r.startErr /\ ~r.shutdownOnce /\ r.cfg <= 1
    BY <2>2 DEF IInv, Instances, Progress
  <2>5. r.conn = "open" /\ r.loop # "done" BY <2>4 DEF InstanceOK, Connected, Running, Receiver
  <2>6. r.cfg = 1
    <3>1. r.cfg \in 1 .. MaxGenerations BY <2>4 DEF InstanceOK, Receiver
    <3> QED BY <2>4, <3>1, SignalsAssumption
  <2>7. open = {1} BY <2>2, <2>5 DEF open
  <2>8. Cardinality(open) = 1 BY <2>7, FS_Singleton
  <2> QED BY <2>3, <2>5, <2>6, <2>7, <2>8 DEF running
<1> QED BY <1>1, InitIInv, Inductive, PTL DEF Spec

(* Once a doShutdown has run to its end, every Shutdown has delivered all  *)
(* that a consumer was to get, and nothing is added afterwards, not even   *)
(* by a pipeline that a reload attaches to the old instance.               *)
THEOREM ShutdownDelivers == Spec => []NothingIsLeftBehind
<1>1. IInv => NothingIsLeftBehind BY DEF IInv, QuietOK, Emptied, NothingIsLeftBehind
<1> QED BY <1>1, InitIInv, Inductive, PTL DEF Spec

(* When the dispatch loop is back at its receive, what it decoded has been *)
(* handed over, however a poller's frames interleave.                      *)
THEOREM LoopFlushes == Spec => []FramesAreFlushed
<1>1. IInv => FramesAreFlushed
  BY DEF IInv, Instances, InstanceOK, Flushed, NoFrames, FramesAreFlushed
<1> QED BY <1>1, InitIInv, Inductive, PTL DEF Spec

(* After any Shutdown that returned nil, by the first caller or a later    *)
(* one, only a dispatch loop that outlived the context of an expired       *)
(* Shutdown calls a consumer: wg.Wait comes before the last flush, and no  *)
(* reload starts the instance again.                                       *)
THEOREM Silence == Spec => SilentAfterShutdown
<1> DEFINE Outlived == \E i \in expired : receivers[i].loop \in Signals
<1>1. IInv /\ [Next]_vars => [quiet # {} /\ consumed' # consumed => Outlived]_vars
  <2> SUFFICES ASSUME IInv, Next, quiet # {}, consumed' # consumed PROVE Outlived BY DEF vars
  <2>1. Len(receivers) = 1 /\ 1 \in quiet
    <3>1. PICK j \in quiet : TRUE OBVIOUS
    <3>2. Len(receivers) \in {0, 1} /\ j \in 1 .. Len(receivers) BY DEF IInv, OneInstance, QuietOK
    <3>3. Len(receivers) = 1 BY <3>2
    <3>4. j = 1 BY <3>2, <3>3
    <3> QED BY <3>3, <3>4
  <2>2. 1 \notin expired => wgDone(receivers[1]) BY <2>1 DEF IInv, QuietOK
  <2>3. CASE \E i \in 1 .. Len(receivers) : DispatchFlush(i)
    <3>1. receivers[1].loop \in Signals BY <2>1, <2>3 DEF DispatchFlush
    <3> QED BY <2>2, <3>1 DEF wgDone, Signals
  <2>4. CASE ShutdownFlush
    <3>1. stopping.receiver \in 1 .. Len(receivers) /\ stopping.receiver \notin quiet
      BY <2>4, StepFacts DEF ShutdownFlush
    <3> QED BY <2>1, <3>1
  <2>5. CASE BeginStop \/ Reload \/ Finished BY <2>5 DEF BeginStop, Reload, Finished, vars
  <2>6. CASE ShutdownCancel \/ ShutdownClose \/ ShutdownWait \/ ShutdownExpired
    BY <2>6 DEF ShutdownCancel, ShutdownClose, ShutdownWait, ShutdownExpired
  <2>7. CASE \E s \in Pipelines : Create(s) \/ Start(s) \/ Shutdown(s)
    BY <2>7 DEF Create, Start, Shutdown
  <2>8. CASE \E i \in 1 .. Len(receivers) : DispatchRecv(i) \/ PollerReturn(i) \/ PollerSend(i)
    BY <2>8 DEF DispatchRecv, PollerReturn, PollerSend
  <2> QED BY <2>3, <2>4, <2>5, <2>6, <2>7, <2>8 DEF Next, GoroutineStep, ShutdownStep
<1> QED BY <1>1, InitIInv, Inductive, PTL DEF Spec, SilentAfterShutdown
=============================================================================
