----------------------------- MODULE RawPolling -----------------------------
(***************************************************************************)
(* Active raw transactions: the rawTransactionPoller goroutine             *)
(* (raw_poller.go), the dispatch loop that claims responses for it         *)
(* (receiver.go) and the configuration rules that keep the responses of    *)
(* different transactions apart (config.go).                               *)
(*                                                                         *)
(* External: the bus.  Any frame of Traffic may arrive at any time, asked  *)
(* for or not; timers may fire at any time.                                *)
(***************************************************************************)
EXTENDS Integers, Sequences

CONSTANTS
    Transactions,       \* Raw.Transactions
    Traffic,            \* external: the frames that occur on the bus
    Unlimited,          \* MaxRetries == nil
    DefaultBackoff,     \* defaultRawTransactionBackoff
    DefaultMaxBackoff,  \* defaultRawTransactionMaxBackoff
    MaxRx               \* bound: frames waiting to be received

Byte == 0 .. 255

\* RawMatchByte, and a frame: a COB-ID and up to eight data bytes
MatchByte == [offset : 0 .. 7, value : Byte]
IsFrame(f) == f.cob \in Nat /\ f.data \in Seq(Byte)

Count == Len(Transactions)
Index == 1 .. Count

effectiveMode(t) == IF t.mode # "" THEN t.mode
                    ELSE IF t.interval > 0 THEN "interval" ELSE "once"

\* RawTransactionConfig.validate with RawResponseConfig.validate
validate(t) ==
    /\ t.cob \in 1 .. 2047 /\ t.interval \in Nat           \* Response.CobID
    /\ effectiveMode(t) \in {"once", "interval"}
    /\ effectiveMode(t) = "once" <=> t.interval = 0
    /\ t.backoff \in Nat /\ t.maxBackoff \in Nat
    /\ t.maxBackoff > 0 => t.backoff <= t.maxBackoff
    /\ t.maxRetries \in Nat \cup {Unlimited} /\ t.retry \in BOOLEAN
    /\ effectiveMode(t) = "once" /\ t.retry => t.maxRetries # Unlimited
    /\ t.match # {} /\ t.match \subseteq MatchByte

rawMatchesCanOverlap(left, right) ==
    \A l \in left, r \in right : ~(l.offset = r.offset /\ l.value # r.value)

\* RawConfig.validate, for the transactions
validateAll ==
    /\ \A i \in Index : validate(Transactions[i])
    /\ \A i, j \in Index : i # j /\ Transactions[i].cob = Transactions[j].cob =>
                             ~rawMatchesCanOverlap(Transactions[i].match, Transactions[j].match)

ASSUME TransactionsAssumption == Count \in Nat /\ validateAll
ASSUME TrafficAssumption == \A f \in Traffic : IsFrame(f)
ASSUME SettingsAssumption ==
    DefaultBackoff \in Nat \ {0} /\ DefaultMaxBackoff \in Nat \ {0} /\ Unlimited \notin Nat /\ MaxRx \in Nat

VARIABLES
    \* the poller goroutine
    pc, index, attempt, backoff, outcome, completed, hasRecurring,
    active,      \* p.active # nil: it then points to the poller's own attempt
    result,      \* that attempt's result channel holds a value
    \* the dispatch loop
    dpc, frame,
    claim,       \* handleFrame's local copy of p.active: the transaction it
                 \* claims the frame for, and whether the poller still runs
                 \* that very attempt
    builder,
    cancelled, closed,
    rx,          \* external: frames waiting to be received
    reported     \* history: the running attempt's response is in the builder

poller     == <<pc, index, attempt, backoff, outcome, completed, hasRecurring>>
dispatcher == <<dpc, frame, builder>>
shutdown   == <<cancelled, closed>>
vars == <<poller, active, result, dispatcher, claim, shutdown, rx, reported>>

NoFrame == [cob |-> 0, data |-> << >>]
NoClaim == [txn |-> 0, own |-> FALSE]
Claim   == [txn : Index, own : BOOLEAN] \cup {NoClaim}

(* What a decoder was handed, txn 0 for the sniffer's.  The fields that    *)
(* codec.Decode rejects are left out of the data, possibly all of them.    *)
Report  == [txn : 0 .. Count, frame : Traffic]

TypeOK ==
    /\ pc \in {"loop", "activate", "send", "wait", "clear", "backoff", "interval", "done"}
    /\ index \in 1 .. Count + 1 /\ (pc \notin {"loop", "done"} => index \in Index)
    /\ attempt \in Nat /\ backoff \in Nat /\ outcome \in {"none", "ok", "failed"}
    /\ completed \subseteq Index /\ hasRecurring \in BOOLEAN
    /\ active \in BOOLEAN /\ result \in BOOLEAN /\ reported \in BOOLEAN
    /\ dpc \in {"top", "recv", "handle", "emit", "signal", "sniff", "flush", "done"}
    /\ frame \in Traffic \cup {NoFrame} /\ claim \in Claim /\ builder \in Seq(Report)
    /\ cancelled \in BOOLEAN /\ closed \in BOOLEAN /\ rx \in Seq(Traffic)

Init ==
    /\ pc = "loop" /\ index = 1 /\ attempt = 0 /\ backoff = 0 /\ outcome = "none"
    /\ completed = {} /\ hasRecurring = FALSE
    /\ active = FALSE /\ result = FALSE /\ reported = FALSE
    /\ dpc = "top" /\ frame = NoFrame /\ claim = NoClaim /\ builder = << >>
    /\ cancelled = FALSE /\ closed = FALSE /\ rx = << >>

current == Transactions[index]

-----------------------------------------------------------------------------
(* The poller goroutine.                                                   *)

maxBackoff(t) == IF t.maxBackoff = 0 THEN DefaultMaxBackoff ELSE t.maxBackoff

\* Mutant: the first delay is not clamped.
unclampedBackoff(t) == IF t.backoff = 0 THEN DefaultBackoff ELSE t.backoff

firstBackoff(t) ==
    LET b == IF t.backoff = 0 THEN DefaultBackoff ELSE t.backoff
    IN  IF b > maxBackoff(t) THEN maxBackoff(t) ELSE b

\* run: the next transaction of the round, or the next round
Loop ==
    /\ pc = "loop"
    /\ IF index > Count
       THEN /\ IF hasRecurring THEN index' = 1 /\ hasRecurring' = FALSE /\ UNCHANGED pc
                               ELSE pc' = "done" /\ UNCHANGED <<index, hasRecurring>>
            /\ UNCHANGED <<attempt, backoff>>
       ELSE IF index \in completed
       THEN index' = index + 1 /\ UNCHANGED <<pc, hasRecurring, attempt, backoff>>
       ELSE /\ pc' = "activate" /\ attempt' = 0 /\ backoff' = firstBackoff(current)
            /\ hasRecurring' = (hasRecurring \/ effectiveMode(current) = "interval")
            /\ UNCHANGED index
    /\ UNCHANGED <<outcome, completed, active, result, dispatcher, claim, shutdown, rx, reported>>

\* pollOnce, first half: a new attempt with its own result channel
Activate ==
    /\ pc = "activate" /\ pc' = "send"
    /\ attempt' = IF current.maxRetries = Unlimited THEN 1 ELSE attempt + 1    \* only compared with a set max_retries
    /\ active' = TRUE /\ result' = FALSE /\ reported' = FALSE
    /\ claim' = [claim EXCEPT !.own = FALSE]
    /\ UNCHANGED <<index, backoff, outcome, completed, hasRecurring, dispatcher, shutdown, rx>>

SendRequest ==
    /\ pc = "send"
    /\ \/ ~closed /\ pc' = "wait" /\ UNCHANGED outcome
       \/ pc' = "clear" /\ outcome' = "failed"                       \* Send failed
    /\ UNCHANGED <<index, attempt, backoff, completed, hasRecurring, active, result,
                   dispatcher, claim, shutdown, rx, reported>>

\* Mutant: no timer in the select.
AwaitWithoutTimer ==
    /\ pc = "wait" /\ pc' = "clear"
    /\ (result /\ outcome' = "ok") \/ (cancelled /\ outcome' = "failed")
    /\ UNCHANGED <<index, attempt, backoff, completed, hasRecurring, active, result,
                   dispatcher, claim, shutdown, rx, reported>>

\* The select: the result, the timer or the context.
Await ==
    /\ pc = "wait" /\ pc' = "clear"
    /\ (result /\ outcome' = "ok") \/ outcome' = "failed"
    /\ UNCHANGED <<index, attempt, backoff, completed, hasRecurring, active, result,
                   dispatcher, claim, shutdown, rx, reported>>

\* Mutant: a failed once transaction is not marked as completed.
CompletedOnSuccess ==
    IF effectiveMode(current) = "once"
    THEN /\ completed' = IF outcome = "ok" THEN completed \cup {index} ELSE completed
         /\ index' = index + 1 /\ pc' = "loop"
    ELSE pc' = "interval" /\ UNCHANGED <<completed, index>>

\* Mutant: the next transaction is polled at once, without the loop's bound.
PollReturnsAdvances ==
    IF effectiveMode(current) = "once"
    THEN completed' = completed \cup {index} /\ index' = index + 1 /\ pc' = "loop"
    ELSE pc' = "activate" /\ index' = index + 1 /\ UNCHANGED completed

\* poll has returned to run, whatever came of it.
PollReturns ==
    IF effectiveMode(current) = "once"
    THEN completed' = completed \cup {index} /\ index' = index + 1 /\ pc' = "loop"
    ELSE pc' = "interval" /\ UNCHANGED <<completed, index>>

oneRetryTooMany == current.maxRetries = Unlimited \/ attempt - 1 <= current.maxRetries    \* mutant

retriesRemain == current.maxRetries = Unlimited \/ attempt - 1 < current.maxRetries

\* The deferred clearing of p.active (already nil when the response was claimed), then poll's loop.
Clear ==
    /\ pc = "clear"
    /\ active' = FALSE /\ outcome' = "none"
    /\ IF outcome = "ok" \/ cancelled \/ ~current.retry \/ ~retriesRemain
       THEN PollReturns
       ELSE pc' = "backoff" /\ UNCHANGED <<completed, index>>
    /\ UNCHANGED <<attempt, backoff, hasRecurring, result, dispatcher, claim, shutdown, rx, reported>>

nextBackoff == IF 2 * backoff > maxBackoff(current) THEN maxBackoff(current) ELSE 2 * backoff

BackoffElapsed ==
    /\ pc = "backoff"
    /\ \/ pc' = "activate" /\ backoff' = nextBackoff /\ UNCHANGED <<index, completed>>
       \/ cancelled /\ PollReturns /\ UNCHANGED backoff
    /\ UNCHANGED <<attempt, outcome, hasRecurring, active, result, dispatcher, claim, shutdown, rx, reported>>

\* run's waitContext: the interval passes,
IntervalElapsed ==
    /\ pc = "interval" /\ pc' = "loop" /\ index' = index + 1
    /\ UNCHANGED <<attempt, backoff, outcome, completed, hasRecurring, active, result,
                   dispatcher, claim, shutdown, rx, reported>>

\* Mutant: run goes on to the next transaction when waitContext was cancelled.
IntervalIgnoresCancel ==
    /\ pc = "interval" /\ cancelled /\ pc' = "loop" /\ index' = index + 1
    /\ UNCHANGED <<attempt, backoff, outcome, completed, hasRecurring, active, result,
                   dispatcher, claim, shutdown, rx, reported>>

\* or the context is cancelled.
IntervalCancelled ==
    /\ pc = "interval" /\ cancelled /\ pc' = "done"
    /\ UNCHANGED <<index, attempt, backoff, outcome, completed, hasRecurring, active, result,
                   dispatcher, claim, shutdown, rx, reported>>

PollerStep == Loop \/ Activate \/ SendRequest \/ Await \/ Clear \/ BackoffElapsed
              \/ IntervalElapsed \/ IntervalCancelled

-----------------------------------------------------------------------------
(* The dispatch loop.                                                      *)

DispatchTop ==
    /\ dpc = "top" /\ dpc' = IF cancelled THEN "done" ELSE "recv"
    /\ UNCHANGED <<poller, active, result, frame, builder, claim, shutdown, rx, reported>>

Recv ==
    /\ dpc = "recv"
    /\ \/ rx # << >> /\ frame' = Head(rx) /\ rx' = Tail(rx) /\ dpc' = "handle"
       \/ dpc' = (IF cancelled THEN "done" ELSE "top") /\ UNCHANGED <<frame, rx>>
    /\ UNCHANGED <<poller, active, result, builder, claim, shutdown, reported>>

\* Mutant: one matching byte is enough.
anyByteMatches(match, data) ==
    \E m \in match : m.offset < Len(data) /\ data[m.offset + 1] = m.value

rawTransactionMatches(match, data) ==
    \A m \in match : m.offset < Len(data) /\ data[m.offset + 1] = m.value

\* Mutant: the claimed response also reaches the sniffer.
AfterSignalSniff == "sniff"

\* handleFrame returned true: the sniffer does not see the frame.
AfterSignal == "flush"

\* Mutant: the result is signalled before the response is emitted.
SignalFirst ==
    /\ dpc = "handle"
    /\ IF active /\ frame.cob = current.cob /\ rawTransactionMatches(current.match, frame.data)
       THEN active' = FALSE /\ claim' = [txn |-> index, own |-> TRUE] /\ result' = TRUE /\ dpc' = "emit"
       ELSE dpc' = "sniff" /\ UNCHANGED <<active, claim, result>>
    /\ UNCHANGED <<poller, frame, builder, shutdown, rx, reported>>

\* rawTransactionPoller.handleFrame under p.mu: claims the frame, or leaves it to the sniffer
HandleFrame ==
    /\ dpc = "handle"
    /\ IF active /\ frame.cob = current.cob /\ rawTransactionMatches(current.match, frame.data)
       THEN active' = FALSE /\ claim' = [txn |-> index, own |-> TRUE] /\ dpc' = "emit"
       ELSE dpc' = "sniff" /\ UNCHANGED <<active, claim>>
    /\ UNCHANGED <<poller, result, frame, builder, shutdown, rx, reported>>

\* emitRawTransaction, under buildersMu but no longer under p.mu
EmitRawTransaction ==
    /\ dpc = "emit" /\ dpc' = "signal"
    /\ builder' = Append(builder, [txn |-> claim.txn, frame |-> frame])
    /\ reported' = (reported \/ claim.own)
    /\ UNCHANGED <<poller, active, result, frame, claim, shutdown, rx>>

\* active.result <- true, which nobody reads if that attempt has timed out
Signal ==
    /\ dpc = "signal" /\ dpc' = AfterSignal
    /\ result' = (result \/ claim.own) /\ claim' = NoClaim
    /\ UNCHANGED <<poller, active, frame, builder, shutdown, rx, reported>>

\* sniff.HandleFrame: the frame goes to the passive decoders
Sniff ==
    /\ dpc = "sniff" /\ dpc' = "flush"
    /\ builder' = Append(builder, [txn |-> 0, frame |-> frame])
    /\ UNCHANGED <<poller, active, result, frame, claim, shutdown, rx, reported>>

Flush ==
    /\ dpc = "flush" /\ dpc' = "top"
    /\ builder' = << >> /\ frame' = NoFrame
    /\ UNCHANGED <<poller, active, result, claim, shutdown, rx, reported>>

DispatcherStep == \/ DispatchTop \/ Recv \/ HandleFrame \/ EmitRawTransaction \/ Signal
                  \/ Sniff \/ Flush

Cancel ==
    /\ ~cancelled /\ cancelled' = TRUE
    /\ UNCHANGED <<poller, active, result, dispatcher, claim, closed, rx, reported>>

CloseConn ==
    /\ cancelled /\ ~closed /\ closed' = TRUE
    /\ UNCHANGED <<poller, active, result, dispatcher, claim, cancelled, rx, reported>>

\* External: a frame arrives.
Arrive(f) ==
    /\ ~closed /\ Len(rx) < MaxRx /\ rx' = Append(rx, f)
    /\ UNCHANGED <<poller, active, result, dispatcher, claim, shutdown, reported>>

Stopped == pc = "done" /\ dpc = "done" /\ UNCHANGED vars

Next == \/ PollerStep \/ DispatcherStep \/ Cancel \/ CloseConn
        \/ \E f \in Traffic : Arrive(f)
        \/ Stopped

(* Both goroutines keep running and timers fire; no device need answer.    *)
(* A select with several ready cases picks one at random, so it does not   *)
(* overlook a cancelled context forever: strong fairness for that case.    *)
Fairness == WF_vars(PollerStep) /\ WF_vars(DispatcherStep) /\ SF_vars(IntervalCancelled)

Spec == Init /\ [][Next]_vars /\ Fairness

-----------------------------------------------------------------------------
(* Properties.                                                             *)

(* What the configuration calls a response of transaction i.               *)
IsResponse(i, f) ==
    /\ f.cob = Transactions[i].cob
    /\ \A m \in Transactions[i].match : m.offset < Len(f.data) /\ f.data[m.offset + 1] = m.value

(* A value emitted for a transaction comes from a response of that         *)
(* transaction and of no other, however late it is and whichever           *)
(* transaction is being polled by then: "Patterns for transactions sharing *)
(* a response COB-ID must be disjoint" (rawMatchesCanOverlap) is enough to *)
(* keep them apart.                                                        *)
ResponsesAreNotMixed ==
    \A k \in 1 .. Len(builder) :
        LET r == builder[k]
        IN  r.txn # 0 => /\ IsResponse(r.txn, r.frame)
                         /\ \A j \in Index \ {r.txn} : ~IsResponse(j, r.frame)

(* When pollOnce returns success, emitRawTransaction is done with the      *)
(* response, and it is the response of this attempt, not of one that timed *)
(* out while the dispatch loop was emitting it (handleFrame emits before   *)
(* it signals, on the channel of the attempt it claimed).                  *)
SuccessWasEmitted == outcome = "ok" => reported

(* A received frame is reported once: as a transaction's response or by    *)
(* the sniffer, not both and never as another frame's report               *)
(* (transactionResponse in dispatchLoop).                                  *)
FramesAreReportedOnce ==
    dpc = "flush" => Len(builder) = 1 /\ builder[1].frame = frame

(* max_retries bounds the attempts at one poll of a transaction.           *)
AttemptsAreBounded ==
    pc \in {"send", "wait", "clear"} /\ current.maxRetries # Unlimited =>
        attempt <= IF current.retry THEN current.maxRetries + 1 ELSE 1

(* No retry waits longer than the transaction's maximum delay.             *)
DelaysAreBounded == pc = "backoff" => backoff <= maxBackoff(current)

(* Once the turn of a once transaction is over, answered or not, it is     *)
(* never sent again (onceCompleted in run).                                *)
OnceIsOnce ==
    \A i \in Index : effectiveMode(Transactions[i]) = "once" =>
        []((pc = "loop" /\ index = i + 1) => [](~(pc = "send" /\ index = i)))

(* Every interval transaction is polled again and again until shutdown,    *)
(* though one goroutine polls them in turn and devices may be dead; only a *)
(* transaction that retries without a max_retries, and keeps failing, can  *)
(* hold up the others (run and poll).                                      *)
TurnsCome ==
    \A i \in Index : effectiveMode(Transactions[i]) = "interval" =>
        []<>(\/ cancelled
             \/ pc = "send" /\ index = i
             \/ pc = "backoff" /\ current.maxRetries = Unlimited)

(* After Shutdown cancels the run context both goroutines return.          *)
ShutdownEnds == cancelled ~> (pc = "done" /\ dpc = "done")
=============================================================================
