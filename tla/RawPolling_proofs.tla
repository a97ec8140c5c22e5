------------------------- MODULE RawPolling_proofs --------------------------
(***************************************************************************)
(* Raw transactions, for any valid configuration and any traffic.  The     *)
(* inductive invariant ties the three copies of "the current attempt"      *)
(* together: p.active, the dispatch loop's claim and the result channel.   *)
(***************************************************************************)
EXTENDS RawPolling, TLAPS

attempting == pc \in {"send", "wait", "clear"}
claiming   == dpc \in {"emit", "signal"}

(* p.active is only set while the poller is in pollOnce.                   *)
ActiveIsCurrent == active => attempting

(* A claim is held from the match to the signal, for a frame that is a     *)
(* response of the claimed transaction.                                    *)
ClaimIsResponse ==
    /\ claiming <=> claim # NoClaim
    /\ claiming => claim.txn \in Index /\ IsResponse(claim.txn, frame)

(* The result channel is only written after the report.                    *)
ResultWasReported ==
    /\ result => reported
    /\ dpc = "signal" /\ claim.own => reported
    /\ outcome = "ok" => reported /\ pc = "clear"

FrameIsHeld == dpc \in {"handle", "emit", "signal", "sniff"} => frame \in Traffic

ReportsAreResponses ==
    \A k \in 1 .. Len(builder) : builder[k].txn # 0 => IsResponse(builder[k].txn, builder[k].frame)

(* What RawConfig.validate establishes, spelled out.                       *)
LEMMA TransactionsFacts ==
    /\ Count \in Nat
    /\ \A i \in Index : validate(Transactions[i])
    /\ \A i, j \in Index : i # j /\ Transactions[i].cob = Transactions[j].cob =>
                             ~rawMatchesCanOverlap(Transactions[i].match, Transactions[j].match)
BY TransactionsAssumption DEF validateAll

(* Two patterns that cannot overlap match no common payload: the check in  *)
(* RawConfig.validate is sound (rawMatchesCanOverlap).                     *)
LEMMA NoOverlapMeansDisjoint ==
    ASSUME NEW left, NEW right, NEW data, ~rawMatchesCanOverlap(left, right),
           rawTransactionMatches(left, data)
    PROVE  ~rawTransactionMatches(right, data)
BY DEF rawMatchesCanOverlap, rawTransactionMatches

\* No frame is a response of two transactions.
LEMMA ResponsesAreDisjoint ==
    ASSUME NEW i \in Index, NEW j \in Index, i # j, NEW f, IsResponse(i, f)
    PROVE  ~IsResponse(j, f)
<1>1. CASE Transactions[i].cob # Transactions[j].cob BY <1>1 DEF IsResponse
<1>2. CASE Transactions[i].cob = Transactions[j].cob
  <2>1. ~rawMatchesCanOverlap(Transactions[i].match, Transactions[j].match)
    BY <1>2, TransactionsFacts
  <2>2. rawTransactionMatches(Transactions[i].match, f.data) BY DEF IsResponse, rawTransactionMatches
  <2>3. ~rawTransactionMatches(Transactions[j].match, f.data) BY <2>1, <2>2, NoOverlapMeansDisjoint
  <2> QED BY <2>3 DEF IsResponse, rawTransactionMatches
<1> QED BY <1>1, <1>2

-----------------------------------------------------------------------------
\* A transaction's delays are numbers.
LEMMA SettingsFacts ==
    ASSUME NEW i \in Index
    PROVE  firstBackoff(Transactions[i]) \in Nat /\ maxBackoff(Transactions[i]) \in Nat
<1>1. Transactions[i].backoff \in Nat /\ Transactions[i].maxBackoff \in Nat
  BY TransactionsFacts DEF validate
<1> QED BY <1>1, SettingsAssumption DEF firstBackoff, maxBackoff

\* run's bookkeeping after a poll is well typed.
LEMMA PollReturnsType ==
    ASSUME index \in Index, completed \subseteq Index, PollReturns
    PROVE  /\ pc' \in {"loop", "interval"} /\ index' \in 1 .. Count + 1 /\ completed' \subseteq Index
           /\ pc' = "interval" => index' \in Index
<1>1. Count \in Nat BY TransactionsFacts
<1>2. CASE completed' = completed \cup {index} /\ index' = index + 1 /\ pc' = "loop"
  BY <1>1, <1>2 DEF Index
<1>3. CASE pc' = "interval" /\ UNCHANGED <<completed, index>>
  BY <1>1, <1>3 DEF Index
<1> QED BY <1>2, <1>3 DEF PollReturns

PollerTypeOK ==
    /\ pc \in {"loop", "activate", "send", "wait", "clear", "backoff", "interval", "done"}
    /\ index \in 1 .. Count + 1 /\ (pc \notin {"loop", "done"} => index \in Index)
    /\ attempt \in Nat /\ backoff \in Nat /\ outcome \in {"none", "ok", "failed"}
    /\ completed \subseteq Index /\ hasRecurring \in BOOLEAN

RestTypeOK ==
    /\ active \in BOOLEAN /\ result \in BOOLEAN /\ reported \in BOOLEAN
    /\ dpc \in {"top", "recv", "handle", "emit", "signal", "sniff", "flush", "done"}
    /\ frame \in Traffic \cup {NoFrame} /\ claim \in Claim /\ builder \in Seq(Report)
    /\ cancelled \in BOOLEAN /\ closed \in BOOLEAN /\ rx \in Seq(Traffic)

IInv == /\ PollerTypeOK /\ RestTypeOK /\ ActiveIsCurrent /\ ClaimIsResponse /\ ResultWasReported
        /\ FrameIsHeld /\ ReportsAreResponses

\* doStart establishes the invariant.
LEMMA InitIInv == Init => IInv
<1> SUFFICES ASSUME Init PROVE IInv OBVIOUS
<1>1. Count \in Nat BY TransactionsFacts
<1>2. PollerTypeOK
  <2>1. hasRecurring \in BOOLEAN BY DEF Init
  <2>2. completed \subseteq Index /\ index \in 1 .. Count + 1 BY <1>1 DEF Init
  <2> QED BY <2>1, <2>2 DEF Init, PollerTypeOK
<1>3. RestTypeOK
  <2>1. /\ active \in BOOLEAN /\ result \in BOOLEAN /\ reported \in BOOLEAN
        /\ cancelled \in BOOLEAN /\ closed \in BOOLEAN
    BY DEF Init
  <2>2. claim \in Claim BY DEF Init, Claim
  <2>3. frame \in Traffic \cup {NoFrame} /\ dpc = "top" BY DEF Init
  <2>4. builder \in Seq(Report) /\ rx \in Seq(Traffic) BY DEF Init
  <2> QED BY <2>1, <2>2, <2>3, <2>4 DEF RestTypeOK
<1>4. ActiveIsCurrent /\ ClaimIsResponse /\ ResultWasReported /\ FrameIsHeld
  BY DEF Init, ActiveIsCurrent, ClaimIsResponse, ResultWasReported, FrameIsHeld, claiming
<1>5. ReportsAreResponses BY DEF Init, ReportsAreResponses
<1> QED BY <1>2, <1>3, <1>4, <1>5 DEF IInv

(* The poller's steps.                                                     *)
LEMMA PollerType == ASSUME PollerTypeOK, PollerStep PROVE PollerTypeOK'
<1>0. Count \in Nat /\ Index = 1 .. Count BY TransactionsFacts DEF Index
<1>1. CASE Loop
  <2>1. index <= Count => index \in Index /\ firstBackoff(current) \in Nat
    BY <1>0, SettingsFacts DEF PollerTypeOK, current
  <2>2. hasRecurring' \in BOOLEAN BY <1>1 DEF PollerTypeOK, Loop
  <2>3. /\ index' \in 1 .. Count + 1 /\ pc' \in {"loop", "activate", "done"}
        /\ pc' = "activate" => index' \in Index
        /\ attempt' \in Nat /\ backoff' \in Nat
    BY <1>0, <1>1, <2>1 DEF PollerTypeOK, Loop
  <2>4. UNCHANGED <<outcome, completed>> BY <1>1 DEF Loop
  <2> QED BY <2>2, <2>3, <2>4 DEF PollerTypeOK
<1>2. CASE Activate BY <1>2 DEF PollerTypeOK, Activate
<1>3. CASE SendRequest BY <1>3 DEF PollerTypeOK, SendRequest
<1>4. CASE Await BY <1>4 DEF PollerTypeOK, Await
<1>5. CASE Clear
  <2>1. index \in Index /\ completed \subseteq Index BY <1>5 DEF PollerTypeOK, Clear
  <2>2. PollReturns \/ (pc' = "backoff" /\ UNCHANGED <<completed, index>>) BY <1>5 DEF Clear
  <2> QED BY <1>5, <2>1, <2>2, PollReturnsType DEF PollerTypeOK, Clear
<1>6. CASE BackoffElapsed
  <2>1. index \in Index /\ completed \subseteq Index /\ backoff \in Nat BY <1>6 DEF PollerTypeOK, BackoffElapsed
  <2>2. nextBackoff \in Nat BY <2>1, SettingsFacts DEF nextBackoff, current
  <2> QED BY <1>6, <2>1, <2>2, PollReturnsType DEF PollerTypeOK, BackoffElapsed
<1>7. CASE IntervalElapsed BY <1>0, <1>7 DEF PollerTypeOK, IntervalElapsed
<1>8. CASE IntervalCancelled BY <1>8 DEF PollerTypeOK, IntervalCancelled
<1> QED BY <1>1, <1>2, <1>3, <1>4, <1>5, <1>6, <1>7, <1>8 DEF PollerStep

\* A new attempt disowns the claim of an earlier one.
LEMMA ActivateIInv == ASSUME IInv, Activate PROVE IInv'
<1>0. claim \in Claim /\ claim' = [claim EXCEPT !.own = FALSE] BY DEF IInv, RestTypeOK, Activate
<1>1. /\ claim' \in Claim /\ claim'.txn = claim.txn /\ claim'.own = FALSE
      /\ claim' = NoClaim <=> claim = NoClaim
  <2>1. CASE claim = NoClaim
    <3>1. claim' = NoClaim BY <1>0, <2>1 DEF NoClaim
    <3> QED BY <2>1, <3>1 DEF Claim, NoClaim
  <2>2. CASE claim \in [txn : Index, own : BOOLEAN]
    <3>1. claim' \in [txn : Index, own : BOOLEAN] /\ claim'.txn = claim.txn /\ claim'.own = FALSE
      BY <1>0, <2>2
    <3>2. Count \in Nat BY TransactionsFacts
    <3>3. claim # NoClaim /\ claim' # NoClaim BY <2>2, <3>1, <3>2 DEF NoClaim, Index
    <3> QED BY <3>1, <3>3 DEF Claim
  <2> QED BY <1>0, <2>1, <2>2 DEF Claim
<1>3. PollerTypeOK' BY PollerType DEF IInv, PollerStep
<1>4. RestTypeOK' BY <1>1 DEF IInv, RestTypeOK, Activate, dispatcher, shutdown
<1>5. ActiveIsCurrent' BY DEF Activate, ActiveIsCurrent, attempting
<1>6. ClaimIsResponse' BY <1>1 DEF IInv, ClaimIsResponse, claiming, Activate, dispatcher
<1>7. outcome # "ok" BY DEF IInv, ResultWasReported, Activate
<1>8. ResultWasReported' BY <1>1, <1>7 DEF ResultWasReported, Activate
<1>9. FrameIsHeld' /\ ReportsAreResponses'
  BY DEF IInv, FrameIsHeld, ReportsAreResponses, Activate, dispatcher
<1> QED BY <1>3, <1>4, <1>5, <1>6, <1>8, <1>9 DEF IInv

(* A poller step other than Activate touches neither the dispatch loop nor *)
(* the result, and gives up p.active when it leaves pollOnce.              *)
LEMMA PollerStepIInv ==
    ASSUME IInv, PollerTypeOK', UNCHANGED <<result, dispatcher, claim, shutdown, rx, reported>>,
           active' \in BOOLEAN, active' => active /\ pc' \in {"send", "wait", "clear"},
           outcome' = "ok" => reported /\ pc' = "clear"
    PROVE  IInv'
<1>1. RestTypeOK' BY DEF IInv, RestTypeOK, dispatcher, shutdown
<1>2. ActiveIsCurrent' BY DEF ActiveIsCurrent, attempting
<1>3. ClaimIsResponse' /\ FrameIsHeld' /\ ReportsAreResponses'
  BY DEF IInv, ClaimIsResponse, claiming, FrameIsHeld, ReportsAreResponses, dispatcher
<1>4. ResultWasReported' BY DEF IInv, ResultWasReported, dispatcher
<1> QED BY <1>1, <1>2, <1>3, <1>4 DEF IInv

\* The poller's steps keep the invariant.
LEMMA PollerIInv == ASSUME IInv, PollerStep PROVE IInv'
<1>0. PollerTypeOK' /\ active \in BOOLEAN BY PollerType DEF IInv, RestTypeOK
<1>1. outcome = "ok" => reported /\ pc = "clear" BY DEF IInv, ResultWasReported
<1>2. active => pc \in {"send", "wait", "clear"} BY DEF IInv, ActiveIsCurrent, attempting
<1>3. CASE Activate BY <1>3, ActivateIInv
<1>4. CASE Loop BY <1>0, <1>1, <1>2, <1>4, PollerStepIInv DEF Loop
<1>5. CASE SendRequest BY <1>0, <1>1, <1>2, <1>5, PollerStepIInv DEF SendRequest
<1>6. CASE Await
  <2>1. result => reported BY DEF IInv, ResultWasReported
  <2> QED BY <1>0, <1>1, <1>2, <1>6, <2>1, PollerStepIInv DEF Await
<1>7. CASE Clear BY <1>0, <1>1, <1>2, <1>7, PollerStepIInv DEF Clear
<1>8. CASE BackoffElapsed BY <1>0, <1>1, <1>2, <1>8, PollerStepIInv DEF BackoffElapsed
<1>9. CASE IntervalElapsed BY <1>0, <1>1, <1>2, <1>9, PollerStepIInv DEF IntervalElapsed
<1>10. CASE IntervalCancelled BY <1>0, <1>1, <1>2, <1>10, PollerStepIInv DEF IntervalCancelled
<1> QED BY <1>3, <1>4, <1>5, <1>6, <1>7, <1>8, <1>9, <1>10 DEF PollerStep

-----------------------------------------------------------------------------
(* The dispatch loop's steps leave the poller alone.                       *)
LEMMA PollerUntouched == ASSUME PollerTypeOK, UNCHANGED poller PROVE PollerTypeOK'
BY DEF PollerTypeOK, poller

\* Receiving a frame touches nothing of the poller.
LEMMA RecvIInv == ASSUME IInv, DispatchTop \/ Recv PROVE IInv'
<1>0. /\ UNCHANGED <<poller, active, result, builder, claim, shutdown, reported>>
      /\ dpc \in {"top", "recv"} /\ dpc' \in {"recv", "done", "top", "handle"}
      /\ RestTypeOK /\ PollerTypeOK
  BY DEF IInv, DispatchTop, Recv
<1>1. /\ rx' \in Seq(Traffic) /\ frame' \in Traffic \cup {NoFrame}
      /\ dpc' = "handle" => frame' \in Traffic
  <2>1. CASE rx # << >> /\ frame' = Head(rx) /\ rx' = Tail(rx)
    BY <1>0, <2>1 DEF RestTypeOK
  <2>2. CASE dpc' # "handle" /\ UNCHANGED <<frame, rx>> BY <1>0, <2>2 DEF RestTypeOK
  <2> QED BY <2>1, <2>2 DEF DispatchTop, Recv
<1>2. RestTypeOK' BY <1>0, <1>1 DEF RestTypeOK, shutdown
<1>3. PollerTypeOK' BY <1>0, PollerUntouched
<1>4. ClaimIsResponse' BY <1>0 DEF IInv, ClaimIsResponse, claiming
<1>5. ActiveIsCurrent' /\ ResultWasReported' /\ ReportsAreResponses'
  BY <1>0 DEF IInv, ActiveIsCurrent, attempting, ResultWasReported, ReportsAreResponses, poller
<1>6. FrameIsHeld' BY <1>0, <1>1 DEF FrameIsHeld
<1> QED BY <1>2, <1>3, <1>4, <1>5, <1>6 DEF IInv

\* A claimed frame is a response of the active transaction.
LEMMA HandleFrameIInv == ASSUME IInv, HandleFrame PROVE IInv'
<1>0. /\ UNCHANGED <<poller, result, frame, builder, shutdown, rx, reported>> /\ dpc = "handle"
      /\ RestTypeOK /\ PollerTypeOK
  BY DEF IInv, HandleFrame
<1>1. frame \in Traffic BY <1>0 DEF IInv, FrameIsHeld
<1>2. PollerTypeOK' BY <1>0, PollerUntouched
<1>3. claim = NoClaim BY <1>0 DEF IInv, ClaimIsResponse, claiming
<1>4. CASE /\ active /\ frame.cob = current.cob /\ rawTransactionMatches(current.match, frame.data)
           /\ active' = FALSE /\ claim' = [txn |-> index, own |-> TRUE] /\ dpc' = "emit"
  <2>1. index \in Index BY <1>0, <1>4 DEF IInv, ActiveIsCurrent, attempting, PollerTypeOK
  <2>2. IsResponse(index, frame) BY <1>4 DEF IsResponse, rawTransactionMatches, current
  <2>3. claim' \in Claim /\ claim'.txn = index /\ claim' # NoClaim BY <1>4, <2>1 DEF Claim, NoClaim
  <2>4. RestTypeOK' BY <1>0, <1>4, <2>3 DEF RestTypeOK, shutdown
  <2>5. ClaimIsResponse' BY <1>0, <1>4, <2>1, <2>2, <2>3 DEF ClaimIsResponse, claiming
  <2>6. ActiveIsCurrent' /\ ResultWasReported' /\ ReportsAreResponses' /\ FrameIsHeld'
    BY <1>0, <1>1, <1>4 DEF IInv, ActiveIsCurrent, ResultWasReported, ReportsAreResponses, FrameIsHeld, poller
  <2> QED BY <1>2, <2>4, <2>5, <2>6 DEF IInv
<1>5. CASE dpc' = "sniff" /\ UNCHANGED <<active, claim>>
  <2>1. RestTypeOK' BY <1>0, <1>5 DEF RestTypeOK, shutdown
  <2>2. ClaimIsResponse' BY <1>3, <1>5 DEF ClaimIsResponse, claiming
  <2>3. ActiveIsCurrent' /\ ResultWasReported' /\ ReportsAreResponses' /\ FrameIsHeld'
    BY <1>0, <1>1, <1>5 DEF IInv, ActiveIsCurrent, attempting, ResultWasReported, ReportsAreResponses,
       FrameIsHeld, poller
  <2> QED BY <1>2, <2>1, <2>2, <2>3 DEF IInv
<1> QED BY <1>4, <1>5 DEF HandleFrame

\* The claimed frame is reported for the transaction it was claimed for.
LEMMA EmitIInv == ASSUME IInv, EmitRawTransaction \/ Sniff PROVE IInv'
<1> DEFINE t == IF dpc = "emit" THEN claim.txn ELSE 0
           r == [txn |-> t, frame |-> frame]
<1>0. /\ UNCHANGED <<poller, active, result, frame, claim, shutdown, rx>>
      /\ dpc \in {"emit", "sniff"}
      /\ dpc = "emit" => dpc' = "signal" /\ reported' = (reported \/ claim.own)
      /\ dpc = "sniff" => dpc' = "flush" /\ reported' = reported
      /\ builder' = Append(builder, r)
      /\ RestTypeOK /\ PollerTypeOK
  BY DEF IInv, EmitRawTransaction, Sniff
<1>1. frame \in Traffic BY <1>0 DEF IInv, FrameIsHeld
<1>2. t # 0 => t \in Index /\ IsResponse(t, frame) BY <1>0 DEF IInv, ClaimIsResponse, claiming
<1>3. Count \in Nat BY TransactionsFacts
<1>4. r \in Report BY <1>1, <1>2, <1>3 DEF Report, Index
<1>5. (reported => reported') /\ reported' \in BOOLEAN
  <2>1. reported \in BOOLEAN BY <1>0 DEF RestTypeOK
  <2>2. reported' = (reported \/ claim.own) \/ reported' = reported BY <1>0
  <2> HIDE DEF t, r
  <2> QED BY ONLY <2>1, <2>2
<1> HIDE DEF t
<1>6. ReportsAreResponses'
  <2>1. r.txn = t /\ r.frame = frame OBVIOUS
  <2> HIDE DEF r
  <2>2. builder \in Seq(Report) BY <1>0 DEF RestTypeOK
  <2>3. \A k \in 1 .. Len(builder') : (k \in 1 .. Len(builder) /\ builder'[k] = builder[k]) \/ builder'[k] = r
    BY <1>0, <1>4, <2>2
  <2> QED BY <1>2, <2>1, <2>3 DEF IInv, ReportsAreResponses
<1>7. builder' \in Seq(Report)
  <2> HIDE DEF r
  <2> QED BY <1>0, <1>4 DEF RestTypeOK
<1>8. PollerTypeOK' BY <1>0, PollerUntouched
<1>9. RestTypeOK' BY <1>0, <1>5, <1>7 DEF RestTypeOK, shutdown
<1>10. ClaimIsResponse' BY <1>0 DEF IInv, ClaimIsResponse, claiming
<1>11. ActiveIsCurrent' /\ FrameIsHeld'
  BY <1>0, <1>1 DEF IInv, ActiveIsCurrent, attempting, FrameIsHeld, poller
<1>12. ResultWasReported' BY <1>0, <1>5 DEF IInv, ResultWasReported, poller
<1> QED BY <1>6, <1>8, <1>9, <1>10, <1>11, <1>12 DEF IInv

\* The result reaches the attempt that was reported, or nobody.
LEMMA SignalIInv == ASSUME IInv, Signal PROVE IInv'
<1>0. /\ UNCHANGED <<poller, active, frame, builder, shutdown, rx, reported>> /\ dpc = "signal"
      /\ dpc' = "flush" /\ result' = (result \/ claim.own) /\ claim' = NoClaim
      /\ RestTypeOK /\ PollerTypeOK
  BY DEF IInv, Signal, AfterSignal
<1>1. result' \in BOOLEAN /\ (result' => reported) BY <1>0 DEF IInv, ResultWasReported
<1>2. RestTypeOK' BY <1>0, <1>1 DEF RestTypeOK, shutdown, Claim
<1>3. PollerTypeOK' BY <1>0, PollerUntouched
<1>4. ClaimIsResponse' BY <1>0 DEF ClaimIsResponse, claiming
<1>5. ActiveIsCurrent' /\ FrameIsHeld' /\ ReportsAreResponses'
  BY <1>0 DEF IInv, ActiveIsCurrent, attempting, FrameIsHeld, ReportsAreResponses, poller
<1>6. ResultWasReported' BY <1>0, <1>1 DEF IInv, ResultWasReported, poller
<1> QED BY <1>2, <1>3, <1>4, <1>5, <1>6 DEF IInv

\* A flush empties the builder.
LEMMA FlushIInv == ASSUME IInv, Flush PROVE IInv'
<1>0. /\ UNCHANGED <<poller, active, result, claim, shutdown, rx, reported>> /\ dpc = "flush"
      /\ dpc' = "top" /\ builder' = << >> /\ frame' = NoFrame /\ RestTypeOK /\ PollerTypeOK
  BY DEF IInv, Flush
<1>1. RestTypeOK' BY <1>0 DEF RestTypeOK, shutdown
<1>2. PollerTypeOK' BY <1>0, PollerUntouched
<1>3. ClaimIsResponse' /\ FrameIsHeld' BY <1>0 DEF IInv, ClaimIsResponse, claiming, FrameIsHeld
<1>4. ReportsAreResponses' BY <1>0 DEF ReportsAreResponses
<1>5. ActiveIsCurrent' /\ ResultWasReported'
  BY <1>0 DEF IInv, ActiveIsCurrent, attempting, ResultWasReported, poller
<1> QED BY <1>1, <1>2, <1>3, <1>4, <1>5 DEF IInv

\* Shutdown and arriving frames may come at any point.
LEMMA EnvironmentIInv ==
    ASSUME IInv, Cancel \/ CloseConn \/ (\E f \in Traffic : Arrive(f)) \/ UNCHANGED vars
    PROVE  IInv'
<1>0. /\ UNCHANGED <<poller, active, result, dispatcher, claim, reported>>
      /\ RestTypeOK /\ PollerTypeOK
  BY DEF IInv, Cancel, CloseConn, Arrive, vars
<1>1. cancelled' \in BOOLEAN /\ closed' \in BOOLEAN /\ rx' \in Seq(Traffic)
  <2>0. cancelled \in BOOLEAN /\ closed \in BOOLEAN /\ rx \in Seq(Traffic) BY <1>0 DEF RestTypeOK
  <2>1. cancelled' = TRUE \/ cancelled' = cancelled BY DEF Cancel, CloseConn, Arrive, vars, shutdown
  <2>2. closed' = TRUE \/ closed' = closed BY DEF Cancel, CloseConn, Arrive, vars, shutdown
  <2>3. rx' = rx \/ \E f \in Traffic : rx' = Append(rx, f) BY DEF Cancel, CloseConn, Arrive, vars
  <2>4. rx' \in Seq(Traffic) BY <2>0, <2>3
  <2>5. cancelled' \in BOOLEAN BY <2>0, <2>1
  <2>6. closed' \in BOOLEAN BY <2>0, <2>2
  <2> QED BY <2>4, <2>5, <2>6
<1>2. RestTypeOK' BY <1>0, <1>1 DEF RestTypeOK, dispatcher
<1>3. PollerTypeOK' BY <1>0, PollerUntouched
<1>4. /\ ClaimIsResponse' /\ FrameIsHeld' /\ ReportsAreResponses' /\ ActiveIsCurrent' /\ ResultWasReported'
  BY <1>0 DEF IInv, ClaimIsResponse, claiming, FrameIsHeld, ReportsAreResponses, ActiveIsCurrent,
     attempting, ResultWasReported, poller, dispatcher
<1> QED BY <1>2, <1>3, <1>4 DEF IInv

\* IInv is inductive.
LEMMA Inductive == IInv /\ [Next]_vars => IInv'
<1> SUFFICES ASSUME IInv, [Next]_vars PROVE IInv' OBVIOUS
<1>1. CASE DispatcherStep
  BY <1>1, RecvIInv, HandleFrameIInv, EmitIInv, SignalIInv, FlushIInv DEF DispatcherStep
<1> QED BY <1>1, PollerIInv, EnvironmentIInv DEF Next, Stopped

(* The state stays well typed for any valid set of transactions.           *)
THEOREM TypeCorrect == Spec => []TypeOK
<1>1. IInv => TypeOK BY DEF IInv, TypeOK, PollerTypeOK, RestTypeOK
<1> QED BY <1>1, InitIInv, Inductive, PTL DEF Spec

(* No response is ever reported for a transaction it does not belong to:   *)
(* the pairwise check of RawConfig.validate suffices for all traffic.      *)
THEOREM NoMixing == Spec => []ResponsesAreNotMixed
<1>1. IInv => ResponsesAreNotMixed
  <2> SUFFICES ASSUME IInv, NEW k \in 1 .. Len(builder), builder[k].txn # 0
               PROVE  /\ IsResponse(builder[k].txn, builder[k].frame)
                      /\ \A j \in Index \ {builder[k].txn} : ~IsResponse(j, builder[k].frame)
    BY DEF ResponsesAreNotMixed
  <2>1. IsResponse(builder[k].txn, builder[k].frame) BY DEF IInv, ReportsAreResponses
  <2>2. builder \in Seq(Report) BY DEF IInv, RestTypeOK
  <2>3. builder[k] \in Report BY <2>2
  <2>4. builder[k].txn \in Index
    <3>1. Count \in Nat BY TransactionsFacts
    <3> QED BY <2>3, <3>1 DEF Report, Index
  <2> QED BY <2>1, <2>4, ResponsesAreDisjoint
<1> QED BY <1>1, InitIInv, Inductive, PTL DEF Spec

(* A poll that succeeds has its response in the builder already.           *)
THEOREM EmittedBeforeSuccess == Spec => []SuccessWasEmitted
<1>1. IInv => SuccessWasEmitted BY DEF IInv, ResultWasReported, SuccessWasEmitted
<1> QED BY <1>1, InitIInv, Inductive, PTL DEF Spec

-----------------------------------------------------------------------------
(* Delays and attempts.                                                    *)

Capped == pc \in {"activate", "send", "wait", "clear", "backoff"} => backoff <= maxBackoff(current)

bound(t) == IF t.retry THEN t.maxRetries + 1 ELSE 1

AttemptsRemain ==
    /\ pc \in {"activate", "backoff"} /\ current.maxRetries # Unlimited => attempt < bound(current)
    /\ pc \in {"send", "wait", "clear"} /\ current.maxRetries # Unlimited => attempt <= bound(current)

\* Only the poller's own steps matter for its limits.
LEMMA OthersKeepBounds ==
    ASSUME Capped /\ AttemptsRemain, UNCHANGED poller
    PROVE  Capped' /\ AttemptsRemain'
BY DEF Capped, AttemptsRemain, poller, current

\* Outside a poll there is nothing to bound.
LEMMA LeftPollOnce ==
    ASSUME pc' \in {"loop", "interval", "done"} PROVE Capped' /\ AttemptsRemain'
BY DEF Capped, AttemptsRemain

\* Delays stay capped, and an attempt begins only while one remains.
LEMMA BoundsInductive ==
    IInv /\ Capped /\ AttemptsRemain /\ [Next]_vars => Capped' /\ AttemptsRemain'
<1> SUFFICES ASSUME PollerTypeOK, Capped, AttemptsRemain, [Next]_vars
             PROVE  Capped' /\ AttemptsRemain'
  BY DEF IInv
<1>0. attempt \in Nat /\ backoff \in Nat BY DEF PollerTypeOK
<1>1. \A i \in Index : /\ firstBackoff(Transactions[i]) <= maxBackoff(Transactions[i])
                       /\ maxBackoff(Transactions[i]) \in Nat
  <2> SUFFICES ASSUME NEW i \in Index
               PROVE  /\ firstBackoff(Transactions[i]) <= maxBackoff(Transactions[i])
                      /\ maxBackoff(Transactions[i]) \in Nat
    OBVIOUS
  <2>1. maxBackoff(Transactions[i]) \in Nat BY SettingsFacts
  <2>2. Transactions[i].backoff \in Nat BY TransactionsFacts DEF validate
  <2> QED BY <2>1, <2>2, SettingsAssumption DEF firstBackoff
<1>2. ASSUME NEW t \in {Transactions[i] : i \in Index}, t.maxRetries # Unlimited
      PROVE  t.maxRetries \in Nat /\ bound(t) \in Nat \ {0}
  BY <1>2, TransactionsFacts DEF validate, bound
<1>3. CASE Loop
  <2>1. CASE pc' = "activate"
    <3>1. index \in Index /\ index' = index /\ attempt' = 0 /\ backoff' = firstBackoff(current)
      <4>1. Count \in Nat BY TransactionsFacts
      <4> QED BY <1>3, <2>1, <4>1 DEF Loop, PollerTypeOK, Index
    <3>2. Capped' BY <2>1, <3>1, <1>1 DEF Capped, current
    <3>3. current.maxRetries # Unlimited => 0 < bound(current) BY <1>2, <3>1 DEF current
    <3>4. AttemptsRemain' BY <2>1, <3>1, <3>3 DEF AttemptsRemain, current
    <3> QED BY <3>2, <3>4
  <2>2. CASE pc' # "activate"
    <3>1. pc' \in {"loop", "done"} BY <1>3, <2>2 DEF Loop
    <3> QED BY <3>1, LeftPollOnce
  <2> QED BY <2>1, <2>2
<1>4. CASE Activate
  <2>1. index \in Index /\ index' = index /\ backoff' = backoff /\ pc' = "send" /\ pc = "activate"
    BY <1>4 DEF Activate, PollerTypeOK
  <2>2. Capped' BY <2>1 DEF Capped, current
  <2>3. AttemptsRemain'
    <3>1. CASE current.maxRetries = Unlimited BY <2>1, <3>1 DEF AttemptsRemain, current
    <3>2. CASE current.maxRetries # Unlimited
      <4>1. attempt' = attempt + 1 BY <1>4, <3>2 DEF Activate
      <4>2. attempt < bound(current) /\ bound(current) \in Nat
        BY <1>2, <2>1, <3>2 DEF AttemptsRemain, current
      <4>3. attempt' <= bound(current) BY <1>0, <4>1, <4>2
      <4> QED BY <2>1, <4>3 DEF AttemptsRemain, current
    <3> QED BY <3>1, <3>2
  <2> QED BY <2>2, <2>3
<1>5. CASE SendRequest \/ Await
  BY <1>5 DEF SendRequest, Await, Capped, AttemptsRemain, current
<1>6. ASSUME PollReturns PROVE Capped' /\ AttemptsRemain'
  BY <1>6, LeftPollOnce DEF PollReturns
<1>7. CASE Clear
  <2>1. CASE PollReturns BY <2>1, <1>6
  <2>2. CASE pc' = "backoff"
    <3>1. index \in Index /\ index' = index /\ backoff' = backoff /\ attempt' = attempt /\ pc = "clear"
      BY <1>7, <2>2 DEF Clear, PollReturns, PollerTypeOK
    <3>2. current.retry /\ retriesRemain BY <1>7, <2>2 DEF Clear, PollReturns
    <3>3. current.maxRetries # Unlimited => attempt < bound(current)
      BY <1>0, <1>2, <3>1, <3>2 DEF retriesRemain, bound, current
    <3>4. Capped' BY <3>1 DEF Capped, current
    <3>5. AttemptsRemain' BY <2>2, <3>1, <3>3 DEF AttemptsRemain, current
    <3> QED BY <3>4, <3>5
  <2> QED BY <1>7, <2>1, <2>2 DEF Clear
<1>8. CASE BackoffElapsed
  <2>1. CASE PollReturns BY <2>1, <1>6
  <2>2. CASE pc' = "activate" /\ backoff' = nextBackoff /\ UNCHANGED <<index, completed>>
    <3>1. index \in Index /\ attempt' = attempt /\ pc = "backoff"
      BY <1>8 DEF BackoffElapsed, PollerTypeOK
    <3>2. nextBackoff <= maxBackoff(current) BY <1>0, <1>1, <3>1 DEF nextBackoff, current
    <3>3. Capped' BY <2>2, <3>2 DEF Capped, current
    <3>4. AttemptsRemain' BY <2>2, <3>1 DEF AttemptsRemain, current
    <3> QED BY <3>3, <3>4
  <2> QED BY <1>8, <2>1, <2>2 DEF BackoffElapsed
<1>9. CASE IntervalElapsed \/ IntervalCancelled
  BY <1>9, LeftPollOnce DEF IntervalElapsed, IntervalCancelled
<1>10. CASE DispatcherStep
  BY <1>10, OthersKeepBounds DEF DispatcherStep, DispatchTop, Recv, HandleFrame, EmitRawTransaction,
     Signal, Sniff, Flush
<1>11. CASE Cancel \/ CloseConn \/ (\E f \in Traffic : Arrive(f)) \/ UNCHANGED vars
  BY <1>11, OthersKeepBounds DEF Cancel, CloseConn, Arrive, vars
<1> QED BY <1>3, <1>4, <1>5, <1>7, <1>8, <1>9, <1>10, <1>11 DEF Next, PollerStep, Stopped

\* Initially there is nothing to bound.
LEMMA InitBounds == Init => Capped /\ AttemptsRemain
BY DEF Init, Capped, AttemptsRemain

(* Every retry of every transaction waits at most its maximum delay, for   *)
(* any configuration that validate accepts: the first delay is clamped.    *)
THEOREM DelaysBounded == Spec => []DelaysAreBounded
<1>1. Capped => DelaysAreBounded BY DEF Capped, DelaysAreBounded
<1> QED BY <1>1, InitIInv, Inductive, InitBounds, BoundsInductive, PTL DEF Spec

(* A poll of a transaction makes at most max_retries + 1 attempts.         *)
THEOREM AttemptsBounded == Spec => []AttemptsAreBounded
<1>1. AttemptsRemain => AttemptsAreBounded BY DEF AttemptsRemain, AttemptsAreBounded, bound
<1> QED BY <1>1, InitIInv, Inductive, InitBounds, BoundsInductive, PTL DEF Spec

-----------------------------------------------------------------------------
(* What the builder holds while the dispatch loop handles a frame.         *)

BuilderHoldsTheFrame ==
    /\ dpc \notin {"signal", "flush"} => builder = << >>
    /\ dpc \in {"signal", "flush"} => Len(builder) = 1 /\ builder[1].frame = frame

\* Only the dispatch loop writes the builder, once per frame.
LEMMA BuilderInductive == IInv /\ BuilderHoldsTheFrame /\ [Next]_vars => BuilderHoldsTheFrame'
<1> SUFFICES ASSUME IInv, BuilderHoldsTheFrame, [Next]_vars PROVE BuilderHoldsTheFrame' OBVIOUS
<1>1. CASE DispatchTop \/ Recv \/ HandleFrame
  BY <1>1 DEF BuilderHoldsTheFrame, DispatchTop, Recv, HandleFrame
<1>2. CASE EmitRawTransaction \/ Sniff
  <2>1. PICK t : builder' = Append(builder, [txn |-> t, frame |-> frame])
    BY <1>2 DEF EmitRawTransaction, Sniff
  <2>2. builder = << >> /\ frame' = frame /\ dpc' \in {"signal", "flush"}
    BY <1>2 DEF EmitRawTransaction, Sniff, BuilderHoldsTheFrame
  <2>3. builder' = <<[txn |-> t, frame |-> frame]>> BY <2>1, <2>2
  <2> QED BY <2>2, <2>3 DEF BuilderHoldsTheFrame
<1>3. CASE Signal BY <1>3 DEF BuilderHoldsTheFrame, Signal, AfterSignal
<1>4. CASE Flush BY <1>4 DEF BuilderHoldsTheFrame, Flush
<1>5. CASE UNCHANGED dispatcher BY <1>5 DEF BuilderHoldsTheFrame, dispatcher
<1>6. PollerStep \/ Cancel \/ CloseConn \/ (\E f \in Traffic : Arrive(f)) \/ UNCHANGED vars => UNCHANGED dispatcher
  BY DEF PollerStep, Loop, Activate, SendRequest, Await, Clear, BackoffElapsed, IntervalElapsed,
     IntervalCancelled, Cancel, CloseConn, Arrive, vars
<1> QED BY <1>1, <1>2, <1>3, <1>4, <1>5, <1>6 DEF Next, DispatcherStep, Stopped

(* Every received frame is reported once, as a response or by the sniffer, *)
(* for any traffic and any interleaving with the poller.                   *)
THEOREM ReportedOnce == Spec => []FramesAreReportedOnce
<1>1. Init => BuilderHoldsTheFrame BY DEF Init, BuilderHoldsTheFrame
<1>2. BuilderHoldsTheFrame => FramesAreReportedOnce BY DEF BuilderHoldsTheFrame, FramesAreReportedOnce
<1> QED BY <1>1, <1>2, InitIInv, Inductive, BuilderInductive, PTL DEF Spec

-----------------------------------------------------------------------------
(* onceCompleted.                                                          *)

polling == pc \in {"activate", "send", "wait", "clear", "backoff"}

(* A transaction in completed is not polled, and the turn of a once        *)
(* transaction ends with it there.                                         *)
CompletedIsKept ==
    /\ polling => index \notin completed
    /\ pc = "interval" => effectiveMode(current) # "once"
    /\ \A i \in Index : effectiveMode(Transactions[i]) = "once" /\ pc = "loop" /\ index = i + 1 => i \in completed

\* Only run's own steps add to completed, and none takes away.
LEMMA CompletedInductive ==
    IInv /\ CompletedIsKept /\ [Next]_vars => CompletedIsKept' /\ completed \subseteq completed'
<1> SUFFICES ASSUME PollerTypeOK, CompletedIsKept, [Next]_vars
             PROVE  CompletedIsKept' /\ completed \subseteq completed'
  BY DEF IInv
<1>0. Count \in Nat /\ Index = 1 .. Count /\ index \in 1 .. Count + 1 BY TransactionsFacts DEF Index, PollerTypeOK
<1>1. CASE Loop
  <2>1. CASE pc' = "loop" /\ index' = 1 BY <1>0, <1>1, <2>1 DEF Loop, CompletedIsKept, polling
  <2>2. CASE pc' = "done" BY <1>1, <2>2 DEF Loop, CompletedIsKept, polling
  <2>3. CASE index \in completed /\ index' = index + 1 /\ pc' = "loop"
    BY <1>0, <1>1, <2>3 DEF Loop, CompletedIsKept, polling
  <2>4. CASE pc' = "activate" /\ index \notin completed /\ UNCHANGED index
    BY <1>1, <2>4 DEF Loop, CompletedIsKept, polling
  <2> QED BY <1>1, <2>1, <2>2, <2>3, <2>4 DEF Loop
<1>2. CASE Activate \/ SendRequest \/ Await
  BY <1>2 DEF Activate, SendRequest, Await, CompletedIsKept, polling
<1>3. ASSUME PollReturns, pc \in {"clear", "backoff"} PROVE CompletedIsKept' /\ completed \subseteq completed'
  <2>1. CASE effectiveMode(current) = "once"
    <3>1. completed' = completed \cup {index} /\ index' = index + 1 /\ pc' = "loop" BY <1>3, <2>1 DEF PollReturns
    <3> QED BY <1>0, <3>1 DEF CompletedIsKept, polling
  <2>2. CASE effectiveMode(current) # "once"
    <3>1. pc' = "interval" /\ UNCHANGED <<completed, index>> BY <1>3, <2>2 DEF PollReturns
    <3> QED BY <2>2, <3>1 DEF CompletedIsKept, polling, current
  <2> QED BY <2>1, <2>2
<1>4. CASE Clear
  <2>1. CASE PollReturns BY <1>3, <1>4, <2>1 DEF Clear
  <2>2. CASE pc' = "backoff" /\ UNCHANGED <<completed, index>>
    BY <1>4, <2>2 DEF Clear, CompletedIsKept, polling
  <2> QED BY <1>4, <2>1, <2>2 DEF Clear
<1>5. CASE BackoffElapsed
  <2>1. CASE PollReturns BY <1>3, <1>5, <2>1 DEF BackoffElapsed
  <2>2. CASE pc' = "activate" /\ UNCHANGED <<index, completed>>
    BY <1>5, <2>2 DEF BackoffElapsed, CompletedIsKept, polling
  <2> QED BY <1>5, <2>1, <2>2 DEF BackoffElapsed
<1>6. CASE IntervalElapsed
  <2>1. pc = "interval" /\ pc' = "loop" /\ index' = index + 1 /\ UNCHANGED completed BY <1>6 DEF IntervalElapsed
  <2>2. effectiveMode(Transactions[index]) # "once" BY <2>1 DEF CompletedIsKept, current
  <2> QED BY <1>0, <2>1, <2>2 DEF CompletedIsKept, polling
<1>7. CASE IntervalCancelled BY <1>7 DEF IntervalCancelled, CompletedIsKept, polling
<1>8. CASE UNCHANGED poller BY <1>8 DEF poller, CompletedIsKept, polling, current
<1>9. DispatcherStep \/ Cancel \/ CloseConn \/ (\E f \in Traffic : Arrive(f)) \/ UNCHANGED vars => UNCHANGED poller
  BY DEF DispatcherStep, DispatchTop, Recv, HandleFrame, EmitRawTransaction, Signal, Sniff, Flush,
     Cancel, CloseConn, Arrive, vars
<1> QED BY <1>1, <1>2, <1>4, <1>5, <1>6, <1>7, <1>8, <1>9 DEF Next, PollerStep, Stopped

(* A once transaction whose turn is over is never sent again, though the   *)
(* interval transactions keep the rounds going.                            *)
THEOREM OnceOnly == Spec => OnceIsOnce
<1>1. ASSUME NEW i \in Index, effectiveMode(Transactions[i]) = "once"
      PROVE  Spec => []((pc = "loop" /\ index = i + 1) => [](~(pc = "send" /\ index = i)))
  <2>1. Init => CompletedIsKept
    <3>1. Count \in Nat BY TransactionsFacts
    <3> QED BY <3>1 DEF Init, CompletedIsKept, polling, Index
  <2>2. CompletedIsKept => ((pc = "loop" /\ index = i + 1) => i \in completed) BY <1>1 DEF CompletedIsKept
  <2>3. CompletedIsKept /\ i \in completed => ~(pc = "send" /\ index = i) BY DEF CompletedIsKept, polling
  <2>4. IInv /\ CompletedIsKept /\ [Next]_vars /\ i \in completed => (i \in completed)' BY CompletedInductive
  <2> QED BY <2>1, <2>2, <2>3, <2>4, InitIInv, Inductive, CompletedInductive, PTL DEF Spec
<1> QED BY <1>1 DEF OnceIsOnce
=============================================================================
