---------------------------- MODULE MCRawPolling ----------------------------
(* A once and two interval transactions that share one response COB-ID.    *)
EXTENDS RawPolling

Byte0(v) == [offset |-> 0, value |-> v]
Byte1(v) == [offset |-> 1, value |-> v]

Txn(mode, interval, maxRetries, b, mb, match) ==
    [cob |-> 1, mode |-> mode, interval |-> interval, retry |-> TRUE, maxRetries |-> maxRetries,
     backoff |-> b, maxBackoff |-> mb, match |-> match]

\* The second one's backoff is above the default maximum, which validate
\* allows; the third may retry for as long as its device is silent.
MCTransactions == <<[Txn("once", 0, 0, 1, 2, {Byte0(1), Byte1(1)}) EXCEPT !.retry = FALSE],
                    Txn("", 1, 1, 5, 0, {Byte0(1), Byte1(2)}),
                    Txn("interval", 1, Unlimited, 0, 0, {Byte0(2)})>>

\* A response of each, a frame that is too short, and one of another COB-ID.
MCTraffic == {[cob |-> 1, data |-> <<1, 1>>], [cob |-> 1, data |-> <<1, 2>>],
              [cob |-> 1, data |-> <<2>>], [cob |-> 1, data |-> <<1>>], [cob |-> 2, data |-> <<1, 1>>]}

MCUnlimited == -1
=============================================================================
