---------------------------- MODULE MCLifecycle -----------------------------
(* Instances of Lifecycle: both signals used and enabled.                  *)
EXTENDS Lifecycle

BothSignals == {"metrics", "logs"}
=============================================================================
