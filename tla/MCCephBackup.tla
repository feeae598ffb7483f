---------------------------- MODULE MCCephBackup ----------------------------
(* Two blocks holding zero or one value, three calls and a clock of two   *)
(* seconds: enough for an initial, a failed differential and a fallback   *)
(* backup, and for two calls within the same second.                      *)
EXTENDS CephBackup

MCBlocks == 1..2
MCVals == 0..1
MCZero == 0
MCMaxCalls == 3
MCMaxClock == 2

\* Four calls: a snapshot left behind by one call can outlive two more,
\* and a name freed by a failed differential can be reused in the same
\* second.  One block is enough when contents only need to differ.
MCOneBlock == 1..1
MCMaxCallsLong == 4
=============================================================================
