----------------------------- MODULE MCWatchdog -----------------------------
(* The constants are in Watchdog.cfg: a bucket of two tokens, four ticks each. *)
EXTENDS Watchdog
=============================================================================
