---------------------------- MODULE MCLidMonitor ----------------------------
(***************************************************************************)
(* Small instances of LidMonitor for TLC.  A channel of two states stands  *)
(* for the code's eight: it fills up, which is what matters.               *)
(***************************************************************************)
EXTENDS LidMonitor

=============================================================================
