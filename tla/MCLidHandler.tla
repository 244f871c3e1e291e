---------------------------- MODULE MCLidHandler ----------------------------
(* Small instances of LidHandler for TLC: two panels tell a failure of one *)
(* from a failure of all.                                                  *)
EXTENDS LidHandler

=============================================================================
