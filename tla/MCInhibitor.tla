---------------------------- MODULE MCInhibitor ----------------------------
(* Small instances of Inhibitor for TLC. *)
EXTENDS Inhibitor

MCDescriptor == {0, 1}

=============================================================================
