---------------------------- MODULE MCPowerWatch ----------------------------
(* Small instances of PowerWatch for TLC; two profiles tell all changes apart. *)
EXTENDS PowerWatch

=============================================================================
