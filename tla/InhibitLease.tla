---------------------------- MODULE InhibitLease ----------------------------
(***************************************************************************)
(* What the Inhibitor promises about the one lid-switch inhibit lock       *)
(* (inhibitor.go:14-25, docs/invariants.md section 1), without             *)
(* connections, signals, descriptors or timers.                            *)
(*                                                                         *)
(*   none    the daemon holds no lock descriptor                           *)
(*   held    it holds a descriptor whose lock logind honours               *)
(*   stale   it holds a descriptor whose lock is gone: the window in which *)
(*           two handlers react to the lid                                 *)
(*   closed  Release() has returned: nothing is ever taken again           *)
(***************************************************************************)
VARIABLE lease

Init == lease = "none"

\* A grant is installed; its lock may already have died on the way.
Take == lease = "none" /\ lease' \in {"held", "stale"}

\* The lock dies under the daemon (logind or the connection goes away).
Revoke == lease = "held" /\ lease' = "stale"

\* The daemon gives its descriptor up.
Drop == lease \in {"held", "stale"} /\ lease' = "none"

Close == lease = "none" /\ lease' = "closed"

Next == Take \/ Revoke \/ Drop \/ Close

\* A stale lease is always noticed and given up.
Spec == Init /\ [][Next]_lease /\ WF_lease(lease = "stale" /\ Drop)

=============================================================================
