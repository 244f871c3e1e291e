----------------------------- MODULE LidDelivery -----------------------------
(***************************************************************************)
(* What the lid monitor promises its caller (monitor.go:54-58, the monitor *)
(* invariant of docs/invariants.md), without sources, readers or channels: *)
(* one callback at a time, each with a state the lid has had and another   *)
(* one than the callback before, none once Stop has returned, and a Stop   *)
(* that returns if callbacks do.                                           *)
(***************************************************************************)
CONSTANT None   \* no state delivered yet

VARIABLES
  seen,       \* the states the lid has had since the monitor was made
  delivered,  \* the state of the last callback
  busy,       \* a callback is under way
  phase       \* on, stopping (Stop was called), off (Stop has returned)

vars == <<seen, delivered, busy, phase>>

Init(at) == seen = {at} /\ delivered = None /\ ~busy /\ phase = "on"

Move(to) == seen' = seen \cup {to} /\ UNCHANGED <<delivered, busy, phase>>

Deliver(s) ==
  /\ phase # "off" /\ ~busy /\ s \in seen /\ s # delivered
  /\ delivered' = s /\ busy' = TRUE
  /\ UNCHANGED <<seen, phase>>

Return == busy /\ busy' = FALSE /\ UNCHANGED <<seen, delivered, phase>>

Stop == phase = "on" /\ phase' = "stopping" /\ UNCHANGED <<seen, delivered, busy>>

Off ==
  /\ phase = "stopping" /\ ~busy /\ phase' = "off"
  /\ UNCHANGED <<seen, delivered, busy>>

Next ==
  \/ \E s \in {"open", "closed"} : Move(s) \/ Deliver(s)
  \/ Return \/ Stop \/ Off

\* A Stop may find callbacks still coming, but not forever.
Spec ==
  /\ \E at \in {"open", "closed"} : Init(at)
  /\ [][Next]_vars /\ WF_vars(Return) /\ SF_vars(Off)

=============================================================================
