------------------------------ MODULE RunStatus ------------------------------
(***************************************************************************)
(* The run statuses of mojo/fala/status.mojo and their transition table.   *)
(***************************************************************************)

RunTerminal == {"completed", "failed", "cancelled", "timed_out"}

RunOpen == {"created", "active", "waiting", "cancel_requested"}

RunStatuses == RunOpen \cup RunTerminal

\* can_transition_run: nothing leaves a terminal status, no run goes back to
\* "created", and a requested cancellation only ends.
CanTransitionRun(from, to) ==
    /\ from \in RunOpen /\ to # from
    /\ \/ to \in {"failed", "cancelled", "timed_out"}
       \/ /\ from \in {"created", "active", "waiting"}
          /\ to \in {"completed", "waiting", "active", "cancel_requested"}

=============================================================================
