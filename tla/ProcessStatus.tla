---------------------------- MODULE ProcessStatus ----------------------------
(***************************************************************************)
(* The process statuses of mojo/fala/status.mojo and the transition table  *)
(* every sink of the journal consults.  "absent" is not a status of the    *)
(* code: it stands for a row that has not been inserted yet.               *)
(*                                                                         *)
(* In this and the other modules a definition marked "Slip" is a plausible *)
(* mistake in the definition after it; the README says which property      *)
(* notices each one.                                                       *)
(***************************************************************************)

TerminalStatus == {"succeeded", "failed", "skipped", "cancelled", "timed_out"}

OpenStatus == {"pending", "ready", "running", "waiting", "retry_wait",
               "cancel_requested"}

Status == OpenStatus \cup TerminalStatus

\* Targets that can_transition_process allows from one source only.
OwnTargets ==
    [pending          |-> {"ready", "cancel_requested"},
     ready            |-> {"running", "cancel_requested"},
     running          |-> {"succeeded", "failed", "waiting", "retry_wait",
                           "cancel_requested"},
     waiting          |-> {"succeeded", "failed", "cancel_requested"},
     retry_wait       |-> {"ready", "cancel_requested"},
     cancel_requested |-> {"failed"}]

\* can_transition_process: nothing leaves a terminal status, and every open
\* one may be cancelled, timed out or skipped.
CanTransition(from, to) ==
    /\ from \in OpenStatus
    /\ to \in {"cancelled", "timed_out", "skipped"} \cup OwnTargets[from]

=============================================================================
