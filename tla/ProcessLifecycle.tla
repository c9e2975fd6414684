--------------------------- MODULE ProcessLifecycle ---------------------------
(***************************************************************************)
(* What every journal promises of a process, whatever its sink: the pure   *)
(* lifecycle of mojo/fala/processes.mojo.  A process is claimed at most    *)
(* MaxAttempts times, a claim takes over only an expired lease, a          *)
(* transition follows the status table, and several processes may move in  *)
(* one step (a claim that also reaps), each by at most one lifecycle step. *)
(*                                                                         *)
(* A lease is compared with the clock of the step that takes it over; a    *)
(* reading older than the clock makes the promise stronger, never weaker.  *)
(***************************************************************************)
EXTENDS Naturals, ProcessStatus

CONSTANTS Process, Actor, NoActor, MaxAttempts

VARIABLES clock, table

Record == [status : Status \cup {"absent"}, attempt : Nat,
           owner : Actor \cup {NoActor}, expires : Nat, due : Nat]

AbsentRecord == [status |-> "absent", attempt |-> 0, owner |-> NoActor,
                 expires |-> 0, due |-> 0]

HasLease(r) == r.owner # NoActor

Unleased(r) == r.owner = NoActor /\ r.expires = 0

Schedule(old, new) ==
    /\ old = AbsentRecord
    /\ new.status \in {"pending", "ready"}
    /\ new.attempt = 0 /\ Unleased(new)

\* process_is_claimable, with lease_is_expired.
IsClaimable(p, r) ==
    /\ r.attempt < MaxAttempts[p]
    /\ \/ r.status = "ready"
       \/ r.status = "retry_wait" /\ r.due <= clock
       \/ r.status = "running" /\ HasLease(r) /\ r.expires <= clock

\* claim_process.  The lease must end; how late is the caller's choice.
Claim(p, old, new) ==
    /\ IsClaimable(p, old)
    /\ new.status = "running" /\ new.attempt = old.attempt + 1
    /\ HasLease(new) /\ new.expires # 0
    /\ new.due = old.due

\* transition_process.  A cancel request may keep the lease or drop it.
Transition(old, new) ==
    /\ CanTransition(old.status, new.status)
    /\ new.status \notin {"running", "retry_wait"}
    /\ new.attempt = old.attempt /\ new.due = old.due
    /\ \/ Unleased(new)
       \/ /\ new.status = "cancel_requested"
          /\ new.owner = old.owner /\ new.expires = old.expires

\* retry_process, from a running or a failed process with attempts left.  The
\* due time is left open: a journal is told it, and does not compute it.
Retry(p, old, new) ==
    /\ old.status \in {"running", "failed"}
    /\ old.attempt < MaxAttempts[p]
    /\ new.status = "retry_wait" /\ new.attempt = old.attempt
    /\ Unleased(new)

Step(p, old, new) ==
    \/ Schedule(old, new)
    \/ Claim(p, old, new)
    \/ Transition(old, new)
    \/ Retry(p, old, new)

Init ==
    /\ clock = 0
    /\ table = [p \in Process |-> AbsentRecord]

Next ==
    /\ clock' \in {clock, clock + 1}
    /\ table' \in [Process -> Record]
    /\ \A p \in Process : table'[p] = table[p] \/ Step(p, table[p], table'[p])

Spec == Init /\ [][Next]_<<clock, table>>

=============================================================================
