----------------------------- MODULE NativeDriver -----------------------------
(***************************************************************************)
(* Drivers over the journal (mojo/fala/native_driver.mojo): each one runs  *)
(* drive_until_idle in a process of its own, one tick at a time: select a  *)
(* row, resolve the expired lease it may carry (maintain_process), claim   *)
(* it, execute the effector, and record what came back (drive_once).       *)
(* Between any two calls on the journal another driver or the operator may *)
(* commit, and a driver may die at any point, leaving its lease behind.    *)
(*                                                                         *)
(* Every step on the journal is an action of NativeJournal; this module    *)
(* adds the program that decides which.  An effector that parks on a       *)
(* manual homeostat is left out here.                                      *)
(***************************************************************************)
EXTENDS NativeJournal

CONSTANTS
    Driver,         \* driver processes
    Operator,       \* the operator's connection and name
    WorkerId,       \* the worker_id each driver was given
    Realtime,       \* realtime_timestamps: stamp every step with the wall clock
    LeaseLen,       \* lease_expires_at minus now of one drive
    Subprocess,     \* processes whose adapter polls for cancellation
    RetryAllowed,   \* processes whose retry_policy is automatic
    Backoff,        \* base_seconds of each process's retry policy
    MaxBackoff,     \* max_seconds of the retry policies
    Outcome,        \* what effectors may return
    Cancellable,    \* processes the operator may ask to cancel
    EffectorError,  \* the error of a failed or timed out attempt
    ContractError,  \* the error of an attempt that broke its contract
    ExpiryError,    \* the error of maintain_process
    CancelError,    \* the error of a cancelled subprocess
    MaxCrashes      \* bound on driver deaths

ASSUME DriverAssumption ==
    /\ WorkerId \in [Driver -> Actor] /\ Operator \in Actor
    /\ Client = Driver \cup {Operator} /\ Operator \notin Driver
    /\ Realtime \in BOOLEAN /\ LeaseLen \in Nat \ {0} /\ MaxCrashes \in Nat
    /\ MaxBackoff \in Nat /\ Backoff \in [Process -> 0..MaxBackoff]
    /\ Cancellable \subseteq Process

\* The output of an attempt is the number of the attempt that produced it.
ASSUME DocumentAssumption ==
    /\ {EffectorError, ContractError, ExpiryError, CancelError} \subseteq Datum
    /\ \A p \in Process : 1..MaxAttempts[p] \subseteq Datum

VARIABLES
    drv,        \* the local state of each driver
    violations, \* violation.record commands, keyed by process and attempt
    crashes     \* driver deaths so far

driverVars == <<now, proc, log, inflight, drv, violations, crashes>>

Stopped == [pc |-> "stopped", p |-> 0, seen |-> AbsentRow, att |-> 0, tick |-> 0,
            until |-> 0, to |-> "none", data |-> NoDatum]

PC == {"stopped", "select", "maintain", "resolve", "resolving", "resolved",
       "claim", "execute", "violation", "settle", "settling"}

\* _lifecycle_timestamp: the wall clock, or the now the drive was given.
Stamp(d) == IF Realtime THEN now ELSE drv[d].tick

\* An error leaves drive_until_idle: the drive is over.
Raise(d) == drv' = [drv EXCEPT ![d] = Stopped]

Goto(d, pc) == drv' = [drv EXCEPT ![d].pc = pc]

InFlight(d) == {call \in inflight : call.client = d}

-----------------------------------------------------------------------------
(* One tick of drive_until_idle.                                           *)

StartDrive(d) ==
    /\ drv[d].pc = "stopped"
    /\ drv' = [drv EXCEPT ![d] = [Stopped EXCEPT !.pc = "select", !.tick = now,
                                                !.until = now + LeaseLen]]
    /\ UNCHANGED <<vars, violations, crashes>>

\* Slip: a row on its last attempt is never selected again.
RowClaimableUnlessExhausted(p, at) ==
    /\ proc[p].attempt < MaxAttempts[p]
    /\ \/ proc[p].status = "ready"
       \/ proc[p].status = "retry_wait" /\ proc[p].due <= at
       \/ proc[p].status = "running" /\ proc[p].expires <= at

\* _row_claimable: an expired row is selected even on its last attempt.
RowClaimable(p, at) ==
    IF proc[p].status = "running"
    THEN proc[p].owner # NoActor /\ proc[p].expires # 0 /\ proc[p].expires <= at
    ELSE /\ proc[p].attempt < MaxAttempts[p]
         /\ \/ proc[p].status = "ready"
            \/ proc[p].status = "retry_wait" /\ proc[p].due <= at

\* The best of the claimable rows becomes the candidate of the tick.
Select(d) ==
    LET rows == {p \in Process : RowClaimable(p, Stamp(d))}
    IN  /\ drv[d].pc = "select"
        /\ \E p \in rows :
            /\ \A q \in rows \ {p} : Before(p, q)
            /\ drv' = [drv EXCEPT ![d] =
                 [@ EXCEPT !.pc = IF proc[p].status = "running" THEN "maintain" ELSE "claim",
                           !.p = p, !.seen = proc[p], !.att = 0, !.tick = Stamp(d)]]
        /\ UNCHANGED <<vars, violations, crashes>>

\* Nothing is claimable, or max_ticks (at least one) is reached.
EndDrive(d) ==
    /\ drv[d].pc = "select"
    /\ drv[d].p # 0 \/ \A p \in Process : ~RowClaimable(p, Stamp(d))
    /\ Raise(d)
    /\ UNCHANGED <<vars, violations, crashes>>

\* maintain_process: re-read the row, give up if it is not the one selected,
\* and decide how to resolve the lease in the name of its owner.
Maintain(d) ==
    LET p == drv[d].p
        seen == drv[d].seen
        over == proc[p].attempt >= MaxAttempts[p] \/ p \notin RetryAllowed
    IN  /\ drv[d].pc = "maintain"
        /\ IF /\ proc[p].status = seen.status /\ proc[p].attempt = seen.attempt
              /\ proc[p].owner = seen.owner /\ proc[p].expires = seen.expires
           THEN drv' = [drv EXCEPT ![d] =
                  [@ EXCEPT !.pc = "resolve", !.data = ExpiryError,
                            !.to = IF over THEN "failed" ELSE "retry_wait"]]
           ELSE Raise(d)
        /\ UNCHANGED <<vars, violations, crashes>>

-----------------------------------------------------------------------------
(* Calls of _transition_process by a driver.                               *)

\* A used key replays when the stored command says the same.  The attempt in
\* it is not compared with the row's.
Replays(key, actor, at, data, due) ==
    \E i \in DOMAIN log :
        /\ log[i].key = key /\ log[i].actor = actor /\ log[i].at = at
        /\ IF log[i].type = "retry_wait"
           THEN log[i].until = due /\ data \in {NoDatum, log[i].data}
           ELSE log[i].data = data

\* The driver asks for a transition: the call goes on to its transaction, or
\* is answered from the stored command, or raises.
Ask(d, p, to, actor, at, data, due, pending, answered) ==
    LET key == TransitionKey(p, to, at)
    IN  \/ /\ BeginTransition(d, p, to, actor, at, data, due, key)
           /\ Goto(d, pending)
        \/ /\ key \in UsedKeys /\ Replays(key, actor, at, data, due)
           /\ Goto(d, answered)
           /\ UNCHANGED vars
        \/ /\ IF key \in UsedKeys THEN ~Replays(key, actor, at, data, due)
                                  ELSE ~Legal(p, proc[p], to, actor)
           /\ Raise(d)
           /\ UNCHANGED vars

\* The transaction of the call commits, or raises.
Settled(d, next) ==
    \E call \in InFlight(d) :
        \/ CommitTransition(call) /\ Goto(d, next)
        \/ /\ ~(Unchanged(call.process, call.seen) /\ call.key \notin UsedKeys)
           /\ AbandonTransition(call) /\ Raise(d)

Resolve(d) ==
    /\ drv[d].pc = "resolve"
    /\ Ask(d, drv[d].p, drv[d].to, drv[d].seen.owner, drv[d].tick, drv[d].data,
           drv[d].tick, "resolving", "resolved")
    /\ UNCHANGED <<violations, crashes>>

Resolving(d) ==
    /\ drv[d].pc = "resolving"
    /\ Settled(d, "resolved")
    /\ UNCHANGED <<violations, crashes>>

\* The call returns the row as it is by then: a failed one ends the tick.
Resolved(d) ==
    /\ drv[d].pc = "resolved"
    /\ Goto(d, IF proc[drv[d].p].status = "failed" THEN "select" ELSE "claim")
    /\ UNCHANGED <<vars, violations, crashes>>

-----------------------------------------------------------------------------
(* drive_once.                                                             *)

\* The claim stamps the row with the lease end the whole drive was given.
ClaimRow(d) ==
    LET p == drv[d].p
        at == Stamp(d)
    IN  /\ drv[d].pc = "claim"
        /\ IF drv[d].until > at /\ Claimable(p, at)
           THEN /\ ClaimProcess(p, WorkerId[d], at, drv[d].until)
                /\ drv' = [drv EXCEPT ![d].pc = "execute", ![d].tick = at,
                                      ![d].att = proc[p].attempt + 1]
           ELSE Raise(d) /\ UNCHANGED vars
        /\ UNCHANGED <<violations, crashes>>

Retryable(d) == drv[d].p \in RetryAllowed /\ drv[d].att < MaxAttempts[drv[d].p]

\* The transition drive_once asks for, by what the effector returned.
\* "unsupported" is an adapter that fails its preflight, "invalid" an output
\* that breaks its schema, "breach" a malformed result.
Verdict(d, outcome) ==
    CASE outcome = "success" -> "succeeded"
      [] outcome = "cancelled" -> "cancelled"
      [] outcome \in {"unsupported", "invalid"} -> "failed"
      [] Retryable(d) -> "retry_wait"
      [] outcome = "timeout" -> "timed_out"
      [] OTHER -> "failed"

Document(d, outcome) ==
    CASE outcome = "success" -> drv[d].att
      [] outcome = "cancelled" -> CancelError
      [] outcome \in {"invalid", "breach"} -> ContractError
      [] OTHER -> EffectorError

\* Slip: the failure is settled before its violation is recorded.
SettleFirst(outcome) == "settle"

\* The contract violations are recorded before the failure.
AfterEffector(outcome) == IF outcome \in {"invalid", "breach"} THEN "violation" ELSE "settle"

\* The effector returns.  A subprocess is cancelled only when the driver's
\* poll of the row finds the request before the child ends.
Execute(d) ==
    /\ drv[d].pc = "execute"
    /\ \E outcome \in Outcome \cup {"cancelled"} :
        /\ outcome = "cancelled" =>
              drv[d].p \in Subprocess /\ proc[drv[d].p].status = "cancel_requested"
        /\ drv' = [drv EXCEPT ![d] =
              [@ EXCEPT !.pc = AfterEffector(outcome), !.to = Verdict(d, outcome),
                        !.data = Document(d, outcome),
                        !.tick = IF outcome = "unsupported" THEN drv[d].tick ELSE Stamp(d)]]
    /\ UNCHANGED <<vars, violations, crashes>>

\* record_violation: a command of its own, before the failure is recorded.
RecordViolation(d) ==
    /\ drv[d].pc = "violation"
    /\ violations' = violations \cup {<<drv[d].p, drv[d].att>>}
    /\ Goto(d, "settle")
    /\ UNCHANGED <<vars, crashes>>

\* retry_backoff_seconds: the base, doubled by each attempt after the first,
\* up to the cap.
Delay(p, attempt) ==
    LET doubled == Backoff[p] * 2^(attempt - 1)
    IN  IF doubled > MaxBackoff THEN MaxBackoff ELSE doubled

\* Slip: the backoff is left out.
DueAtOnce(d) == drv[d].tick

\* _retry_due: a retry is due its backoff after the failure, and so in a later
\* second unless the policy has none.
DueOf(d) ==
    IF drv[d].to = "retry_wait" THEN drv[d].tick + Delay(drv[d].p, drv[d].att) ELSE drv[d].tick

\* The attempt is recorded under the worker's own name; a subprocess whose row
\* is cancelled by then is left at that.
Settle(d) ==
    /\ drv[d].pc = "settle"
    /\ IF drv[d].to = "cancelled" /\ proc[drv[d].p].status = "cancelled"
       THEN Goto(d, "select") /\ UNCHANGED vars
       ELSE Ask(d, drv[d].p, drv[d].to, WorkerId[d], drv[d].tick, drv[d].data,
                DueOf(d), "settling", "select")
    /\ UNCHANGED <<violations, crashes>>

Settling(d) ==
    /\ drv[d].pc = "settling"
    /\ Settled(d, "select")
    /\ UNCHANGED <<violations, crashes>>

\* The driver process dies: its lease and its committed rows stay.
Crash(d) ==
    /\ crashes < MaxCrashes
    /\ drv[d].pc # "stopped"
    /\ Raise(d)
    /\ inflight' = inflight \ InFlight(d)
    /\ crashes' = crashes + 1
    /\ UNCHANGED <<now, proc, log, violations>>

-----------------------------------------------------------------------------
(* The host and the operator.                                              *)

Submit ==
    /\ \E p \in Process : ScheduleProcess(p, now, now)
    /\ UNCHANGED <<drv, violations, crashes>>

\* request_cancel_process from the operator's connection.
RequestCancel ==
    /\ \E p \in Cancellable :
          BeginTransition(Operator, p, "cancel_requested", Operator, now, NoDatum, now,
                          TransitionKey(p, "cancel_requested", now))
    /\ UNCHANGED <<drv, violations, crashes>>

FinishCancel ==
    /\ \E call \in InFlight(Operator) : CommitTransition(call) \/ AbandonTransition(call)
    /\ UNCHANGED <<drv, violations, crashes>>

\* Time passes while a lease or a due time lies ahead; at any other moment its
\* passing changes nothing, so the clock needs no tighter bound.
DriverTick ==
    /\ \E p \in Process :
        \/ proc[p].status = "running" /\ proc[p].expires > now
        \/ proc[p].status = "retry_wait" /\ proc[p].due > now
    /\ Tick
    /\ UNCHANGED <<drv, violations, crashes>>

-----------------------------------------------------------------------------
DriverInit ==
    /\ Init
    /\ drv = [d \in Driver |-> Stopped]
    /\ violations = {}
    /\ crashes = 0

DriverStep(d) ==
    \/ StartDrive(d) \/ Select(d) \/ EndDrive(d)
    \/ Maintain(d) \/ Resolve(d) \/ Resolving(d) \/ Resolved(d)
    \/ ClaimRow(d) \/ Execute(d) \/ RecordViolation(d) \/ Settle(d) \/ Settling(d)

DriverNext ==
    \/ \E d \in Driver : DriverStep(d) \/ Crash(d)
    \/ Submit \/ RequestCancel \/ FinishCancel \/ DriverTick

DriverSpec == DriverInit /\ [][DriverNext]_driverVars

\* A driver that was started goes on, one that stopped is started again, and
\* time passes.  Nobody is bound to submit, to cancel or to crash.
Fairness == WF_driverVars(DriverTick) /\ \A d \in Driver : WF_driverVars(DriverStep(d))

FairDriverSpec == DriverSpec /\ Fairness
-----------------------------------------------------------------------------
(* Properties.                                                             *)

DriverTypeOK ==
    /\ TypeOK
    /\ drv \in [Driver -> [pc : PC, p : Process \cup {0}, seen : Row, att : Nat,
                           tick : Nat, until : Nat, to : Target \cup {"none"}, data : Doc]]
    /\ violations \subseteq (Process \X Nat)
    /\ crashes \in 0..MaxCrashes

\* "claim -> ask -> record under one worker lease": the answer recorded as the
\* success of an attempt is the one that attempt's own execution produced,
\* never that of an earlier attempt whose driver woke up late.
ResultOfOwnAttempt ==
    \A i \in DOMAIN log : log[i].type = "succeeded" => log[i].data = log[i].attempt

\* "Failed attempts retry while attempts remain, otherwise they become failed":
\* once drive_once has returned, the attempt it executed is not still running.
AttemptEnds ==
    \A d \in Driver :
        drv[d].pc = "select" /\ drv[d].att # 0 =>
            ~ /\ proc[drv[d].p].status = "running"
              /\ proc[drv[d].p].attempt = drv[d].att

\* "Persist one attributed contract lie. Lifecycle stays on process.fail": a
\* contract error on record has its violation on record, of that attempt or of
\* an earlier one whose driver came late, whoever died between the two commands.
ContractErrorsAttributed ==
    \A i \in DOMAIN log :
        log[i].data = ContractError =>
            \E n \in 1..log[i].attempt : <<log[i].process, n>> \in violations

\* Every submitted process is eventually terminal, although drivers die with
\* its lease.
EventuallyTerminal ==
    \A p \in Process :
        proc[p].status # "absent" ~> proc[p].status \in TerminalStatus
=============================================================================
