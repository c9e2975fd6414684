------------------------------- MODULE PathRun -------------------------------
(***************************************************************************)
(* One correlation path from its creation to the end of its run:           *)
(* run_correlation_path of mojo/fala/correlation_runtime.mojo with what it *)
(* calls: the plan is persisted (correlation_persistence.mojo), driven     *)
(* tick by tick (drive_correlation_until_idle of native_driver.mojo) with  *)
(* an advance before every tick that readies or skips dependents           *)
(* (correlation_advance.mojo), and finalized (finalize_run).  Several      *)
(* callers may be in it at once, any of them may die between two           *)
(* transactions, and operators answer and rearm the homeostats on which    *)
(* processes wait.                                                         *)
(*                                                                         *)
(* A transaction is one action and so is a read outside of one.  A call    *)
(* that reads its row before its transaction raises when another commit    *)
(* comes between (NativeJournal has the two halves); here it is one        *)
(* action, and such a raise is a Crash, which leaves the same state.       *)
(* Leases and due times are a flag that time raises.                       *)
(***************************************************************************)
EXTENDS ProcessStatus, RunStatus, Naturals

CONSTANTS
    Size,         \* number of processes of the plan, in its order
    Upstream,     \* conduction: what each process depends on
    When,         \* the source of the `when` of each conditional process
    Manual,       \* processes that park on a homeostat
    Caller,       \* callers of run_correlation_path, and operators
    Nobody,
    MaxAttempts,  \* attempts of each process
    MaxTicks,     \* max_ticks of a call
    MaxCrashes,   \* bound on calls that die or are overtaken
    Persisted,    \* the plan and its bindings are in the journal already
    Realtime,     \* realtime_timestamps
    OwnKeys       \* operators name their keys

Plan == 1..Size

\* Two attempts at most: with three, two retries of one row may have the same
\* key, which is NativeDriver's subject.
ASSUME PathAssumption ==
    /\ Size \in Nat \ {0} /\ MaxTicks \in Nat \ {0} /\ MaxCrashes \in Nat
    /\ MaxAttempts \in {1, 2} /\ Nobody \notin Caller
    /\ Upstream \in [Plan -> SUBSET Plan]
    /\ DOMAIN When \subseteq Plan /\ \A p \in DOMAIN When : When[p] \in Upstream[p]
    /\ Manual \subseteq Plan
    /\ Persisted \in BOOLEAN /\ Realtime \in BOOLEAN /\ OwnKeys \in BOOLEAN

VARIABLES
    run,      \* status of the run
    rows,     \* table processes
    gates,    \* table homeostats: the homeostat of each process
    keys,     \* idempotency keys in runtime_commands that a call may repeat
    bound,    \* the adapter bindings are persisted
    drv,      \* what each caller is doing
    crashes

tables == <<run, rows, gates, keys, bound>>
pathVars == <<run, rows, gates, keys, bound, drv, crashes>>

-----------------------------------------------------------------------------
(* The rows.  `up` says that time is up: the lease of a running row has     *)
(* ended, the backoff of a waiting retry is over.  `result` is the scalar   *)
(* that conditions look at; `fed` is input.conduction.                      *)

NoInput == [u \in {} |-> 0]

Row(status) == [status |-> status, attempt |-> 0, owner |-> Nobody, up |-> FALSE,
                result |-> "none", fed |-> NoInput]

NoGate == [status |-> "none", attempt |-> 0]

\* What a dependent is told of an upstream; `gen` counts how often it was rearmed.
Payload(u) == [status |-> rows[u].status, result |-> rows[u].result,
               gen |-> gates[u].attempt]

\* _merged_input.
InputOf(p) == [u \in Upstream[p] |-> Payload(u)]

\* Results are told apart only where somebody looks at them.
Results(p) ==
    IF p \in Manual \/ \E q \in DOMAIN When : When[q] = p THEN {"yes", "no"} ELSE {"yes"}

Moved(row, to, result) ==
    [row EXCEPT !.status = to, !.owner = Nobody, !.up = FALSE, !.result = result]

\* Legality of _transition_process: the table, the budget of a retry, and for
\* results the owner.  A failed row may be retried too while it has attempts,
\* which here it has not.
MayMove(p, to, d) ==
    /\ CanTransition(rows[p].status, to)
    /\ to = "retry_wait" => rows[p].attempt < MaxAttempts
    /\ to \in {"succeeded", "failed", "retry_wait"} => rows[p].owner \in {Nobody, d}

-----------------------------------------------------------------------------
(* Callers.  `p` counts while they have a row in hand.                      *)

Idle == [pc |-> "idle", from |-> "absent", todo |-> {}, created |-> {},
         inputs |-> NoInput, round |-> 0, then |-> "close", p |-> 1,
         seen |-> Row("absent"), tick |-> 0, exhausted |-> FALSE, pass |-> 1,
         target |-> "absent"]

\* An error leaves run_correlation_path.
Raise(d) == drv' = [drv EXCEPT ![d] = Idle]

Goto(d, pc) == drv' = [drv EXCEPT ![d].pc = pc]

\* A key that is used answers as before if everything is equal, the second too.
\* Without realtime stamps an advance stamps with the row's creation.
Answers == IF Realtime THEN {"replay", "conflict"} ELSE {"replay"}

First(S) == CHOOSE p \in S : \A q \in S : p <= q

\* Lookup of the run, create_run and list_processes.  A caller whose create is
\* overtaken raises.
Enter(d) ==
    LET missing == {p \in Plan : rows[p].status = "absent"}
    IN  /\ drv[d].pc = "idle" /\ run \notin RunTerminal
        /\ run' = IF run = "absent" THEN "created" ELSE run
        /\ drv' = [drv EXCEPT ![d] =
                     [Idle EXCEPT !.pc = IF missing = {} THEN "refresh" ELSE "schedule",
                                  !.from = run, !.todo = missing, !.created = missing]]
        /\ UNCHANGED <<rows, gates, keys, bound, crashes>>

\* _persist_new_rows, first half: every missing row is scheduled as ready in a
\* transaction of its own; a row that is there by now is a replay.
Schedule(d) ==
    LET p == First(drv[d].todo)
        rest == drv[d].todo \ {p}
    IN  /\ drv[d].pc = "schedule"
        /\ rows' = IF rows[p].status = "absent"
                   THEN [rows EXCEPT ![p] = Row("ready")] ELSE rows
        /\ drv' = [drv EXCEPT ![d].todo = rest,
                              ![d].pc = IF rest = {} THEN "mark" ELSE "schedule"]
        /\ UNCHANGED <<run, gates, keys, bound, crashes>>

\* The other half: the dependents among them become pending.
MarkPending(d) ==
    /\ drv[d].pc = "mark"
    /\ rows' = [p \in Plan |->
                  IF p \in drv[d].created /\ Upstream[p] # {} /\ rows[p].status = "ready"
                  THEN [rows[p] EXCEPT !.status = "pending"] ELSE rows[p]]
    /\ drv' = [drv EXCEPT ![d].pc = "refresh", ![d].created = {}]
    /\ UNCHANGED <<run, gates, keys, bound, crashes>>

\* Slip: a process that waits, for an answer or a retry, counts as settled.
SettledOrWaiting(p) ==
    \A u \in Upstream[p] : rows[u].status \in TerminalStatus \cup {"waiting", "retry_wait"}

AllSettled(p) == \A u \in Upstream[p] : rows[u].status \in TerminalStatus

Pending == {p \in Plan : rows[p].status = "pending"}

Settled == {p \in Pending : AllSettled(p)}

AfterRefresh == IF bound THEN "advance" ELSE "bind"

\* Slip: conditional dependents are readied like the others.
RefreshRaisesNever(S) == FALSE

\* conditional_requires_advance.
RefreshRaises(S) == S \cap DOMAIN When # {}

\* refresh_correlation_readiness, the read: inputs are merged from it.
Refresh(d) ==
    /\ drv[d].pc = "refresh"
    /\ \/ RefreshRaises(Settled) /\ Raise(d)
       \/ /\ ~RefreshRaises(Settled)
          /\ drv' = [drv EXCEPT ![d].pc = IF Settled = {} THEN AfterRefresh ELSE "promote",
                                ![d].inputs = [p \in Settled |-> InputOf(p)],
                                ![d].round = 1, ![d].then = "drive"]
    /\ UNCHANGED <<tables, crashes>>

\* Its transaction, which writes no command.
Promote(d) ==
    /\ drv[d].pc = "promote"
    /\ rows' = [p \in Plan |->
                  IF p \in DOMAIN drv[d].inputs /\ rows[p].status = "pending"
                  THEN [rows[p] EXCEPT !.status = "ready", !.fed = drv[d].inputs[p]]
                  ELSE rows[p]]
    /\ drv' = [drv EXCEPT ![d].pc = AfterRefresh, ![d].inputs = NoInput]
    /\ UNCHANGED <<run, gates, keys, bound, crashes>>

\* Bindings are persisted by the creator of the run, or by a later caller while
\* nothing has been executed.
Bind(d) ==
    LET untouched == /\ drv[d].from = "created"
                     /\ \A p \in Plan : /\ rows[p].status \in {"ready", "pending"}
                                        /\ rows[p].attempt = 0
        mayBind == bound \/ drv[d].from = "absent" \/ untouched
    IN  /\ drv[d].pc = "bind"
        /\ bound' = (bound \/ mayBind)
        /\ IF mayBind THEN Goto(d, "advance") ELSE Raise(d)
        /\ UNCHANGED <<run, rows, gates, keys, crashes>>

-----------------------------------------------------------------------------
(* advance_correlation: rounds until nothing changes, one more than the     *)
(* plan has processes at most.                                              *)

\* _condition_matches.
Matches(p) ==
    p \in DOMAIN When =>
        rows[When[p]].status = "succeeded" /\ rows[When[p]].result = "yes"

\* Slip: rows that are ready already are taken up again.
ReadyToo == {p \in Plan : rows[p].status \in {"pending", "ready"}
                              /\ AllSettled(p) /\ Upstream[p] # {}}

Readied == {p \in Pending : AllSettled(p)}

AfterAdvance(d) ==
    CASE drv[d].then = "drive" -> [drv[d] EXCEPT !.pc = "select", !.round = 0]
      [] drv[d].then = "final" -> [drv[d] EXCEPT !.pc = "stop", !.round = 0]
      [] drv[d].then = "close" -> Idle

\* The rows are read, and with them everything this round will do.
AdvanceRead(d) ==
    LET skips == {p \in Readied : ~Matches(p)}
        readies == Readied \ skips
    IN  /\ drv[d].pc = "advance"
        /\ drv' = [drv EXCEPT ![d] =
                     IF Readied = {} THEN AfterAdvance(d)
                     ELSE [@ EXCEPT !.pc = IF skips = {} THEN "apply" ELSE "skip",
                                    !.todo = skips,
                                    !.inputs = [p \in readies |-> InputOf(p)]]]
        /\ UNCHANGED <<tables, crashes>>

NextRound(d) ==
    IF drv[d].round > Size THEN Idle   \* nonconvergent
    ELSE [drv[d] EXCEPT !.pc = "advance", !.round = @ + 1, !.todo = {}, !.inputs = NoInput]

\* skip_process under the key process.skip:<id>, one transaction each.
AdvanceSkip(d) ==
    LET p == First(drv[d].todo)
        key == <<"process.skip", p>>
        rest == drv[d].todo \ {p}
        on == [drv EXCEPT ![d] =
                 IF rest # {} THEN [@ EXCEPT !.todo = rest]
                 ELSE IF DOMAIN drv[d].inputs # {} THEN [@ EXCEPT !.todo = {}, !.pc = "apply"]
                 ELSE NextRound(d)]
    IN  /\ drv[d].pc = "skip"
        /\ \/ /\ key \notin keys /\ MayMove(p, "skipped", d)
              /\ rows' = [rows EXCEPT ![p] = Moved(@, "skipped", "none")]
              /\ keys' = keys \cup {key}
              /\ drv' = on
           \/ /\ key \in keys /\ "replay" \in Answers
              /\ drv' = on /\ UNCHANGED <<rows, keys>>
           \/ /\ IF key \in keys THEN "conflict" \in Answers ELSE ~MayMove(p, "skipped", d)
              /\ Raise(d) /\ UNCHANGED <<rows, keys>>
        /\ UNCHANGED <<run, gates, bound, crashes>>

\* apply_correlation_children: all of them or none.
AdvanceApply(d) ==
    LET children == DOMAIN drv[d].inputs
        used == {p \in children : <<"process.ready", p>> \in keys}
        new == children \ used
    IN  /\ drv[d].pc = "apply"
        /\ \/ /\ new \subseteq Pending
              /\ used # {} => "replay" \in Answers
              /\ rows' = [p \in Plan |->
                            IF p \in new
                            THEN [rows[p] EXCEPT !.status = "ready", !.fed = drv[d].inputs[p]]
                            ELSE rows[p]]
              /\ keys' = keys \cup {<<"process.ready", p>> : p \in new}
              /\ drv' = [drv EXCEPT ![d] = NextRound(d)]
           \/ /\ ~(new \subseteq Pending) \/ (used # {} /\ "conflict" \in Answers)
              /\ Raise(d) /\ UNCHANGED <<rows, keys>>
        /\ UNCHANGED <<run, gates, bound, crashes>>

-----------------------------------------------------------------------------
(* One tick of drive_until_idle.                                            *)

\* _row_claimable.
RowClaimable(p) ==
    \/ rows[p].status = "running" /\ rows[p].up
    \/ /\ rows[p].attempt < MaxAttempts
       /\ \/ rows[p].status = "ready"
          \/ rows[p].status = "retry_wait" /\ rows[p].up

\* The next row; the order of the queue is NativeJournal's.  With nothing to do
\* the loop is left for the advance after it.
Select(d) ==
    /\ drv[d].pc = "select"
    /\ \/ \E p \in Plan :
             /\ RowClaimable(p)
             /\ drv' = [drv EXCEPT ![d].p = p, ![d].seen = rows[p],
                          ![d].pc = IF rows[p].status = "running" THEN "maintain" ELSE "claim"]
       \/ /\ \A p \in Plan : ~RowClaimable(p)
          /\ drv' = [drv EXCEPT ![d].pc = "advance", ![d].round = 1, ![d].then = "final"]
    /\ UNCHANGED <<tables, crashes>>

\* A tick is over; max_ticks ends the loop.
Ticked(d) ==
    [drv[d] EXCEPT !.pc = "advance", !.round = 1, !.tick = @ + 1, !.p = 1,
                   !.seen = Row("absent"),
                   !.then = IF drv[d].tick + 1 < MaxTicks THEN "drive" ELSE "final"]

\* maintain_process ends the expired lease in the old owner's name.
Maintain(d) ==
    LET p == drv[d].p
        row == rows[p]
    IN  /\ drv[d].pc = "maintain"
        /\ \/ row # drv[d].seen /\ Raise(d) /\ UNCHANGED rows
           \/ /\ row = drv[d].seen /\ row.attempt < MaxAttempts
              /\ rows' = [rows EXCEPT ![p] = [Moved(@, "retry_wait", "none") EXCEPT !.up = TRUE]]
              /\ Goto(d, "claim")
           \/ /\ row = drv[d].seen /\ row.attempt >= MaxAttempts
              /\ rows' = [rows EXCEPT ![p] = Moved(@, "failed", "none")]
              /\ drv' = [drv EXCEPT ![d] = Ticked(d)]
        /\ UNCHANGED <<run, gates, keys, bound, crashes>>

\* claim_process; a caller that comes too late raises.
Claim(d) ==
    LET p == drv[d].p
    IN  /\ drv[d].pc = "claim"
        /\ \/ /\ RowClaimable(p) /\ rows[p].attempt < MaxAttempts
              /\ rows' = [rows EXCEPT ![p].status = "running", ![p].attempt = @ + 1,
                                      ![p].owner = d, ![p].up = FALSE]
              /\ drv' = [drv EXCEPT ![d].pc = "run",
                            ![d].seen = [Row("running") EXCEPT !.attempt = rows[p].attempt + 1]]
           \/ /\ ~(RowClaimable(p) /\ rows[p].attempt < MaxAttempts)
              /\ Raise(d) /\ UNCHANGED rows
        /\ UNCHANGED <<run, gates, keys, bound, crashes>>

\* The effector has returned: its result or failure is recorded for the row, or
\* the caller raises because the row is no longer its own.
Finish(d, to, result) ==
    LET p == drv[d].p
    IN  /\ \/ /\ MayMove(p, to, d)
              /\ rows' = [rows EXCEPT ![p] = Moved(@, to, result)]
              /\ drv' = [drv EXCEPT ![d] = Ticked(d)]
           \/ /\ ~MayMove(p, to, d)
              /\ Raise(d) /\ UNCHANGED rows
        /\ UNCHANGED <<run, gates, keys, bound, crashes>>

Succeed(d) ==
    /\ drv[d].pc = "run" /\ drv[d].p \notin Manual
    /\ \E result \in Results(drv[d].p) : Finish(d, "succeeded", result)

\* A failure is retried while attempts remain to the attempt that was claimed; the
\* last one ends as a failure or, if the effector timed out, as that.
Fail(d) ==
    /\ drv[d].pc = "run"
    /\ \E to \in IF drv[d].seen.attempt < MaxAttempts THEN {"retry_wait"}
                ELSE {"failed", "timed_out"} :
          Finish(d, to, "none")

\* An owned running process.
Owns(d) == rows[drv[d].p].status = "running" /\ rows[drv[d].p].owner = d

\* park_homeostat_process: the homeostat and the row in one transaction.
Park(d) ==
    LET p == drv[d].p
    IN  /\ drv[d].pc = "run" /\ p \in Manual
        /\ \/ /\ Owns(d) /\ gates[p] = NoGate
              /\ rows' = [rows EXCEPT ![p] = Moved(@, "waiting", "none")]
              /\ gates' = [gates EXCEPT ![p] = [status |-> "open", attempt |-> rows[p].attempt]]
              /\ drv' = [drv EXCEPT ![d] = Ticked(d)]
           \/ /\ gates[p] # NoGate   \* another did: a replay, if within the same second
              /\ drv' = [drv EXCEPT ![d] = Ticked(d)] /\ UNCHANGED <<rows, gates>>
           \/ /\ ~(Owns(d) /\ gates[p] = NoGate)
              /\ Raise(d) /\ UNCHANGED <<rows, gates>>
        /\ UNCHANGED <<run, keys, bound, crashes>>

-----------------------------------------------------------------------------
(* The end of a drive: why it stopped, and finalize_run, which is called by *)
(* drive_correlation_until_idle and again by run_correlation_path.          *)

Failed == {"failed", "cancelled", "timed_out"}

Done == {"succeeded", "skipped"}

AnyFailed == \E p \in Plan : rows[p].status \in Failed

AllDone == \A p \in Plan : rows[p].status \in Done

\* stopped_reason is max_ticks.
Stop(d) ==
    /\ drv[d].pc = "stop"
    /\ drv' = [drv EXCEPT ![d].pc = "finalize",
                 ![d].exhausted = /\ drv[d].tick >= MaxTicks /\ run \notin RunTerminal
                                  /\ ~AnyFailed /\ ~AllDone]
    /\ UNCHANGED <<tables, crashes>>

NextPass(d) ==
    IF drv[d].pass = 1
    THEN [drv[d] EXCEPT !.pc = "finalize", !.pass = 2, !.from = "absent", !.target = "absent"]
    ELSE Idle

\* finalize_run reads the run ...
FinalizeRun(d) ==
    /\ drv[d].pc = "finalize"
    /\ drv' = [drv EXCEPT ![d] = IF run \in RunTerminal THEN NextPass(d)
                                 ELSE [@ EXCEPT !.pc = "rows", !.from = run]]
    /\ UNCHANGED <<tables, crashes>>

\* Slip: dependents that were never readied are not counted.
TargetWithoutPending(d) ==
    CASE AnyFailed -> "failed"
      [] ~AnyFailed /\ \A p \in Plan : rows[p].status \in Done \cup {"pending"} -> "completed"
      [] OTHER -> IF drv[d].exhausted THEN "timed_out" ELSE "waiting"

TargetOf(d) ==
    CASE AnyFailed -> "failed"
      [] AllDone -> "completed"
      [] OTHER -> IF drv[d].exhausted THEN "timed_out" ELSE "waiting"

\* ... then the rows, and derives the one from the other.
FinalizeRows(d) ==
    /\ drv[d].pc = "rows"
    /\ drv' = [drv EXCEPT ![d] = IF TargetOf(d) = drv[d].from THEN NextPass(d)
                                 ELSE [@ EXCEPT !.pc = "decide", !.target = TargetOf(d)]]
    /\ UNCHANGED <<tables, crashes>>

\* Slip: the status that was read earlier is taken for the run's.
LegalForSeen(d, to) == CanTransitionRun(drv[d].from, to)

RunLegal(d, to) == CanTransitionRun(run, to)

\* transition_run_status under the key run.finalize:<run>:<target>.
FinalizeWrite(d) ==
    LET to == drv[d].target
        key == <<"run.finalize", to>>
    IN  /\ drv[d].pc = "decide"
        /\ \/ /\ key \notin keys /\ RunLegal(d, to)
              /\ run' = to /\ keys' = keys \cup {key}
              /\ drv' = [drv EXCEPT ![d] = NextPass(d)]
           \/ /\ key \in keys   \* a replay, if within the same second
              /\ drv' = [drv EXCEPT ![d] = NextPass(d)]
              /\ UNCHANGED <<run, keys>>
           \/ /\ key \in keys \/ ~RunLegal(d, to)
              /\ Raise(d) /\ UNCHANGED <<run, keys>>
        /\ UNCHANGED <<rows, gates, bound, crashes>>

-----------------------------------------------------------------------------
(* Operators: resume_homeostat, cancel_homeostat, expire_homeostat and      *)
(* transition_homeostat_terminal, which is one of them and an advance; and  *)
(* rearm_homeostat.                                                         *)

RowEnd == [completed |-> "succeeded", cancelled |-> "cancelled", expired |-> "timed_out"]

\* Without a key of the operator's own, the key is homeostat.<verb>:<id>, and a
\* second use of it changes nothing.
Close(d, p, end, advance) ==
    LET key == <<end, p>>
    IN  /\ drv[d].pc = "idle"
        /\ gates[p].status = "open" /\ rows[p].status = "waiting" /\ rows[p].owner = Nobody
        /\ OwnKeys \/ key \notin keys
        /\ gates' = [gates EXCEPT ![p].status = end]
        /\ \E result \in IF end = "completed" THEN Results(p) ELSE {"none"} :
               rows' = [rows EXCEPT ![p] = Moved(@, RowEnd[end], result)]
        /\ keys' = IF OwnKeys THEN keys ELSE keys \cup {key}
        /\ drv' = IF advance
                  THEN [drv EXCEPT ![d] = [Idle EXCEPT !.pc = "advance", !.round = 1]]
                  ELSE drv
        /\ UNCHANGED <<run, bound, crashes>>

\* Asked again, transition_homeostat_terminal changes nothing, and advances.
Repeat(d, p) ==
    /\ drv[d].pc = "idle" /\ gates[p].status \in DOMAIN RowEnd
    /\ drv' = [drv EXCEPT ![d] = [Idle EXCEPT !.pc = "advance", !.round = 1]]
    /\ UNCHANGED <<tables, crashes>>

\* Slip: the homeostat is opened again and the process stays as it is.
OpenedAlone(p) == rows[p]

Reopened(p) == Moved(rows[p], "waiting", "none")

\* reopen_homeostat_process with require_waiting_run.  Its key counts attempts.
Rearm(p) ==
    /\ run = "waiting"
    /\ gates[p].status \in DOMAIN RowEnd /\ gates[p].attempt < MaxAttempts
    /\ rows[p].status \in {"succeeded", "cancelled", "timed_out"}
    /\ rows[p].attempt < MaxAttempts
    /\ gates' = [gates EXCEPT ![p].status = "open", ![p].attempt = @ + 1]
    /\ rows' = [rows EXCEPT ![p] = Reopened(p)]
    /\ UNCHANGED <<run, keys, bound, drv, crashes>>

-----------------------------------------------------------------------------
(* Faults and time.                                                         *)

\* A caller dies, or is overtaken between a read and a transaction and raises.
Crash(d) ==
    /\ drv[d].pc # "idle" /\ crashes < MaxCrashes
    /\ Raise(d) /\ crashes' = crashes + 1
    /\ UNCHANGED tables

TimeUp(p) ==
    /\ rows[p].status \in {"running", "retry_wait"} /\ ~rows[p].up
    /\ rows' = [rows EXCEPT ![p].up = TRUE]
    /\ UNCHANGED <<run, gates, keys, bound, drv, crashes>>

-----------------------------------------------------------------------------
PathInit ==
    /\ run = IF Persisted THEN "created" ELSE "absent"
    /\ rows = [p \in Plan |-> Row(IF ~Persisted THEN "absent"
                                  ELSE IF Upstream[p] = {} THEN "ready" ELSE "pending")]
    /\ gates = [p \in Plan |-> NoGate]
    /\ keys = {} /\ bound = Persisted
    /\ drv = [d \in Caller |-> Idle]
    /\ crashes = 0

PathStep(d) ==
    \/ Enter(d) \/ Schedule(d) \/ MarkPending(d) \/ Refresh(d) \/ Promote(d) \/ Bind(d)
    \/ AdvanceRead(d) \/ AdvanceSkip(d) \/ AdvanceApply(d)
    \/ Select(d) \/ Maintain(d) \/ Claim(d) \/ Succeed(d) \/ Fail(d) \/ Park(d)
    \/ Stop(d) \/ FinalizeRun(d) \/ FinalizeRows(d) \/ FinalizeWrite(d)

Operate(d) ==
    \E p \in Plan :
        \/ \E end \in DOMAIN RowEnd, advance \in BOOLEAN : Close(d, p, end, advance)
        \/ Repeat(d, p)

PathNext ==
    \/ \E d \in Caller : PathStep(d) \/ Operate(d) \/ Crash(d)
    \/ \E p \in Plan : Rearm(p) \/ TimeUp(p)

PathSpec == PathInit /\ [][PathNext]_pathVars

\* A caller goes on, its effectors return, and while the run is open it is called
\* again, also where it does an operator's work in between; leases and delays end.
\* Nobody must answer a homeostat.
FairPathSpec ==
    /\ PathSpec
    /\ \A d \in Caller : WF_pathVars(PathStep(d)) /\ SF_pathVars(Enter(d))
    /\ \A p \in Plan : WF_pathVars(TimeUp(p))

-----------------------------------------------------------------------------
(* Properties.                                                              *)

Outcome == [status : Status \cup {"absent"}, result : {"none", "yes", "no"},
            gen : 0..MaxAttempts]

Input == UNION {[S -> Outcome] : S \in SUBSET Plan}

RowType == [status : Status \cup {"absent"}, attempt : 0..MaxAttempts,
            owner : Caller \cup {Nobody}, up : BOOLEAN, result : {"none", "yes", "no"},
            fed : Input]

Inputs == UNION {[S -> Input] : S \in SUBSET Plan}

GateType == [status : {"none", "open"} \cup DOMAIN RowEnd, attempt : 0..MaxAttempts]

Places == {"idle", "schedule", "mark", "refresh", "promote", "bind", "advance", "skip",
           "apply", "select", "maintain", "claim", "run", "stop", "finalize", "rows", "decide"}

CallerType ==
    [pc : Places, from : RunStatuses \cup {"absent"}, todo : SUBSET Plan,
     created : SUBSET Plan, inputs : Inputs, round : Nat, then : {"drive", "final", "close"},
     p : Plan, seen : RowType, tick : Nat, exhausted : BOOLEAN, pass : {1, 2},
     target : RunStatuses \cup {"absent"}]

\* The tables hold what their columns may hold, and callers what they remember.
PathTypeOK ==
    /\ run \in RunStatuses \cup {"absent"}
    /\ rows \in [Plan -> RowType]
    /\ gates \in [Plan -> GateType]
    /\ drv \in [Caller -> CallerType]
    /\ bound \in BOOLEAN /\ crashes \in 0..MaxCrashes

Started(p) == rows[p].attempt > 0

\* A process runs on the outcome of every upstream, and unless an upstream was
\* rearmed since, that outcome still stands: whatever callers read, readied and
\* finished in between (AllSettled, InputOf).
ConductedInOrder ==
    \A p \in Plan : Started(p) =>
        /\ DOMAIN rows[p].fed = Upstream[p]
        /\ \A u \in Upstream[p] :
              /\ rows[p].fed[u].status \in TerminalStatus
              /\ rows[p].fed[u].gen = gates[u].attempt => rows[p].fed[u] = Payload(u)

\* A conditional process runs only if its source succeeded with the right
\* result, and is skipped only if it did not, where the source has no homeostat
\* that changes the answer later (_condition_matches).
ConditionDecides ==
    \A p \in DOMAIN When :
        LET source == rows[When[p]]
            approved == source.status = "succeeded" /\ source.result = "yes"
        IN  gates[When[p]] = NoGate =>
                /\ Started(p) => approved
                /\ rows[p].status = "skipped" => ~Started(p) /\ ~approved

\* The end of the run is that of its rows: it is completed when all are done, and
\* failed when one failed (finalize_run).
RunFollowsRows ==
    /\ run = "completed" => AllDone
    /\ run = "failed" => AnyFailed

\* A homeostat is open exactly while its process waits, and ends as it does.
GateFollowsProcess ==
    \A p \in Plan :
        /\ rows[p].status = "waiting" <=> gates[p].status = "open"
        /\ gates[p].status \in DOMAIN RowEnd => rows[p].status = RowEnd[gates[p].status]

\* A run that has ended keeps its end, whatever other callers still derive from
\* rows they read before (transition_run_status).
EndIsFinal == [][(run \in RunTerminal) => run' = run]_pathVars

\* Called again and again, the path comes to its end or waits for an operator:
\* no lost race or expired lease leaves it stuck (run_correlation_path).
PathEnds == []<>(run \in RunTerminal \/ \E p \in Plan : gates[p].status = "open")

=============================================================================
