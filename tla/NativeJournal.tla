---------------------------- MODULE NativeJournal ----------------------------
(***************************************************************************)
(* The process queue of the SQLite journal (mojo/fala/journal.mojo), for   *)
(* one run.  Every public call of NativeJournal that moves a process row   *)
(* is an action here, with arbitrary callers: drivers, host bindings and   *)
(* operators, each on a connection of its own.                             *)
(*                                                                         *)
(* A transaction that opens with BEGIN IMMEDIATE before it reads is one    *)
(* atomic action.  _transition_process reads the row and the idempotency   *)
(* key BEFORE it opens its transaction, so it is two actions, and any      *)
(* other caller may commit in between.                                     *)
(*                                                                         *)
(* A process id is a natural number, its place in the id order of the      *)
(* queue.  A time is a whole second, as in the journal; expires = 0 stands *)
(* for a NULL lease_expires_at.  A caller stamps its call with a clock     *)
(* reading that may be old (a driver given a fixed now) but never ahead of *)
(* the host's clock.  JSON values are members of Datum, "{}" is NoDatum.   *)
(***************************************************************************)
EXTENDS Integers, Sequences, FiniteSets, ProcessStatus

CONSTANTS
    Process,      \* process ids
    Actor,        \* worker ids and operator names
    NoActor,      \* the empty lease_owner
    Client,       \* connections
    Datum,        \* output and error documents of the callers
    NoDatum,      \* the empty document
    LeaseExpired, \* the error document of a reaped process
    ClientKey,    \* idempotency keys that callers choose themselves
    MaxAttempts,  \* max_attempts of each process
    Priority,     \* priority of each process
    Asked,        \* the transitions the callers of an instance ask for
    MaxTime,      \* bound on the clock
    MaxAge,       \* bound on the age of a clock reading
    MaxLease,     \* bound on the length of a lease
    MaxDelay      \* bound on the delay of a retry

ASSUME ProcessAssumption == Process \subseteq Nat /\ IsFiniteSet(Process)

ASSUME ActorAssumption == NoActor \notin Actor

ASSUME AttemptsAssumption ==
    /\ MaxAttempts \in [Process -> Nat \ {0}]
    /\ Priority \in [Process -> Int]

ASSUME BoundsAssumption ==
    /\ MaxTime \in Nat /\ MaxAge \in Nat
    /\ MaxLease \in Nat /\ MaxDelay \in Nat

VARIABLES
    now,      \* the host's clock
    proc,     \* the rows of table processes
    log,      \* runtime_commands, each with the event of its transaction
    inflight  \* _transition_process calls between their read and their write

vars == <<now, proc, log, inflight>>

-----------------------------------------------------------------------------
(* Rows, keys and log entries.                                             *)

Offered == Datum \cup {NoDatum}
Doc == Offered \cup {LeaseExpired}

Row == [status : Status \cup {"absent"}, attempt : Nat,
        owner : Actor \cup {NoActor}, expires : Nat,
        due : Nat, created : Nat, output : Doc, error : Doc]

AbsentRow == [status |-> "absent", attempt |-> 0, owner |-> NoActor, expires |-> 0,
              due |-> 0, created |-> 0, output |-> NoDatum, error |-> NoDatum]

\* The targets of the public wrappers of _transition_process.
Target == {"succeeded", "failed", "retry_wait", "waiting", "cancel_requested",
           "skipped", "cancelled", "timed_out"}

\* The keys the journal derives itself: one per schedule, one per claimed
\* attempt, one per reaped attempt, and one per transition and second.
DefaultKey == [kind : {"schedule", "claim", "reap"} \cup Target,
               process : Process, n : Nat]

ASSUME KeyAssumption == ClientKey \cap DefaultKey = {}

\* Slip: the reap's key leaves the process out.
ReapKeyOfRun(p, n) == [kind |-> "reap", process |-> 0, n |-> n]

ScheduleKey(p) == [kind |-> "schedule", process |-> p, n |-> 0]
ClaimKey(p, n) == [kind |-> "claim", process |-> p, n |-> n]
ReapKey(p, n) == [kind |-> "reap", process |-> p, n |-> n]
TransitionKey(p, to, at) == [kind |-> to, process |-> p, n |-> at]

\* An accepted command with its event: "to" is the status it put the row in,
\* "until" the lease of a claim or the due time of a retry.
Entry == [key : DefaultKey \cup ClientKey,
          type : {"schedule", "claim", "reap", "ready"} \cup Target,
          to : Status, process : Process, attempt : Nat,
          actor : Actor \cup {NoActor}, at : Nat, data : Doc, until : Nat]

UsedKeys == {log[i].key : i \in DOMAIN log}

Readings == {t \in 0..now : now - MaxAge <= t}

-----------------------------------------------------------------------------
(* The claim queue.                                                        *)

\* Slip: a leased row is taken over before its lease expires.
ClaimableWhileLeased(p, at) ==
    /\ proc[p].attempt < MaxAttempts[p]
    /\ \/ proc[p].status \in {"ready", "running"}
       \/ proc[p].status = "retry_wait" /\ proc[p].due <= at

\* Slip: the attempts are not counted.
ClaimableForEver(p, at) ==
    \/ proc[p].status = "ready"
    \/ proc[p].status = "retry_wait" /\ proc[p].due <= at
    \/ proc[p].status = "running" /\ proc[p].expires <= at

\* The WHERE clause shared by claim_next_ready and claim_process.
Claimable(p, at) ==
    /\ proc[p].attempt < MaxAttempts[p]
    /\ \/ proc[p].status = "ready"
       \/ /\ proc[p].status = "retry_wait"
          /\ proc[p].due <= at
       \/ /\ proc[p].status = "running"
          /\ proc[p].expires # 0
          /\ proc[p].expires <= at

\* The rows claim_next_ready reaps before it selects.
Exhausted(p, at) ==
    /\ proc[p].status = "running"
    /\ proc[p].expires # 0
    /\ proc[p].expires <= at
    /\ proc[p].attempt >= MaxAttempts[p]

\* ORDER BY priority DESC, available_at ASC, created_at ASC, id ASC.
Before(p, q) ==
    \/ Priority[p] > Priority[q]
    \/ /\ Priority[p] = Priority[q]
       /\ \/ proc[p].due < proc[q].due
          \/ /\ proc[p].due = proc[q].due
             /\ \/ proc[p].created < proc[q].created
                \/ proc[p].created = proc[q].created /\ p < q

\* The listings of S in queue order (there is exactly one).
Listings(S) ==
    {s \in [1..Cardinality(S) -> S] :
        /\ S = {s[i] : i \in DOMAIN s}
        /\ \A i, j \in DOMAIN s : i < j => Before(s[i], s[j])}

\* Slip: a takeover does not count as an attempt.
ClaimedWithoutAttempt(row, w, until) ==
    [row EXCEPT !.status = "running", !.owner = w, !.expires = until,
                !.attempt = IF row.status = "running" THEN @ ELSE @ + 1]

ClaimedRow(row, w, until) ==
    [row EXCEPT !.status = "running", !.attempt = @ + 1,
                !.owner = w, !.expires = until]

ReapedRow(row) ==
    [row EXCEPT !.status = "failed", !.owner = NoActor, !.expires = 0,
                !.error = LeaseExpired]

ClaimEntry(p, w, at, until, key) ==
    [key |-> key, type |-> "claim", to |-> "running", process |-> p,
     attempt |-> proc[p].attempt + 1, actor |-> w, at |-> at,
     data |-> NoDatum, until |-> until]

ReapEntry(p, w, at) ==
    [key |-> ReapKey(p, proc[p].attempt), type |-> "reap", to |-> "failed",
     process |-> p, attempt |-> proc[p].attempt, actor |-> w, at |-> at,
     data |-> LeaseExpired, until |-> 0]

ReapEntries(order, w, at) == [i \in DOMAIN order |-> ReapEntry(order[i], w, at)]

\* A claim's key: the caller's, or the one derived from the attempt it makes.
ClaimKeys(p) == {ClaimKey(p, proc[p].attempt + 1)} \cup ClientKey

-----------------------------------------------------------------------------
(* Scheduling.                                                             *)

\* The row either scheduling call inserts; one that exists is refused.
InsertRow(p, status, at, due, type, key) ==
    /\ proc[p].status = "absent"
    /\ key \notin UsedKeys
    /\ proc' = [proc EXCEPT ![p] = [AbsentRow EXCEPT !.status = status,
                                        !.due = due, !.created = at]]
    /\ log' = Append(log, [key |-> key, type |-> type, to |-> status,
                           process |-> p, attempt |-> 0, actor |-> NoActor,
                           at |-> at, data |-> NoDatum, until |-> 0])
    /\ UNCHANGED <<now, inflight>>

\* schedule_process: ready at once, available_at defaulting to created_at.
ScheduleProcess(p, at, due) ==
    \E key \in {ScheduleKey(p)} \cup ClientKey :
        InsertRow(p, "ready", at, due, "schedule", key)

\* schedule_process_with_command: pending or ready, under the caller's command.
ScheduleProcessWithCommand(p, status, at, due, key) ==
    /\ status \in {"pending", "ready"}
    /\ InsertRow(p, status, at, due, "schedule", key)

-----------------------------------------------------------------------------
(* Claiming.                                                               *)

\* One transaction: reap every exhausted expired row, then claim the first
\* claimable one.  A reap whose key is taken aborts the whole transaction.
ClaimNextReady(w, at, until) ==
    LET reaped == {p \in Process : Exhausted(p, at)}
        ready  == {p \in Process : Claimable(p, at)}
        Reaped(p) == IF p \in reaped THEN ReapedRow(proc[p]) ELSE proc[p]
    IN  /\ until > at
        /\ \A p \in reaped : ReapKey(p, proc[p].attempt) \notin UsedKeys
        /\ \E order \in Listings(reaped) :
            \/ /\ ready = {} /\ reaped # {}
               /\ proc' = [p \in Process |-> Reaped(p)]
               /\ log' = log \o ReapEntries(order, w, at)
            \/ \E p \in ready : \E key \in ClaimKeys(p) \ UsedKeys :
               /\ \A q \in ready \ {p} : Before(p, q)
               /\ proc' = [q \in Process |-> IF q = p THEN ClaimedRow(proc[p], w, until)
                                                      ELSE Reaped(q)]
               /\ log' = log \o ReapEntries(order, w, at)
                             \o <<ClaimEntry(p, w, at, until, key)>>
        /\ UNCHANGED <<now, inflight>>

\* claim_process: the same predicate for one row, and no reaping.
ClaimProcess(p, w, at, until) ==
    /\ until > at
    /\ Claimable(p, at)
    /\ \E key \in ClaimKeys(p) \ UsedKeys :
        log' = Append(log, ClaimEntry(p, w, at, until, key))
    /\ proc' = [proc EXCEPT ![p] = ClaimedRow(@, w, until)]
    /\ UNCHANGED <<now, inflight>>

-----------------------------------------------------------------------------
(* Transitions.                                                            *)

OwnedBy(row, actor) == row.owner \in {NoActor, actor}

\* Slip: the lease owner is not asked for.
LegalForAnyone(p, row, to, actor) ==
    /\ \/ CanTransition(row.status, to)
       \/ to = "retry_wait" /\ row.status = "failed" /\ row.owner = NoActor
    /\ to = "retry_wait" => row.attempt < MaxAttempts[p]

\* The checks _transition_process makes on the row it has read.  Only a
\* result or a retry is checked against the lease.
Legal(p, row, to, actor) ==
    /\ \/ CanTransition(row.status, to)
       \/ to = "retry_wait" /\ row.status = "failed" /\ row.owner = NoActor
    /\ to = "retry_wait" => row.attempt < MaxAttempts[p]
    /\ to \in {"succeeded", "failed", "retry_wait"} => OwnedBy(row, actor)

\* The document a transition writes into its command and event.
RecordedData(row, to, data) ==
    IF to = "retry_wait" /\ data = NoDatum THEN row.error ELSE data

\* The UPDATE of _transition_process.  data is the output of a success, skip
\* or wait and the error of the others; every transition drops the lease.
MovedRow(row, to, data, due) ==
    [row EXCEPT
        !.status = to, !.owner = NoActor, !.expires = 0,
        !.due = IF to = "retry_wait" THEN due ELSE @,
        !.output = CASE to \in {"succeeded", "skipped", "waiting"} -> data
                     [] to = "failed" -> NoDatum
                     [] OTHER -> @,
        !.error = CASE to \in {"succeeded", "waiting"} -> NoDatum
                    [] to = "skipped" -> @
                    [] OTHER -> RecordedData(row, to, data)]

\* Slip: the transaction compares the status alone.
SameStatus(p, seen) == proc[p].status = seen.status

\* The six columns compared again inside the transaction.
Unchanged(p, seen) ==
    /\ proc[p].status = seen.status
    /\ proc[p].attempt = seen.attempt
    /\ proc[p].owner = seen.owner
    /\ proc[p].expires = seen.expires
    /\ proc[p].output = seen.output
    /\ proc[p].error = seen.error

Calls == [client : Client, process : Process, to : Target, actor : Actor,
          at : Nat, data : Doc, due : Nat, key : DefaultKey \cup ClientKey,
          seen : Row]

\* First half of _transition_process: read the row, look the key up (a used
\* key ends the call here, as a replay or a conflict) and check the row.
BeginTransition(c, p, to, actor, at, data, due, key) ==
    /\ \A call \in inflight : call.client # c
    /\ proc[p].status # "absent"
    /\ key \notin UsedKeys
    /\ Legal(p, proc[p], to, actor)
    /\ inflight' = inflight \cup
          {[client |-> c, process |-> p, to |-> to, actor |-> actor, at |-> at,
            data |-> data, due |-> due, key |-> key, seen |-> proc[p]]}
    /\ UNCHANGED <<now, proc, log>>

\* Second half: the transaction.
CommitTransition(call) ==
    LET p == call.process
    IN  /\ call \in inflight
        /\ Unchanged(p, call.seen)
        /\ call.key \notin UsedKeys
        /\ proc' = [proc EXCEPT ![p] = MovedRow(@, call.to, call.data, call.due)]
        /\ log' = Append(log,
              [key |-> call.key, type |-> call.to, to |-> call.to, process |-> p,
               attempt |-> call.seen.attempt, actor |-> call.actor, at |-> call.at,
               data |-> RecordedData(call.seen, call.to, call.data),
               until |-> IF call.to = "retry_wait" THEN call.due ELSE 0])
        /\ inflight' = inflight \ {call}
        /\ UNCHANGED now

\* The call ends with nothing written: the row changed, its key was taken in
\* between, or the caller died.
AbandonTransition(call) ==
    /\ call \in inflight
    /\ inflight' = inflight \ {call}
    /\ UNCHANGED <<now, proc, log>>

\* The checks of transition_process_with_command: every target it moves a
\* leased row to is checked against the lease.
CommandLegal(p, row, to, actor) ==
    \/ to = "ready" /\ row.status = "pending"
    \/ /\ OwnedBy(row, actor)
       /\ \/ to \in {"succeeded", "failed"} /\ row.status \in {"running", "waiting"}
          \/ to = "waiting" /\ row.status = "running"
          \/ /\ to = "retry_wait" /\ row.status \in {"running", "failed"}
             /\ row.attempt < MaxAttempts[p]
          \/ /\ to \in {"cancel_requested", "skipped", "cancelled", "timed_out"}
             /\ CanTransition(row.status, to)

\* Its UPDATE: unlike MovedRow, a success or a wait keeps the last error.
CommandRow(row, to, data, due) ==
    IF to = "ready" THEN [row EXCEPT !.status = to, !.owner = NoActor, !.expires = 0]
    ELSE [MovedRow(row, to, data, due) EXCEPT
             !.error = IF to \in {"succeeded", "waiting"} THEN row.error ELSE @]

\* transition_process_with_command, one transaction under the caller's key.
\* fence is the attempt in the command's payload, -1 when it names none.
TransitionWithCommand(p, to, actor, at, fence, data, due, key) ==
    /\ key \notin UsedKeys
    /\ fence >= 0 => fence = proc[p].attempt
    /\ CommandLegal(p, proc[p], to, actor)
    /\ proc' = [proc EXCEPT ![p] = CommandRow(@, to, data, due)]
    /\ log' = Append(log,
          [key |-> key, type |-> to, to |-> to, process |-> p,
           attempt |-> proc[p].attempt, actor |-> actor, at |-> at,
           data |-> data, until |-> IF to = "retry_wait" THEN due ELSE 0])
    /\ UNCHANGED <<now, inflight>>

Tick ==
    /\ now < MaxTime
    /\ now' = now + 1
    /\ UNCHANGED <<proc, log, inflight>>

-----------------------------------------------------------------------------
(* The journal under arbitrary callers.                                    *)

Init ==
    /\ now = 0
    /\ proc = [p \in Process |-> AbsentRow]
    /\ log = <<>>
    /\ inflight = {}

Due(at) == at..(at + MaxDelay)
Lease(at) == (at + 1)..(at + MaxLease)

Schedule ==
    \E p \in Process, at \in Readings :
        \/ \E due \in Due(at) : ScheduleProcess(p, at, due)
        \/ \E status \in {"pending", "ready"}, due \in Due(at), key \in ClientKey :
              ScheduleProcessWithCommand(p, status, at, due, key)

Claim ==
    \E w \in Actor, at \in Readings : \E until \in Lease(at) :
        \/ ClaimNextReady(w, at, until)
        \/ \E p \in Process : ClaimProcess(p, w, at, until)

Begin ==
    \E c \in Client, p \in Process, to \in Target \cap Asked, actor \in Actor, at \in Readings :
        \E data \in Offered, due \in Due(at), key \in {TransitionKey(p, to, at)} \cup ClientKey :
            BeginTransition(c, p, to, actor, at, data, due, key)

Finish == \E call \in inflight : CommitTransition(call) \/ AbandonTransition(call)

Command ==
    \E p \in Process, to \in (Target \cup {"ready"}) \cap Asked, actor \in Actor, at \in Readings,
       key \in ClientKey :
        \E fence \in -1..MaxAttempts[p], data \in Offered, due \in Due(at) :
            TransitionWithCommand(p, to, actor, at, fence, data, due, key)

Next == Schedule \/ Claim \/ Begin \/ Finish \/ Command \/ Tick

Spec == Init /\ [][Next]_vars

-----------------------------------------------------------------------------
(* What a row, the queue and the log must agree on.                        *)

TypeOK ==
    /\ now \in Nat
    /\ proc \in [Process -> Row]
    /\ log \in Seq(Entry)
    /\ inflight \subseteq Calls

Latest(i) ==
    i \in DOMAIN log /\ \A j \in DOMAIN log : j > i => log[j].process # log[i].process

\* Projection: the status, attempt, lease and due time of every row are those
\* its last event records, so the event stream alone rebuilds the queue.  A
\* transaction that wrote a row without its event, or an event without its row,
\* breaks it.
RowIsLastEvent ==
    \A p \in Process :
        proc[p].status # "absent" =>
            \E i \in DOMAIN log :
                /\ Latest(i) /\ log[i].process = p
                /\ proc[p].status = log[i].to
                /\ proc[p].attempt = log[i].attempt
                /\ log[i].type = "claim" => /\ proc[p].owner = log[i].actor
                                            /\ proc[p].expires = log[i].until
                /\ log[i].type = "retry_wait" => proc[p].due = log[i].until

\* A row is leased exactly while it runs.
LeasedWhileRunning ==
    \A p \in Process :
        /\ proc[p].status = "running" <=> proc[p].owner # NoActor
        /\ proc[p].status = "running" <=> proc[p].expires # 0

\* "attempt is the number of claims already made": each attempt up to the
\* row's has one claim in the log, none comes after it, and none exceeds the
\* budget.
AttemptsAreClaims ==
    \A p \in Process :
        /\ proc[p].attempt <= MaxAttempts[p]
        /\ \A n \in 1..proc[p].attempt : \E i \in DOMAIN log :
              log[i].type = "claim" /\ log[i].process = p /\ log[i].attempt = n
        /\ \A i, j \in DOMAIN log :
              /\ log[i].type = "claim" /\ log[i].process = p
              /\ log[j].type = "claim" /\ log[j].process = p
              => /\ log[i].attempt <= proc[p].attempt
                 /\ i < j => log[i].attempt < log[j].attempt

\* Keys are unique, and the keys the queue derives for its next claim or reap
\* are free: a taken one would abort claim_next_ready for every worker, for
\* ever.
QueueKeysFree ==
    /\ \A i, j \in DOMAIN log : log[i].key = log[j].key => i = j
    /\ \A p \in Process :
        /\ proc[p].attempt < MaxAttempts[p] => ClaimKey(p, proc[p].attempt + 1) \notin UsedKeys
        /\ proc[p].status = "running" => ReapKey(p, proc[p].attempt) \notin UsedKeys

Follows(i, k) ==
    /\ k < i /\ log[k].process = log[i].process
    /\ \A j \in DOMAIN log : (k < j /\ j < i) => log[j].process # log[i].process

\* A result or retry that ends a claim is recorded under the worker and the
\* attempt of that claim, whatever happened between the read and the write of
\* the transition.
ResultsFromClaimant ==
    \A i, k \in DOMAIN log :
        /\ Follows(i, k) /\ log[k].type = "claim"
        /\ log[i].type \in {"succeeded", "failed", "retry_wait"}
        => log[i].actor = log[k].actor /\ log[i].attempt = log[k].attempt

\* Turns do not overlap: a claim comes no earlier than the end of the lease it
\* takes over, or the due time of the retry it serves.
TurnsDoNotOverlap ==
    \A i, k \in DOMAIN log :
        /\ Follows(i, k) /\ log[k].type \in {"claim", "retry_wait"}
        /\ log[i].type \in {"claim", "reap"}
        => log[k].until <= log[i].at

\* "Illegal terminal rewrites are rejected": a terminal row never changes,
\* except that a failed one with attempts left may be retried.
NoTerminalRewrite ==
    [][\A p \in Process :
          proc[p].status \in TerminalStatus /\ proc'[p] # proc[p] =>
              /\ proc[p].status = "failed" /\ proc'[p].status = "retry_wait"
              /\ proc'[p].attempt < MaxAttempts[p]]_vars

\* "A live lease cannot be stolen": while a lease runs, no claim takes the row
\* over and no reaper fails it.
LiveLeaseNotStolen ==
    [][\A p \in Process :
          proc[p].status = "running" /\ now < proc[p].expires /\ proc'[p] # proc[p] =>
              /\ proc'[p].attempt = proc[p].attempt
              /\ log'[Len(log')].type \notin {"claim", "reap"}]_vars

\* The lifecycle a row stands for: documents, creation time and the log are
\* hidden.
Lifecycle == INSTANCE ProcessLifecycle WITH
    clock <- now,
    table <- [p \in Process |->
                [status |-> proc[p].status, attempt |-> proc[p].attempt,
                 owner |-> proc[p].owner, expires |-> proc[p].expires,
                 due |-> proc[p].due]]

\* The journal implements the lifecycle: reading outside the transaction,
\* reaping in bulk and old clock readings are invisible in it.
LifecycleSpec == Lifecycle!Spec
=============================================================================
