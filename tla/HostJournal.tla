----------------------------- MODULE HostJournal -----------------------------
(***************************************************************************)
(* The journal as the Python host uses it (python/fala/journal.py, host.py *)
(* and inspection.py): applications in several processes of the operating  *)
(* system write run and process rows of their own, complete what waits,    *)
(* record callbacks they run themselves, recover expired claims, inspect   *)
(* leases and delete finished runs, while native drivers claim and settle  *)
(* rows of the same database.                                              *)
(*                                                                         *)
(* Every call of journal.py is one native transaction that opens before it *)
(* reads, so it is one action; a call that raises changes nothing and has  *)
(* no action.  record_in_process is two transactions with a callback in    *)
(* between, and recover_incomplete one statement and then, for each row it *)
(* selected, a look at the row and a transaction that does not look again. *)
(*                                                                         *)
(* A run may be deleted and created again under its id; "born" counts its  *)
(* incarnations.  Metadata, titles and inputs are left out.                *)
(***************************************************************************)
EXTENDS Integers, FiniteSets, ProcessStatus, RunStatus

CONSTANTS
    Run, Process,  \* ids
    Home,          \* processes of the operating system that embed the host
    Thread,        \* their threads
    HomeOf,        \* the home of each thread
    Worker,        \* names that native drivers claim under
    Doc, NoDoc,    \* output documents, and "{}"
    Nobody,        \* no worker, and no thread
    Budget,        \* max_attempts of a natively scheduled row
    RunAsked,      \* run statuses the callers of an instance ask for
    Asked,         \* process statuses they ask for
    MaxTime, MaxLease, MaxBirths

ASSUME HomeAssumption == HomeOf \in [Thread -> Home]

ASSUME NobodyAssumption == Nobody \notin Worker /\ Nobody \notin Thread

ASSUME DocAssumption == NoDoc \notin Doc

ASSUME AskedAssumption == RunAsked \subseteq RunStatuses /\ Asked \subseteq Status

ASSUME HostBoundsAssumption ==
    /\ Budget \in Nat \ {0}
    /\ MaxTime \in Nat /\ MaxLease \in Nat /\ MaxBirths \in Nat

Key == Run \X Process

VARIABLES
    now,      \* the clock
    runs,     \* table runs
    rows,     \* table processes
    gates,    \* the blocker (table homeostats) of each process
    flight,   \* _IN_PROCESS_LOCKS of each home, for this database
    rec,      \* where each thread stands in record_in_process
    rcv,      \* one recover_incomplete in progress
    view,     \* the result of one complete inspect_leases
    called,   \* callbacks that were run, by row and incarnation, with counts
    lost,     \* rows whose callback will never be recorded
    acks      \* completions a caller was told are stored

hostVars == <<now, runs, rows, gates, flight, rec, rcv, view, called, lost, acks>>

-----------------------------------------------------------------------------
(* Rows.                                                                   *)

Docs == Doc \cup {NoDoc}

GateTerminal == {"completed", "cancelled", "expired"}

HostRow == [status : Status \cup {"absent"}, out : Docs,
            owner : Worker \cup {Nobody}, expires : Nat, attempt : Nat, max : Nat]

NoRow == [status |-> "absent", out |-> NoDoc, owner |-> Nobody, expires |-> 0,
          attempt |-> 0, max |-> 0]

NoGate == [status |-> "absent", out |-> NoDoc]

Leased(row) == row.owner # Nobody \/ row.expires # 0

\* A callback's row in the incarnation of its run that it was started in.
Incarnation(k) == <<k[1], k[2], runs[k[1]].born>>

Ticket == Run \X Process \X Nat

Idle == [pc |-> "idle", key |-> <<>>, born |-> 0, to |-> "none"]

\* A recovery: the rows it selected and, once it has looked at one of them
\* again, what it is about to make of that row.
NoRecovery == [worker |-> Nobody, at |-> 0, todo |-> {}, sure |-> {}]
NoView == [at |-> -1, expired |-> {}]

RunExists(r) == runs[r].status # "absent"

-----------------------------------------------------------------------------
(* Runs and processes that the application writes.                         *)

InsertRun(r, status) ==
    /\ ~RunExists(r)
    /\ runs[r].born < MaxBirths
    /\ runs' = [runs EXCEPT ![r] = [status |-> status, born |-> @.born + 1]]

\* A finished run is never written; a call that repeats its status and metadata
\* returns without writing.
MoveRun(r, status) ==
    /\ runs[r].status \in RunOpen
    /\ status = runs[r].status \/ CanTransitionRun(runs[r].status, status)
    /\ runs' = [runs EXCEPT ![r].status = status]

UpsertRunMetadata(r, status) ==
    /\ InsertRun(r, status) \/ MoveRun(r, status)
    /\ UNCHANGED <<now, rows, gates, flight, rec, rcv, view, called, lost, acks>>

TransitionRun(r, status) ==
    /\ MoveRun(r, status)
    /\ UNCHANGED <<now, rows, gates, flight, rec, rcv, view, called, lost, acks>>

FinalizeRun(r, status) == status \in RunTerminal /\ TransitionRun(r, status)

\* A new row has one attempt to make, whatever attempt the caller names.
InsertedRow(status, attempt, out) ==
    [NoRow EXCEPT !.status = status, !.attempt = attempt, !.max = 1, !.out = out]

MayOverwrite(row, status) ==
    /\ row.status \in OpenStatus
    /\ status = row.status \/ CanTransition(row.status, status)
    /\ status = "waiting" => ~Leased(row)

\* upsert_process: the caller's attempt and output replace the row's, and its
\* lease goes.  An identical call on a terminal row only drops a lease left on it.
UpsertProcess(k, status, attempt, out) ==
    LET row == rows[k]
        Unleased == [row EXCEPT !.owner = Nobody, !.expires = 0]
    IN  /\ RunExists(k[1])
        /\ \/ /\ row.status = "absent"
              /\ rows' = [rows EXCEPT ![k] = InsertedRow(status, attempt, out)]
           \/ /\ row.status \in TerminalStatus
              /\ row.status = status /\ row.attempt = attempt /\ row.out = out
              /\ rows' = [rows EXCEPT ![k] = Unleased]
           \/ /\ MayOverwrite(row, status)
              /\ rows' = [rows EXCEPT ![k] = [Unleased EXCEPT !.status = status,
                                                 !.attempt = attempt, !.out = out]]
    /\ UNCHANGED <<now, runs, gates, flight, rec, rcv, view, called, lost, acks>>

ParkProcess(k, attempt, out) == UpsertProcess(k, "waiting", attempt, out)

-----------------------------------------------------------------------------
(* complete_waiting_process.                                               *)

\* The only triples of statuses the native call lets through.
ProcessFor == [completed |-> "succeeded", cancelled |-> "cancelled", expired |-> "timed_out"]
RunFor == [completed |-> "completed", cancelled |-> "cancelled", expired |-> "timed_out"]

\* Slip: a repeated completion is recognised by its statuses alone.
ExactStatuses(k, b, out, blocked) ==
    /\ rows[k].status = ProcessFor[b]
    /\ runs[k[1]].status = RunFor[b]
    /\ blocked => gates[k].status = b

Exact(k, b, out, blocked) ==
    /\ rows[k].status = ProcessFor[b] /\ rows[k].out = out
    /\ runs[k[1]].status = RunFor[b]
    /\ blocked => gates[k].status = b /\ gates[k].out = out

CompleteReplayed(k, b, out, blocked) ==
    /\ rows[k].status # "waiting"
    /\ Exact(k, b, out, blocked)
    /\ rows' = [rows EXCEPT ![k] = [@ EXCEPT !.owner = Nobody, !.expires = 0]]
    /\ UNCHANGED <<runs, gates>>

\* Slip: the blocker is completed without its document.
ClosedGateBare(gate, b, out) ==
    IF gate.status = "open" THEN [gate EXCEPT !.status = b] ELSE gate

ClosedGate(gate, b, out) ==
    IF gate.status = "open" THEN [status |-> b, out |-> out] ELSE gate

\* The run is finished with the process, from any open status.
CompleteWaiting(k, b, out, blocked) ==
    /\ rows[k].status = "waiting" /\ ~Leased(rows[k])
    /\ runs[k[1]].status \in RunTerminal => runs[k[1]].status = RunFor[b]
    /\ blocked /\ gates[k].status # "open" => gates[k] = [status |-> b, out |-> out]
    /\ rows' = [rows EXCEPT ![k] = [@ EXCEPT !.status = ProcessFor[b], !.out = out]]
    /\ runs' = [runs EXCEPT ![k[1]].status = RunFor[b]]
    /\ gates' = IF blocked THEN [gates EXCEPT ![k] = ClosedGate(@, b, out)] ELSE gates

CompleteWaitingProcess(k, b, out, blocked) ==
    /\ rows[k].status # "absent" /\ RunExists(k[1])
    /\ blocked => gates[k].status # "absent"
    /\ CompleteReplayed(k, b, out, blocked) \/ CompleteWaiting(k, b, out, blocked)
    /\ acks' = acks \cup {[at |-> Incarnation(k), status |-> ProcessFor[b], out |-> out]}
    /\ UNCHANGED <<now, flight, rec, rcv, view, called, lost>>

-----------------------------------------------------------------------------
(* record_in_process.                                                      *)

\* One callback at a time in a home; a second call is refused.
RecordEnter(t, k) ==
    /\ rec[t].pc = "idle"
    /\ flight[HomeOf[t]] = Nobody
    /\ flight' = [flight EXCEPT ![HomeOf[t]] = t]
    /\ rec' = [rec EXCEPT ![t] = [Idle EXCEPT !.pc = "start", !.key = k]]
    /\ UNCHANGED <<now, runs, rows, gates, rcv, view, called, lost, acks>>

Leave(t) ==
    /\ flight' = [flight EXCEPT ![HomeOf[t]] = Nobody]
    /\ rec' = [rec EXCEPT ![t] = Idle]

\* Slip: an existing row is taken over.
MayStartAgain(k) == RunExists(k[1]) /\ rows[k].status \notin TerminalStatus

MayStart(k) == RunExists(k[1]) /\ rows[k].status = "absent"

\* record_process_start inserts a running row that nobody leases.
RecordStart(t) ==
    LET k == rec[t].key
    IN  /\ rec[t].pc = "start"
        /\ \/ /\ MayStart(k)
              /\ rows' = [rows EXCEPT ![k] = InsertedRow("running", 1, NoDoc)]
              /\ rec' = [rec EXCEPT ![t] = [@ EXCEPT !.pc = "call", !.born = runs[k[1]].born]]
              /\ UNCHANGED flight
           \/ ~MayStart(k) /\ Leave(t) /\ UNCHANGED rows
        /\ UNCHANGED <<now, runs, gates, rcv, view, called, lost, acks>>

\* The callback runs and returns, raises, or returns what JSON cannot record.
RecordCall(t, to) ==
    /\ rec[t].pc = "call"
    /\ to \in {"succeeded", "failed"}
    /\ rec' = [rec EXCEPT ![t] = [@ EXCEPT !.pc = "finish", !.to = to]]
    /\ called' = [called EXCEPT ![<<rec[t].key[1], rec[t].key[2], rec[t].born>>] = @ + 1]
    /\ UNCHANGED <<now, runs, rows, gates, flight, rcv, view, lost, acks>>

\* Slips: the result is written whatever the row says, or only while its run
\* is open.
MayFinishAnyhow(k) == rows[k].status # "absent"
MayFinishInOpenRun(k) == rows[k].status = "running" /\ runs[k[1]].status \in RunOpen

MayFinish(k) == rows[k].status = "running"

\* record_process_finish: any running row of the id is the callback's.
RecordFinish(t, out) ==
    LET k == rec[t].key
    IN  /\ rec[t].pc = "finish"
        /\ rows' = IF MayFinish(k)
                   THEN [rows EXCEPT ![k] = [@ EXCEPT !.status = rec[t].to,
                                        !.out = IF rec[t].to = "failed" THEN NoDoc ELSE out]]
                   ELSE rows
        /\ Leave(t)
        /\ UNCHANGED <<now, runs, gates, rcv, view, called, lost, acks>>

\* The callback is done and its record fails (the database is busy or gone).
RecordFails(t) ==
    /\ rec[t].pc = "finish"
    /\ lost' = lost \cup {<<rec[t].key[1], rec[t].key[2], rec[t].born>>}
    /\ Leave(t)
    /\ UNCHANGED <<now, runs, rows, gates, rcv, view, called, acks>>

\* A home dies with its threads and locks; what it committed stays.
Crash(h) ==
    LET dying == {t \in Thread : HomeOf[t] = h}
    IN  /\ \E t \in dying : rec[t].pc # "idle"
        /\ lost' = lost \cup {<<rec[t].key[1], rec[t].key[2], rec[t].born>> :
                                 t \in {u \in dying : rec[u].pc \in {"call", "finish"}}}
        /\ rec' = [t \in Thread |-> IF t \in dying THEN Idle ELSE rec[t]]
        /\ flight' = [flight EXCEPT ![h] = Nobody]
        /\ UNCHANGED <<now, runs, rows, gates, rcv, view, called, acks>>

-----------------------------------------------------------------------------
(* Native drivers on the same database.                                    *)

ScheduleRow(k) ==
    /\ RunExists(k[1])
    /\ rows[k].status = "absent"
    /\ rows' = [rows EXCEPT ![k] = [NoRow EXCEPT !.status = "ready", !.max = Budget]]
    /\ UNCHANGED <<now, runs, gates, flight, rec, rcv, view, called, lost, acks>>

ClaimRow(w, k, until) ==
    LET row == rows[k]
    IN  /\ until > now
        /\ row.attempt < row.max
        /\ \/ row.status \in {"ready", "retry_wait"}
           \/ row.status = "running" /\ row.expires # 0 /\ row.expires <= now
        /\ rows' = [rows EXCEPT ![k] = [row EXCEPT !.status = "running", !.owner = w,
                                           !.expires = until, !.attempt = @ + 1]]
        /\ UNCHANGED <<now, runs, gates, flight, rec, rcv, view, called, lost, acks>>

\* A driver records the result of a row it leases.
SettleRow(w, k, to, out) ==
    /\ to \in {"succeeded", "failed"}
    /\ rows[k].status = "running" /\ rows[k].owner = w
    /\ rows' = [rows EXCEPT ![k] = [@ EXCEPT !.status = to, !.owner = Nobody, !.expires = 0,
                                        !.out = IF to = "failed" THEN NoDoc ELSE out]]
    /\ UNCHANGED <<now, runs, gates, flight, rec, rcv, view, called, lost, acks>>

\* A failed row with attempts left may be retried by anyone.
RetryRow(k) ==
    /\ rows[k].status = "failed" /\ ~Leased(rows[k])
    /\ rows[k].attempt < rows[k].max
    /\ rows' = [rows EXCEPT ![k].status = "retry_wait"]
    /\ UNCHANGED <<now, runs, gates, flight, rec, rcv, view, called, lost, acks>>

\* park_homeostat_process: the blocker opens as the process parks.
ParkRow(w, k) ==
    /\ rows[k].status = "running" /\ rows[k].owner = w
    /\ gates[k].status = "absent"
    /\ rows' = [rows EXCEPT ![k] = [@ EXCEPT !.status = "waiting", !.owner = Nobody,
                                        !.expires = 0]]
    /\ gates' = [gates EXCEPT ![k] = [NoGate EXCEPT !.status = "open"]]
    /\ UNCHANGED <<now, runs, flight, rec, rcv, view, called, lost, acks>>

Tick ==
    /\ now < MaxTime
    /\ now' = now + 1
    /\ UNCHANGED <<runs, rows, gates, flight, rec, rcv, view, called, lost, acks>>

-----------------------------------------------------------------------------
(* Recovery, inspection, deletion.                                         *)

\* recover_incomplete selects the worker's expired claims of every run.
RecoverSelect(w, at) ==
    LET due == {k \in Key : /\ rows[k].status = "running" /\ rows[k].owner = w
                            /\ rows[k].expires # 0 /\ rows[k].expires <= at}
    IN  /\ rcv = NoRecovery
        /\ at <= now /\ due # {}
        /\ rcv' = [worker |-> w, at |-> at, todo |-> {<<k, rows[k]>> : k \in due},
                    sure |-> {}]
        /\ UNCHANGED <<now, runs, rows, gates, flight, rec, view, called, lost, acks>>

\* Slip: the row is resolved without being compared with what was selected.
StillSameStatus(k, seen) == rows[k].status = "running"

StillSame(k, seen) ==
    /\ rows[k].status = seen.status /\ rows[k].attempt = seen.attempt
    /\ rows[k].owner = seen.owner /\ rows[k].expires = seen.expires

\* What maintain_process makes of a row: failed when its attempts are used up
\* or its retry policy says so, otherwise due for another attempt.
Resolutions(row) == IF row.attempt >= row.max THEN {"failed"} ELSE {"failed", "retry_wait"}

\* maintain_process looks at a selected row.  A row that changed ends the whole
\* call; the rows resolved before stay resolved.
RecoverCheck ==
    \E item \in rcv.todo :
        LET k == item[1]
        IN  /\ rcv.sure = {}
            /\ IF StillSame(k, item[2])
               THEN \E to \in Resolutions(rows[k]) :
                       rcv' = [rcv EXCEPT !.todo = @ \ {item}, !.sure = {<<k, to>>}]
               ELSE rcv' = NoRecovery
            /\ UNCHANGED <<now, runs, rows, gates, flight, rec, view, called, lost, acks>>

\* fail_process and retry_process ask for the owner's name, never for the lease
\* that was compared.
MayResolve(row, to) ==
    /\ row.attempt <= row.max
    /\ row.owner \in {Nobody, rcv.worker}
    /\ to = "retry_wait" => row.attempt < row.max
    /\ \/ CanTransition(row.status, to)
       \/ row.status = "failed" /\ to = "retry_wait" /\ row.owner = Nobody

RecoverResolve ==
    \E item \in rcv.sure :
        LET k == item[1]
            to == item[2]
        IN  /\ IF MayResolve(rows[k], to)
               THEN /\ rows' = [rows EXCEPT ![k] = [@ EXCEPT !.status = to,
                                  !.owner = Nobody, !.expires = 0,
                                  !.out = IF to = "failed" THEN NoDoc ELSE rows[k].out]]
                    /\ rcv' = IF rcv.todo = {} THEN NoRecovery ELSE [rcv EXCEPT !.sure = {}]
               ELSE rcv' = NoRecovery /\ UNCHANGED rows
            /\ UNCHANGED <<now, runs, gates, flight, rec, view, called, lost, acks>>

\* The recovery raises (the database is busy) or its home dies.
RecoverStops ==
    /\ rcv # NoRecovery
    /\ rcv' = NoRecovery
    /\ UNCHANGED <<now, runs, rows, gates, flight, rec, view, called, lost, acks>>

HasExpired(row, at) == row.expires <= at

\* Rows inspect_leases cannot vouch for, any of which makes it incomplete.
Uncertain(k) ==
    LET row == rows[k]
    IN  \/ row.attempt > row.max
        \/ row.status # "running" /\ Leased(row)
        \/ row.status = "running" /\ (row.owner = Nobody \/ row.expires = 0)
        \/ row.status = "running" /\ runs[k[1]].status # "active"

\* inspect_leases, one pinned snapshot.  One that is not complete promises
\* nothing and is not kept.
InspectLeases ==
    LET stored == {k \in Key : rows[k].status # "absent"}
    IN  /\ view = NoView
        /\ \A k \in stored : ~Uncertain(k)
        /\ view' = [at |-> now,
                    expired |-> {k \in stored : /\ rows[k].status = "running"
                                                /\ HasExpired(rows[k], now)}]
        /\ UNCHANGED <<now, runs, rows, gates, flight, rec, rcv, called, lost, acks>>

\* delete_terminal_run: the run and every row of it, in one transaction.
DeleteTerminalRun(r) ==
    /\ runs[r].status \in RunTerminal
    /\ runs' = [runs EXCEPT ![r].status = "absent"]
    /\ rows' = [k \in Key |-> IF k[1] = r THEN NoRow ELSE rows[k]]
    /\ gates' = [k \in Key |-> IF k[1] = r THEN NoGate ELSE gates[k]]
    /\ UNCHANGED <<now, flight, rec, rcv, view, called, lost, acks>>

-----------------------------------------------------------------------------
HostInit ==
    /\ now = 0
    /\ runs = [r \in Run |-> [status |-> "absent", born |-> 0]]
    /\ rows = [k \in Key |-> NoRow]
    /\ gates = [k \in Key |-> NoGate]
    /\ flight = [h \in Home |-> Nobody]
    /\ rec = [t \in Thread |-> Idle]
    /\ rcv = NoRecovery
    /\ view = NoView
    /\ called = [c \in Run \X Process \X (1..MaxBirths) |-> 0]
    /\ lost = {}
    /\ acks = {}

Lifecycle ==
    \/ \E r \in Run, status \in RunAsked :
          UpsertRunMetadata(r, status) \/ TransitionRun(r, status) \/ FinalizeRun(r, status)
    \/ \E k \in Key, attempt \in 1..Budget, out \in Docs :
          \/ \E status \in Asked : UpsertProcess(k, status, attempt, out)
          \/ ParkProcess(k, attempt, out)
    \/ \E k \in Key, b \in GateTerminal, out \in Docs, blocked \in BOOLEAN :
          CompleteWaitingProcess(k, b, out, blocked)
    \/ \E r \in Run : DeleteTerminalRun(r)

Record ==
    \E t \in Thread :
        \/ \E k \in Key : RecordEnter(t, k)
        \/ RecordStart(t)
        \/ \E to \in {"succeeded", "failed"} : RecordCall(t, to)
        \/ \E out \in Docs : RecordFinish(t, out)
        \/ RecordFails(t)

Native ==
    \/ \E k \in Key : ScheduleRow(k) \/ RetryRow(k)
    \/ \E w \in Worker, k \in Key :
          \/ \E until \in (now + 1)..(now + MaxLease) : ClaimRow(w, k, until)
          \/ ParkRow(w, k)
          \/ \E to \in {"succeeded", "failed"}, out \in Docs : SettleRow(w, k, to, out)

Upkeep ==
    \/ \E w \in Worker, at \in 0..now : RecoverSelect(w, at)
    \/ RecoverCheck \/ RecoverResolve \/ RecoverStops \/ InspectLeases

HostNext == Lifecycle \/ Record \/ Native \/ Upkeep \/ Tick \/ \E h \in Home : Crash(h)

HostSpec == HostInit /\ [][HostNext]_hostVars

-----------------------------------------------------------------------------
(* Properties.                                                             *)

HostTypeOK ==
    /\ now \in Nat
    /\ runs \in [Run -> [status : RunStatuses \cup {"absent"}, born : Nat]]
    /\ rows \in [Key -> HostRow]
    /\ gates \in [Key -> [status : GateTerminal \cup {"open", "absent"}, out : Docs]]
    /\ flight \in [Home -> Thread \cup {Nobody}]
    /\ rec \in [Thread -> [pc : {"idle", "start", "call", "finish"}, key : Key \cup {<<>>},
                           born : Nat, to : {"none", "succeeded", "failed"}]]
    /\ rcv \in [worker : Worker \cup {Nobody}, at : Nat, todo : SUBSET (Key \X HostRow),
                sure : SUBSET (Key \X {"failed", "retry_wait"})]
    /\ view.at \in Int /\ view.expired \subseteq Key
    /\ called \in [Run \X Process \X (1..MaxBirths) -> Nat]
    /\ lost \subseteq Ticket
    /\ acks \subseteq [at : Ticket, status : Status, out : Docs]

\* "Callback is invoked exactly once": however many threads and homes ask for
\* the row, and whoever dies, its callback has run at most once.
CallbackOnce == \A c \in DOMAIN called : called[c] <= 1

\* "durably record its terminal process row": a callback's row stops running
\* with its call, unless its home died or its record failed.
CallbackEnds ==
    \A k \in Key :
        /\ RunExists(k[1]) /\ called[Incarnation(k)] # 0
        /\ rows[k].status = "running" /\ ~Leased(rows[k])
        => \/ Incarnation(k) \in lost
           \/ \E t \in Thread : /\ rec[t].pc = "finish" /\ rec[t].key = k
                                /\ rec[t].born = runs[k[1]].born

\* "terminal ... cannot be overwritten or reopened": a terminal run, process row
\* or blocker never changes again until its run is deleted as a whole, whoever
\* was between reading it and writing it; only a failed row may be retried.
TerminalFrozen ==
    [][/\ \A r \in Run : runs[r].status \in RunTerminal =>
            runs'[r].status \in {runs[r].status, "absent"}
       /\ \A k \in Key : RunExists(k[1])' =>
            /\ rows[k].status \in TerminalStatus =>
                  \/ rows'[k].status = rows[k].status /\ rows'[k].out = rows[k].out
                  \/ /\ rows[k].status = "failed" /\ rows'[k].status = "retry_wait"
                     /\ rows[k].attempt < rows[k].max
            /\ gates[k].status \in GateTerminal => gates'[k] = gates[k]]_hostVars

\* A completed blocker and its process agree on how it ended and with what,
\* whichever of the four ways out of "waiting" the process took.
GateMatchesRow ==
    \A k \in Key :
        gates[k].status \in GateTerminal =>
            rows[k].status = ProcessFor[gates[k].status] /\ rows[k].out = gates[k].out

\* "exactly one change": every caller that was told its completion is stored
\* finds its own outcome in the row, never that of a caller that came first.
AcknowledgedIsStored ==
    \A k \in Key : \A a \in acks :
        RunExists(k[1]) /\ a.at = Incarnation(k) =>
            rows[k].status = a.status /\ rows[k].out = a.out

\* "Live leases and other workers' leases remain untouched": what a complete
\* inspection shows as current, no recovery of that instant decides to take; it
\* decides on expired leases of the inspection, however long ago it selected them.
RecoveryForetold ==
    [][\A k \in Key, to \in {"failed", "retry_wait"} :
          /\ <<k, to>> \in rcv'.sure \ rcv.sure
          /\ rcv.at <= view.at
          => k \in view.expired]_hostVars

=============================================================================
