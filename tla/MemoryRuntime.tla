---------------------------- MODULE MemoryRuntime ----------------------------
(***************************************************************************)
(* The runtime of mojo/fala/memory_runtime.mojo over a memory journal, and *)
(* the loop of mojo/fala/memory_driver.mojo that claims, executes and      *)
(* advances until nothing is left to do.  Both are single-threaded: the    *)
(* caller's own calls come between two drives, and an effector that raises *)
(* ends a drive where it stands.                                           *)
(*                                                                         *)
(* Upstream gives the processes each process takes its conduction from.    *)
(* Inputs and outputs are left out.                                        *)
(***************************************************************************)
EXTENDS MemoryJournal, RunStatus

CONSTANTS
    Upstream, \* the processes each process is conducted from
    MaxTicks, \* max_ticks of a drive
    MaxMoves  \* bound on the run's status changes

ASSUME RuntimeAssumption ==
    /\ Upstream \in [Process -> SUBSET Process]
    /\ \A p \in Process : \A q \in Upstream[p] : RunOf[q] = RunOf[p]
    /\ MaxTicks \in Nat \ {0} /\ MaxMoves \in Nat

VARIABLES
    journal, \* self.journal
    runs,    \* the status of each run
    clock,   \* self.clock
    drive,   \* the drive under way: where it stands, its worker, run, ticks, process
    moves    \* how often set_run_status has been called

runtimeVars == <<journal, runs, clock, drive, moves>>

NoProcess == {}

NoDrive == [at |-> "none", worker |-> NoWorker, run |-> NoRun, ticks |-> 0,
            process |-> NoProcess]

\* The keys the runtime derives, and an instance's CallerKey.
RuntimeKey ==
    ({"run.create"} \X Run) \cup ({"run.status.set"} \X Run \X RunStatuses)
    \cup ({"process.schedule", "process.ready"} \X Process)
    \cup ({"process.complete"} \X Process \X Nat)

ScheduleKey(p) == <<"process.schedule", p>>
ReadyKey(p) == <<"process.ready", p>>
CompleteKey(p, n) == <<"process.complete", p, n>>

ASSUME RuntimeKeyAssumption ==
    /\ \A r \in Run, to \in RunStatuses : {<<"run.create", r>>, <<"run.status.set", r, to>>} \subseteq CallerKey
    /\ \A p \in Process : \A n \in 0..MaxAttempts[p] :
           {ScheduleKey(p), ReadyKey(p), CompleteKey(p, n)} \subseteq CallerKey

RuntimeInit ==
    /\ journal = EmptyIndex
    /\ runs = [r \in Run |-> "absent"]
    /\ clock = 0 /\ drive = NoDrive /\ moves = 0

\* The journal after a batch of one command with one event.
Journaled(ix, run, key) == AppendBatch(ix, Batch(run, <<Unit(run, key, 1)>>)).index

-----------------------------------------------------------------------------
(* The calls of the runtime.                                               *)

CreateRun(r) ==
    /\ <<r, <<"run.create", r>>>> \notin journal.commands
    /\ journal' = Journaled(journal, r, <<"run.create", r>>)
    /\ runs' = [runs EXCEPT ![r] = "created"]

\* set_run_status with its default key.  It sets the status whether or not
\* the journal took the command for a replay.
SetRunStatus(r, to) ==
    /\ moves < MaxMoves
    /\ runs[r] # "absent" /\ CanTransitionRun(runs[r], to)
    /\ journal' = Journaled(journal, r, <<"run.status.set", r, to>>)
    /\ runs' = [runs EXCEPT ![r] = to]
    /\ moves' = moves + 1

\* schedule_process_plan: a process with no upstream is ready at once.
Scheduled(ix, p) ==
    IF <<RunOf[p], ScheduleKey(p)>> \in ix.commands THEN ix
    ELSE Seeded(Journaled(ix, RunOf[p], ScheduleKey(p)), p,
                [AbsentRecord EXCEPT !.status = IF Upstream[p] = {} THEN "ready" ELSE "pending"])

\* instantiate_path; the run need not exist.
InstantiatePath(r) ==
    journal' = FoldLeft(Scheduled, journal, SetToSeq({p \in Process : RunOf[p] = r}))

\* transition_process of the status table, by whoever holds the lease.
MayEnd(ix, p, w, to) ==
    /\ CanTransition(ix.processes[p].status, to)
    /\ ix.processes[p].owner \in {NoWorker, w}

Ended(ix, p, to, key) ==
    Seeded(Journaled(ix, RunOf[p], key), p,
           [Unleased(ix.processes[p]) EXCEPT !.status = to])

Completed(ix, p) == Ended(ix, p, "succeeded", CompleteKey(p, ix.processes[p].attempt))

Failed(ix, p) == Ended(ix, p, "failed", FailKey(p, ix.processes[p].attempt))

-----------------------------------------------------------------------------
(* advance_correlation_states, and what advance does with its plan.        *)

\* Slip: a process is conducted from as soon as it has been claimed.
SettledOnClaim(ix, q) ==
    ix.processes[q].status \in TerminalStatus \cup {"absent", "running"}

\* An upstream that was never instantiated counts as an error to pass on.
Settled(ix, q) == ix.processes[q].status \in TerminalStatus \cup {"absent"}

Readiable(ix, r) ==
    {p \in Process : /\ RunOf[p] = r
                     /\ ix.processes[p].status = "pending"
                     /\ \A q \in Upstream[p] : Settled(ix, q)}

MadeReady(ix, p) ==
    Journaled(Seeded(ix, p, [ix.processes[p] EXCEPT !.status = "ready"]), RunOf[p], ReadyKey(p))

\* One plan readies every such process; none of them settles another.
Advanced(ix, r) == FoldLeft(MadeReady, ix, SetToSeq(Readiable(ix, r)))

-----------------------------------------------------------------------------
(* drive_until_idle, a step per state change.                              *)

StartDrive(w, r) ==
    /\ drive.at = "none" /\ clock < MaxTime
    /\ drive' = [NoDrive EXCEPT !.at = "tick", !.worker = w, !.run = r]
    /\ UNCHANGED <<journal, runs, clock, moves>>

\* The next tick, or the error once max_ticks are spent.
Tick ==
    /\ drive.at = "tick"
    /\ IF drive.ticks < MaxTicks
       THEN /\ clock' = clock + 1
            /\ drive' = [drive EXCEPT !.at = "claim", !.ticks = @ + 1]
       ELSE drive' = NoDrive /\ UNCHANGED clock
    /\ UNCHANGED <<journal, runs, moves>>

\* Slip: the drive ends whenever nothing was claimed.
ReturnsWithoutAdvance(ix, r) == TRUE

\* An empty claim is the end only if advancing readies nothing either.
Returns(ix, r) == Readiable(ix, r) = {}

DriveClaim ==
    /\ drive.at = "claim"
    /\ \E chosen \in ReadyChoices(journal, {drive.run}, clock) :
        LET claim == ClaimNext(journal, drive.worker, {drive.run}, clock, clock + Lease, chosen)
        IN  IF claim.answer = "raised"
            THEN journal' = claim.index /\ drive' = NoDrive
            ELSE IF chosen # {}
            THEN /\ journal' = claim.index
                 /\ drive' = [drive EXCEPT !.at = "execute", !.process = chosen]
            ELSE /\ journal' = Advanced(claim.index, drive.run)
                 /\ drive' = IF Returns(claim.index, drive.run) THEN NoDrive
                             ELSE [drive EXCEPT !.at = "tick"]
    /\ UNCHANGED <<runs, clock, moves>>

\* The effector answers, its process is completed and the run advanced.
ExecuteAndComplete ==
    /\ drive.at = "execute"
    /\ \E p \in drive.process :
        /\ MayEnd(journal, p, drive.worker, "succeeded")
        /\ journal' = Advanced(Completed(journal, p), drive.run)
    /\ drive' = [drive EXCEPT !.at = "tick", !.process = NoProcess]
    /\ UNCHANGED <<runs, clock, moves>>

\* The effector raises through drive_until_idle; its process stays running.
EffectorRaises ==
    /\ drive.at = "execute"
    /\ drive' = NoDrive
    /\ UNCHANGED <<journal, runs, clock, moves>>

-----------------------------------------------------------------------------

\* Calls of the owner of the runtime, between two drives.
CallerStep ==
    /\ drive.at = "none"
    /\ \/ \E r \in Run : CreateRun(r) /\ UNCHANGED <<clock, drive, moves>>
       \/ \E r \in Run, to \in RunStatuses : SetRunStatus(r, to) /\ UNCHANGED <<clock, drive>>
       \/ \E r \in Run : InstantiatePath(r) /\ UNCHANGED <<runs, clock, drive, moves>>
       \/ \E p \in Process, w \in Worker :
            /\ MayEnd(journal, p, w, "succeeded") /\ journal' = Completed(journal, p)
            /\ UNCHANGED <<runs, clock, drive, moves>>
       \/ \E p \in Process, w \in Worker :
            /\ MayEnd(journal, p, w, "failed") /\ journal' = Failed(journal, p)
            /\ UNCHANGED <<runs, clock, drive, moves>>

RuntimeNext ==
    \/ CallerStep
    \/ \E w \in Worker, r \in Run : StartDrive(w, r)
    \/ Tick
    \/ DriveClaim
    \/ ExecuteAndComplete
    \/ EffectorRaises

RuntimeSpec == RuntimeInit /\ [][RuntimeNext]_runtimeVars

-----------------------------------------------------------------------------
(* Properties.                                                             *)

\* The runtime's parts keep their shape.
RuntimeTypeOK ==
    /\ journal \in Index
    /\ runs \in [Run -> RunStatuses \cup {"absent"}]
    /\ clock \in Nat /\ moves \in 0..MaxMoves
    /\ drive \in [at : {"none", "tick", "claim", "execute"}, worker : Worker \cup {NoWorker},
                  run : Run \cup {NoRun}, ticks : 0..MaxTicks, process : SUBSET Process]
    /\ Cardinality(drive.process) = (IF drive.at = "execute" THEN 1 ELSE 0)

\* The runtime keeps what every sink promises of a process.
Lifecycle == INSTANCE ProcessLifecycle WITH
    Actor <- Worker, NoActor <- NoWorker, table <- journal.processes

RuntimeLifecycle == Lifecycle!Spec

\* Where the events of a process are among those of its run.
EventsOfProcess(p) ==
    {i \in DOMAIN journal.events[RunOf[p]] :
        LET key == journal.events[RunOf[p]][i].key
        IN  key[1] \notin {"run.create", "run.status.set"} /\ key[2] = p}

\* What an event says of its process.
Says(p, kind) ==
    CASE kind = "process.schedule" -> IF Upstream[p] = {} THEN "ready" ELSE "pending"
      [] kind = "process.ready" -> "ready"
      [] kind = "process.claim" -> "running"
      [] kind = "process.complete" -> "succeeded"
      [] kind = "process.fail" -> "failed"

\* Whether by a claim, a reap, a call or an advance, a row is written with an
\* event that says so: the last one gives its status.
StatusIsLastEvent ==
    \A p \in Process :
        LET events == EventsOfProcess(p)
        IN  journal.processes[p].status =
                IF events = {} THEN "absent"
                ELSE Says(p, journal.events[RunOf[p]][Max(events)].key[1])

\* A process that has left pending had all its upstreams settled: conduction
\* never carries the output of a process still to end.
ConductedInOrder ==
    \A p \in Process :
        journal.processes[p].status \notin {"absent", "pending"} =>
            \A q \in Upstream[p] : journal.processes[q].status \in TerminalStatus

\* A drive that returns leaves nothing it could have done: no row of its run
\* can be claimed at its clock, and none waits for upstreams that are settled,
\* although the last claim may have failed some of them.
DriveReturnsIdle ==
    [][drive.at = "claim" /\ drive'.at = "none" =>
        /\ Readiable(journal', drive.run) = {}
        /\ \A p \in Process : RunOf[p] = drive.run => ~IsClaimable(journal', p, clock)]_runtimeVars

=============================================================================
