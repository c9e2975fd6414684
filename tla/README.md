# Fala in TLA+

A formal model of Fala's durable process runtime: TLA+ modules translated from
the Mojo and Python source, TLC configurations that check them on small
instances, and theorems about them that the TLA+ proof system checks for every
value of the constants.

To check it: `tlasany M.tla` parses a module, `tlc -config X.cfg M` runs one of
the configurations below, `tlapm M.tla` checks the proofs of a module.

## 1. The system

Fala runs *processes*: one unit of work each, with a status, a budget of
attempts and, while it runs, a lease held by a worker. Processes belong to a
*run*, are scheduled from a *path* (a small dependency graph), and are executed
by *effectors* that a *driver* calls. Everything that happens is a *command*
(idempotent, named by a key that is unique in its run) with the *events* it
produced, written to a *journal*. The journal is a SQLite database shared by
several processes of the operating system, or one of three lighter sinks.

| Component | State | Operations | Talks to | What is hard | What makes it correct |
|---|---|---|---|---|---|
| Process lifecycle (`status.mojo`, `processes.mojo`) | a process record | claim, transition, retry, reap, ready order | used by every sink | the same rules are repeated in SQL, three times | the status table; one lease per running process; attempts within budget |
| Native journal, process queue (`journal.mojo`, `schema.mojo`) | tables `processes`, `runtime_commands`, `runtime_events` | schedule, claim_next_ready, claim_process, eight transitions, transition under a caller's command | SQLite | transitions read outside their transaction; several connections; clock readings of several hosts; derived idempotency keys | a row is the projection of its events; live leases hold; results come from the claimant |
| Native journal, homeostats | table `homeostats` | park, transition, reopen | process rows | two rows to keep in step under fixed keys | a waiting process has an open homeostat and a finished one does not |
| Run lifecycle (`runs.mojo`, `journal.mojo`, `native_driver.mojo`) | table `runs` | create, transition_run_status, cancel, finalize_run, drive_all_runs | process rows | status derived from several reads; keys that repeat | the run's status follows from its processes |
| Native driver (`native_driver.mojo`) | the candidate row, the claimed attempt, the time of the tick | drive_until_idle, drive_once, maintain_process, resume | the journal, adapters | drivers race each other; any may die at any point; a late answer | an attempt's answer is its own; every attempt ends; every process becomes terminal |
| Durable subprocess (`durable_subprocess.mojo`, `native_process_host.*`) | a child process | start, poll, cancel | the driver and the row's status | cancellation is asked in one process and done in another | a cancelled row has no child |
| Contract violations (`violations.mojo`) | `violation.record` commands | record, list | the driver | written before the failure they explain, by another transaction | every contract failure is attributed |
| Correlation and advance (`correlation*.mojo`, `path_terminal.mojo`) | dependents of a process | readiness, skipping, children, conduction | journal, driver | a crash between a result and the advance | dependents are readied exactly once, in order |
| Memory journal (`memory_journal.mojo`) | commands, events, counters, records, batches | append_batch, claim_next, seed, import | the runtime and other sinks | a call that stops half way | a batch is atomic; sequences have no gaps |
| JSONL journal (`jsonl_journal.mojo`) | a memory index and a file | append_batch, claim_next, open | a file | crashes and failed writes inside a rewrite | the file stays readable, in order, without repeated commands |
| Tee journal (`tee_journal.mojo`) | two journals | append_batch, claim_next, seed | its two sinks | each sink numbers for itself | both tell the same history |
| SQLite port (`sqlite_journal_port.mojo`, `open_journal.mojo`) | none of its own | append_batch, claim_next | native journal | only the leading unit is dispatched | its answers are the engine's |
| Memory runtime and driver (`memory_runtime.mojo`, `memory_driver.mojo`) | a memory journal, runs, a clock | create_run, set_run_status, instantiate_path, complete, fail, advance, drive_until_idle | memory journal, effectors | an effector that raises; a drive that stops early | conduction in order; idle means idle |
| Domain store (`domain*.mojo`) | impulses and associations | submit, accept | native journal | acceptance schedules work in the same transaction | an impulse is accepted once |
| Bridge (`ops_bridge.mojo`, `bridge_transport.mojo`) | outbox and inbox rows in two databases | enqueue, import, deliver | two journals | no transaction spans both databases | imported once, delivered only if imported |
| Effects, reactions, compensation (`effect_protocol.mojo`, `reaction*.mojo`, `compensation.mojo`) | effect rows | propose, apply, compensate | driver | effects outside the journal | an effect is applied at most once |
| Python host, the journal's calls (`python/fala/journal.py`, `host.py`, `inspection.py`, `host_journal.mojo`) | runs, rows and blockers in the same database; callbacks in flight | upsert, transition, finalize, park, complete, record_in_process, recover, inspect, delete | native journal, the application's threads | the application writes rows that drivers also claim; runs are deleted and created again; a callback between two transactions; repeated completions | a callback runs once; blocker and row agree; what was acknowledged is stored; terminal state is frozen |
| Python host, one run (`python/fala/host.py`) | working directory and environment of the process, the execution turn | host_run_package, open_sqlite | build, native driver | process-wide state changed by threads; a queue of processes; deaths and cleanup that fails | the section holds during a drive and is undone after it; stamps follow turns; every call ends |
| Native build (`python/fala/_build.py`) | vendored sources, libraries, artifact cache, its lock | fetch, patch, make, compile, publish, prune, load | git, make, compilers | callers of several processes build in one checkout; builds fail half way; sources are edited | what is published is whole; one winner builds |
| Retention (`ops_maintenance.mojo`, `python/fala/rehearsal.py`) | a keep list and a selection; a snapshot directory | maintain_journal, rehearse_journal_retention | applications writing the same runs; SQLite's files | two reads and many deletions; files measured one by one | only old finished runs go, the newest stay; the plan is of the live journal and is published whole |
| Adapters, packages, graph tools, command line | files and processes | parsing, validation, printing | | data rather than control | |
| Child paths, conformance, SDK (`child_path.py`, `conformance.py`, `sdk.py`) | none | one memory path in a process of its own; checking and building messages | | data rather than control | |

## 2. Modules

    ProcessStatus   RunStatus          the two status tables
         |              |
    ProcessLifecycle    |              abstract: what every sink promises of a process
         ^   ^          |
         |   |          |
    NativeJournal   MemoryJournal      the two engines
         |            |         \
    NativeDriver  JournalCallers MemoryRuntime  (also implements ProcessLifecycle)
                    |        |
              JsonlJournal TeeJournal

    ProcessStatus   RunStatus      NativeBuild
          |   \     /   |               |
          | HostJournal |            HostRun        Retention
          |             |
          +-- PathRun --+

`NativeJournalProofs`, `NativeDriverProofs`, `HostJournalProofs`, `PathRunProofs`,
`HostRunProofs` and `RetentionProofs` hold the theorems about the modules they are named
for; `MemoryJournalProofs` has the lemmas about the operators of the memory journal and
`JournalPortProofs` the theorems about what keeps one: the two sinks and the memory runtime.
The `MC...` modules give the constants of the configurations that are functions. Each module of a component has one type invariant.

**ProcessStatus, RunStatus** are the tables `can_transition_process` and
`can_transition_run` of `status.mojo`.

**ProcessLifecycle** is the abstract specification. Its state is a clock and a
table of records (status, attempt, lease, due time). A step moves each process
by at most one of `Schedule`, `Claim`, `Transition` and `Retry`, which are the
functions of `processes.mojo`. Keys, events, documents, connections and old
clock readings are not in it, so a sink that implements it shows that none of
these lets a process do anything else.

**NativeJournal** is the process queue of the SQLite journal for one run.
`proc` is table `processes`, `log` is `runtime_commands` joined with the event
each command wrote in the same transaction, `now` the host's clock. A call that
opens its transaction before it reads (`schedule_process`, `claim_next_ready`,
`claim_process`, `transition_process_with_command`) is one action. The eight
public wrappers of `_transition_process` read the row and the idempotency key
*before* `BEGIN IMMEDIATE`, so such a call is two actions,
`BeginTransition` and `CommitTransition`, with the call's arguments and the row
it saw in `inflight` in between; `AbandonTransition` is a call that raises in
its second half or whose caller died. Callers are arbitrary: any worker, target,
document and key, and clock readings up to `MaxAge` old. The order of the queue
(`Before`) is the ORDER BY of `claim_next_ready`; the reaping of every exhausted
row and the claim of the best claimable one are one step, as in the code.

**NativeDriver** extends it with the program that decides which calls are made:
`drive_until_idle` (`StartDrive`, `Select`, `EndDrive`), `maintain_process`
(`Maintain`, `Resolve`, `Resolving`, `Resolved`) and `drive_once` (`ClaimRow`,
`Execute`, `RecordViolation`, `Settle`, `Settling`). `drv[d]` is the local state
of driver `d`: where it stands, the row it selected as it saw it, the attempt it
claimed, the time of its tick, the lease end it was given. Every action on the
database is an action of NativeJournal. A driver may crash between any two
steps. The backoff is `retry_backoff_seconds`: a base, doubled per attempt, up
to a cap. Effectors return one of six outcomes; a subprocess may also return
"cancelled" once its row asks for it.

**MemoryJournal** is the in-memory journal as operators on its value, because
three components keep one: `AppendBatch` with its loop (numbering, recording,
stopping at a repeated key), `ClaimNext` with its reaps and its batch, `Import`.

**JournalCallers** adds the batches that an instance's callers append.

**JsonlJournal** has the index, the complete lines of the file, whether torn
text follows them, and where the one call stands. `AppendToIndex` and
`WriteLine` are the two halves of `append_batch`; `Crash`, `WriteError` and
`CrashInOpen` leave any beginning of the text being written; `Open` is `_load`.

**TeeJournal** is two memory journals and the mirroring of accepted batches.

**MemoryRuntime** is `memory_runtime.mojo` with the loop of
`memory_driver.mojo`: runs, scheduling of a path, completion, failure, advance,
and a drive that ticks, claims, executes and advances; an effector that raises
ends it. The caller's own calls come between two drives, since all is one thread.

**HostJournal** is the database as an embedding application and its native
drivers share it. `runs`, `rows` and `gates` are tables `runs`, `processes` and
`homeostats` (the blocker of a process); a run's `born` counts the times it was
created under its id. Every call of `journal.py` is one native transaction that
opens before it reads, so it is one action (`UpsertRunMetadata`,
`TransitionRun`, `UpsertProcess`, `CompleteWaitingProcess`); a call that raises
changes nothing. `record_in_process` takes the lock of its process
(`RecordEnter`, `flight`), inserts a running row (`RecordStart`), runs the
callback (`RecordCall`) and writes its result (`RecordFinish`) or fails to
(`RecordFails`); a home may die anywhere (`Crash`). `recover_incomplete` is a
selection (`RecoverSelect`) and for each row `maintain_process`: a look
(`RecoverCheck`) and a transaction of its own (`RecoverResolve`).
`inspect_leases` reads one snapshot; only complete answers are kept, as an
incomplete one promises nothing. Native drivers are reduced to what they do to a
row: schedule, claim, settle, retry, park.

**PathRun** is one correlation path from its creation to the end of its run, where
the parts that NativeJournal and NativeDriver have one by one come together:
`run_correlation_path` persists the plan (`Enter`, `Schedule`, `MarkPending`,
`Refresh`, `Promote`, `Bind`), then drives it, with an advance before every tick
(`AdvanceRead`, `AdvanceSkip`, `AdvanceApply`; the tick is `Select`, `Maintain`,
`Claim` and one of `Succeed`, `Fail`, `Park`), then finalizes the run (`Stop`,
`FinalizeRun`, `FinalizeRows`, `FinalizeWrite`). A read outside of a transaction
is an action of its own, and so is each transaction. `rows`, `gates` and `run` are
tables `processes`, `homeostats` and `runs`, `keys` the idempotency keys that a
call may repeat, `drv[d]` the local variables of caller `d`. Several callers may
be in it at once, any may die (`Crash`), and every caller that is not in it may
act as an operator: `Close` is resume, cancel, expire and
`transition_homeostat_terminal`, `Repeat` the latter asked again, `Rearm` is
`rearm_homeostat`. What a process was told of its upstreams is kept with it
(`fed`), with a count of how often each had been rearmed. Leases and due times are
a flag that time raises (`TimeUp`).

**Retention** has maintenance as two reads and a deletion per run (`MaintainCutoff`,
`MaintainKeep`, `MaintainSelect`, `MaintainDelete`), and a rehearsal as its
steps on the live files, the snapshot and the output directory. The database
file and its log hold version numbers: a commit adds one to the log, a
checkpoint moves it into the file, and where connections close
(`Truncates`) the log may vanish. The rehearsal fails or dies between any two
steps (`RehearseFails`).

**NativeBuild** is what `ensure_process_host_library`,
`ensure_sqlite_fire_library` and `ensure_native` do to the checkout, one action
for each file operation or child process another caller can come between: the
two vendored trees, two libraries (of which one has a temporary file under a
fixed name), and a cache of artifacts named by the hash of what they were
compiled from. A tree is the stage it is in, a file what it was compiled from
and whether it is whole. Sources may be edited at any time.

**HostRun** extends it with `host_run_package`: the caller resolves its paths
(`Enter`), builds and loads, waits for its turn (`TakeTurn`), enters the section
that changes directory and environment (`EnterSection`), drives (`Native`, which
takes time and may raise), restores (`Restore`) and ends its turn (`EndTurn`).

In every module a definition marked "Slip" is a plausible mistake in the
definition after it. It is never part of a specification; replacing the
definition by it must violate the property named in section 4.

## 3. Properties and the runs that check them

### The journal

| Run | Properties | Instance | What it shows |
|---|---|---|---|
| JournalRace | RowIsLastEvent, AttemptsAreClaims, ResultsFromClaimant, TurnsDoNotOverlap, LifecycleSpec | 1 process, 2 attempts, 2 workers, 2 connections, readings one second old | whatever commits between the read and the write of a transition, the row stays the projection of its events, attempts are claims, results come from the claimant, turns do not overlap, and the journal implements ProcessLifecycle |
| JournalQueue | QueueKeysFree | 2 processes of 1 attempt and unequal priority, a caller's key | reap and claim in one transaction, and the keys they derive, which must be free or every worker's claim fails for ever |

### The driver

| Run | Properties | Instance | What it shows |
|---|---|---|---|
| DriverRace | ResultOfOwnAttempt, ContractErrorsAttributed | 2 drivers with names of their own, 3 attempts, a subprocess that may be cancelled, successes, invalid answers and breaches of contract, 1 crash | a success is never recorded for an attempt that did not produce it; every contract error has its violation on record |
| DriverBackoff | AttemptEnds, EventuallyTerminal | 2 drivers, 3 attempts, successes, failures and timeouts, backoff 1 then 2, 1 crash | with a backoff, an attempt that `drive_once` returned from has ended, and every process becomes terminal |

The outcome "unsupported" (failed for good with attempts left) is in no passing
run: with it a late failure revives the process (section 5). That the driver
makes only calls the journal models is proved for every outcome
(DriversImplement), so no run is spent on it.

### The path

| Run | Properties | Instance | What it shows |
|---|---|---|---|
| PathRace | ConductedInOrder, ConditionDecides, RunFollowsRows, EndIsFinal | 2 callers, a persisted plan p1 -> p2 (conditional), {p1, p2} -> p3, 2 attempts, 3 ticks, 1 death | whatever each caller read before the other wrote, processes run on the outcome of everything upstream, conditions decide, the run ends once and as its rows do |
| PathGates | GateFollowsProcess, PathEnds | 2 callers and operators, p1 (parks) -> p2, from the creation of the run, 2 attempts, 1 tick in a call | the homeostat keeps to its process through answers, rearms and late drivers; no lost race, expired lease or full drive keeps the path from its end or an open homeostat |

That ConductedInOrder also survives rearms is proved (section 6) and in no run.

### The other sinks

| Run | Properties | Instance | What it shows |
|---|---|---|---|
| JsonlFaults | FileKeysOnce, FileInOrder, IndexKnowsFile, CrashesNeverRefuse | 2 runs, 2 keys, seven batches of one and two commands, one of them repeating its key; claims, crashes anywhere, 1 failed write | faults may lose lines but never repeat a command or disorder the numbers; an open journal answers for every line; crashes alone never make the file unreadable |
| TeeMirror | SecondaryMirrors | 2 runs with a process each, claimed together or apart, 2 attempts | both journals tell the same history with the same numbers |
| MemoryDrive | StatusIsLastEvent, ConductedInOrder, RuntimeLifecycle, DriveReturnsIdle | a path p1 -> p2, {p1, p2} -> p3, 2 workers in turn, effectors that raise | the runtime implements ProcessLifecycle, conducts in order, and stops only when there is nothing to do |

### The Python host

| Run | Properties | Instance | What it shows |
|---|---|---|---|
| HostJournal | CallbackOnce, CallbackEnds, GateMatchesRow, AcknowledgedIsStored, TerminalFrozen, RecoveryForetold | 1 run created up to twice, 1 row, 2 threads of one home and 1 of another, 1 worker, 2 attempts | callbacks run once and end, blockers and rows agree, completions are stored as acknowledged, terminal state is frozen, recovery decides on what inspection shows as expired |
| Retention | PlanIsLive, PublishedWhole, DeletesOldTerminal, KeepsNewest | 2 runs created up to twice, 1 keeper that keeps 1, 4 commits, a host that keeps the journal open | maintenance deletes old finished runs and keeps the newest whatever the applications do meanwhile; a rehearsal publishes the whole plan of the live journal or leaves its marker |
| HostRun | ArtifactsWhole, LosersNeverRebuild, SectionHolds, StampsFollowTurns, EveryCallReturns | 2 callers: in two homes sharing the turn in a fresh checkout, or in one home, one of them without a turn, in a fetched one; 2 editions of the sources; everything may fail | what is published is whole, the winner alone builds, directory and environment hold during a drive and are undone after it, stamps follow turns, and every call ends |

### Bounds

Every bound is a constant and stands in a guard or in the set a choice is made
from.

- *Two workers, two connections.* A race in this code is between one call that
  has read and one that commits before it; a third party adds no new order of
  the two, because all but one of the calls of a race are atomic.
- *Two or three attempts.* Two give a takeover and an exhausted budget; three
  are needed where two failures are both retried (AttemptEnds) and where a late
  answer meets a later attempt that has failed with attempts left
  (ContractErrorsAttributed, which would hold of the very attempt and not only up
  to it if two were enough).
- *MaxTime* of 1 to 7 seconds: one lease per attempt, one reading older than the
  clock, and with a backoff the sum of leases and delays. In NativeDriver the
  clock moves only while a lease or a due time lies ahead, so a bound that covers
  all attempts cuts nothing off, and the liveness runs use such a bound.
- *MaxAge* = 1 where the runs look at old readings: older by one second already
  means before the end of a lease that is over.
- *MaxLease* = 1 and *MaxDelay* 0 to 2: only the order of the ends matters.
- *MaxErrors* = 1 write that fails while the process lives on: a failed write
  keeps its commands in the index only, so without a bound the numbers would grow
  for ever. Crashes are not bounded.
- *MaxTicks* = 4: a path of three is driven to its end and the limit is also hit.
- *MaxMoves* = 2 status changes of the run, which play no part in what a drive does.
- *HostJournal*: one row has all its rivals (two threads behind one lock, one
  behind another, a driver, a recovery); two incarnations of a run are what it
  takes to find a row of somebody else's; MaxTime = MaxLease = 1 gives a lease that
  ends and a claim after it. The statuses the application asks for by name are
  active and failed for runs, ready and cancelled for rows, besides what parking,
  completing and callbacks write. Other statuses meet the same table.
- *Retention*: two runs are what it takes for one to be newer; 4 commits let a
  run finish, go and come back while a call is between its two reads.
- *PathRun*: three processes are a chain and a join at once, which is what a second
  round of an advance takes; two are enough for homeostats and for ends. Two
  attempts give a takeover and an exhausted budget (with a third, two retries of
  a row may have the same key, which is NativeDriver's subject). MaxTicks of 3
  lets a drive be cut short and be finished, and of 1 makes every call go back to a
  path that another left; one death, because each call begins anew with nothing in
  memory.
- *HostRun*: two callers race for every file and lock; two editions make a stale
  artifact; each caller calls once, and the second's call is what another call
  would be.
- Symmetry of workers, connections, drivers and the threads of one home is used
  in runs that have no liveness property and never compare two of them other
  than for equality.

The configurations say CHECK_DEADLOCK FALSE because each system really stops:
when every process is terminal, every key used and the clock at its bound,
nothing is left to do.

### Fairness

DriverBackoff: `WF(DriverTick)`, time passes while
a lease or a due time lies ahead, and `WF(DriverStep(d))` for each driver, a
driver that has begun goes on, returns from its effector, and is started again
when it stops. The code justifies the first by the system clock, the second by
the operator's loop around `drive_until_idle` and by the timeout every adapter
has. Nothing obliges anyone to submit, cancel or crash, and `MaxCrashes` bounds
the deaths, without which no retry budget would last. HostRun: `WF(RunStep(c))`
for each caller, a thread that has called goes on, and a child process it waits
for ends. Nobody must call, die or edit, and the clock moves only in drives.
Locks need no more: each caller calls once, so a free lock cannot be taken from
under a waiting caller for ever; where callers keep coming, `flock` promises no
turn, and neither does the model. PathGates:
`WF(PathStep(d))` for each caller, which goes on and whose effectors return;
`SF(Enter(d))`, while the run is open a caller calls the path again even if it does an
operator's work in between, as the operator's loop around the command does; and
`WF(TimeUp(p))`, leases and delays end. No operator must answer, so PathEnds lets
a path wait at an open homeostat for ever. No caller dies in this run: one that
raises, as losers of races do, leaves what a death at that point leaves.

## 4. What each slip is noticed by

| Slip | Stands for | Noticed by |
|---|---|---|
| SameStatus | the transaction compares the status alone | RowIsLastEvent |
| ClaimedWithoutAttempt | a takeover is not counted | AttemptsAreClaims |
| LegalForAnyone | results are not checked against the lease owner | ResultsFromClaimant, ResultOfOwnAttempt |
| ClaimableWhileLeased | the claim forgets the lease's end | TurnsDoNotOverlap |
| ClaimableForEver | the budget is not checked | LifecycleSpec |
| ReapKeyOfRun | the reap's key leaves the process out | QueueKeysFree |
| SettleFirst | the failure is recorded before its violation | ContractErrorsAttributed |
| DueAtOnce | the backoff is left out | AttemptEnds |
| RowClaimableUnlessExhausted | an expired row on its last attempt is not selected | EventuallyTerminal |
| ImportUnitEvents | opening restores events and not commands | IndexKnowsFile |
| RecordEach | a key repeated within a batch is not looked for | FileKeysOnce |
| LastByCount | opening goes on from the count of events | FileInOrder |
| TornIsKept | opening leaves torn text on the file | CrashesNeverRefuse |
| MirrorsAppendsOnly | claims are not mirrored | SecondaryMirrors |
| IsClaimableWhileLeased | the claim forgets the lease's end | RuntimeLifecycle |
| ReapUnitOfClaim | a reap is journaled under the claim's key | StatusIsLastEvent |
| SettledOnClaim | a dependent is readied once its upstream is claimed | ConductedInOrder |
| ReturnsWithoutAdvance | an empty claim ends the drive | DriveReturnsIdle |
| MayStartAgain | a callback takes over a row that is there | CallbackOnce |
| MayFinishInOpenRun | a result is dropped once its run is finished | CallbackEnds |
| MayFinishAnyhow | a result is written whatever the row says | TerminalFrozen |
| ClosedGateBare | a blocker is completed without its document | GateMatchesRow |
| ExactStatuses | a repeated completion is recognised by its statuses alone | AcknowledgedIsStored |
| StillSameStatus | recovery compares the status alone | RecoveryForetold |
| CandidatesOfAll | runs of any status are candidates | DeletesOldTerminal |
| NewestOfAll | open runs count among the newest | KeepsNewest |
| SameSourceMain | the log is not compared | PlanIsLive |
| DirWithoutMarker | a failed rehearsal removes its marker | PublishedWhole |
| OutputInPlace | the compiler writes under the final name | ArtifactsWhole |
| BuildsAlways | the artifact is not looked for again under the lock | LosersNeverRebuild |
| LockKept | the build lock is not released when the build raises | EveryCallReturns |
| AlwaysFree | nobody waits for the section | SectionHolds |
| StampOfRequest | the request is stamped before the turn | StampsFollowTurns |
| SettledOrWaiting | an upstream that waits counts as settled | ConductedInOrder (PathRace) |
| RefreshRaisesNever | a refresh readies conditional dependents like the others | ConditionDecides |
| ReadyToo | an advance takes up rows that are ready already | PathEnds |
| LegalForSeen | the run's earlier status is checked, not the present one | EndIsFinal |
| OpenedAlone | a rearm opens the homeostat and leaves its process | GateFollowsProcess |

## 5. Where the code and what is said of it differ

TLC finds a counterexample to each of the first five when the property named is checked in the
configuration named with the change said. The configurations stay clear
of the five, so that what they show is the rest:

1. **A second failure in one second is swallowed** (AttemptEnds in DriverBackoff
   with `Backoff <- NoBackoff`; `journal.mojo:1249`). `_transition_process` derives
   the key of a retry from the process and the second, and its replay check compares
   everything but the attempt. Without a backoff, attempt 2 failing within the
   second of attempt 1 is answered as a replay; `drive_once` returns and the attempt
   stays running under its lease, although "failed attempts retry while attempts
   remain" (`docs/RUNTIME_SEMANTICS.md:40`). EventuallyTerminal survives it: the
   lease runs out and another drive goes on.
2. **A rehearsal may publish the plan of old content** (PlanIsLive in Retention with
   `Truncates = TRUE`; `rehearsal.py:214`). Nobody has the journal open, so it has
   no log. After the backup an application opens it and commits into a log; the
   rehearsal measures the main file, which has not changed; the application closes
   as the last connection, which moves the log into the file and deletes it; the
   rehearsal finds no log, as before. The sets are equal, and the plan is not what
   "the source's main/WAL/SHM identities must remain stable" promises
   (`rehearsal.py:144`). While some connection keeps the journal open, the log stays
   and PlanIsLive holds (Retention).
3. **A path cannot be resumed at a condition** (PathEnds in PathRace with
   FairPathSpec and no symmetry; `correlation_persistence.mojo:507`). A caller dies
   after the source of a condition has ended and before the advance that would look
   at it. Every later call refreshes readiness first, finds a conditional dependent
   with nothing left to wait for, and raises `conditional_requires_advance` before
   it comes to an advance. "Non-terminal runs resume their durable plan"
   (`correlation_runtime.mojo:328`) does not hold of this one. `resume_homeostat` of
   a condition's source, which does not advance either, leaves the same state
   without any death; `transition_homeostat_terminal` does not.
4. **A dependent of an interrupted plan runs first** (ConductedInOrder in PathRace
   with `Persisted = FALSE`; `correlation_persistence.mojo:453`). Dependents are
   scheduled as ready and made pending afterwards, but only those that this very
   call has created. The call that follows an interrupted one leaves the earlier
   one's dependents ready, and they run before what they depend on, although "replay
   safely fills the remaining rows before applying the pending projection" (lines
   5-6 of that file). A second caller in the midst of the first one's scheduling
   does the same. So ConductedInOrder is checked and proved of persisted plans.
5. **A run is completed while a process waits** (RunFollowsRows in PathGates, where
   homeostats are rearmed; `native_driver.mojo:1656`). `finalize_run` reads the run
   and the rows and writes in a transaction that looks at the run alone; a homeostat
   rearmed in between makes "derive and persist the run boundary from every durable
   effector row" (line 1649) false, and an ended run is never finalized again.

There are some more; each can be read off the definition named:

- A late failure revives a process (`Legal`; `journal.mojo:1262`). A failed row
  with attempts left may be retried by anyone, and the attempt the caller
  executed is never compared: a driver that outlived its lease records the
  failure of attempt 1 after another driver has failed attempt 2 for good, and
  the row becomes `retry_wait`. The turn is not "claim, ask, record under one
  worker lease" (`docs/PROCESS_RUNTIME.md:15`).
- Torn text makes the JSONL journal unreadable (`WriteLine`;
  `jsonl_journal.mojo:339`). After a failed write the next append puts its line
  behind the torn text; the result is a complete line that `_load` refuses.
- Recovery takes a live lease (`RecoverCheck`, `RecoverResolve`;
  `native_driver.mojo:949`). Between the comparison and the transaction the same
  worker may claim the row again, and the transaction asks for its name only;
  `host.py:661` says "live leases ... remain untouched". RecoveryForetold is
  therefore about what recovery decides on, not about what it then finds.
- Maintenance deletes a run that was deleted and created again under its id after
  the selection, whatever its status (`MaintainDelete`;
  `ops_maintenance.mojo:330`); and what `run_retention` calls "delete them
  atomically" (line 290) is a transaction for each run.
- A rehearsal of a journal that nobody has open always raises "identity
  changed", because its own read-only connection leaves a log behind
  (`Backup`; `rehearsal.py:176`), unless the application of difference 2 deletes it.
- A process that dies during a callback leaves a running row without a lease,
  which neither the reaper nor recovery selects (`CallbackEnds` allows for it).
- A callback's result is written to any running row of its id, a driver's or a
  later incarnation's too (`MayFinish`).
- `upsert_process` with attempt 2 inserts a row of one attempt
  (`InsertedRow`); every inspection is incomplete from then on.
- `complete_waiting_process` accepts "failed" and "skipped" as `process_status` in
  Python and refuses them natively (`ProcessFor`).
- A process parked by a driver and cancelled or completed otherwise leaves its
  blocker open (`GateMatchesRow` is about completed ones).
- A temporary root that cannot be removed leaves the process in the vendor
  directory (`Restore`, `jammed`; `host.py:247`).
- An artifact may be compiled from sources edited after they were hashed
  (`Look`, `CompileEnd`); a source tree may be removed while another caller
  builds from it (`FetchDiscard`), which makes that caller raise.
- With the one default worker name of `python/fala/host.py` for every process, a
  late *success* is also recorded as that of a later attempt (`Legal` compares
  names only); DriverRace gives each driver a name of its own.
- Only a polling subprocess takes a row out of `cancel_requested`; no driver
  selects one (`RowClaimable`, `Execute`).
- A key repeated within a batch is found after the units before it have been
  recorded, so the refused batch leaves commands behind (`RecordNext`).
- The JSONL index is updated before the file, and every append rewrites the whole
  file, so a crash can lose lines accepted before (`AppendToIndex`, `CutOff`);
  the module's comment says "append full line → update index".
- An advance that meets a key used in another second raises a conflict although what it
  asks for was done (`Answers`, `AdvanceSkip`, `AdvanceApply`); of two callers who
  advance at once, one may so lose its call.
- Two callers that create one plan: the second's `MarkPending` demotes rows that the
  first has readied by then; the replayed keys of the next advance change nothing,
  and the rounds end in "nonconvergent".
- A stale round may skip a process that another caller's round, after a rearm of
  the condition's source, has readied and started (`AdvanceSkip`, `MayMove`): skipping
  is allowed from every open status, also from waiting, and its homeostat then stays open.
- After a rearm, `resume_homeostat` repeats the key of the first answer: within the same
  second it changes nothing and reports success, later it raises (`Close`,
  `OwnKeys`). A process that parked once cannot park again for the same reason (`Park`).
- A run that ended as failed or timed out leaves its pending rows, and a caller that was
  driving goes on claiming: neither claim nor advance looks at the run (`Claim`).
- A waiting process finished by a plain transition leaves its homeostat open
  (`journal.mojo:1261`); in PathRun only the homeostat's calls and drivers move rows.
- A run that enters a status for the second time changes it without an event,
  because the default key repeats (`SetRunStatus`).

## 6. What is proved

For every finite set of processes, any callers, connections, documents and keys, any
plan, any attempts (one or two in PathRun) and priorities, any runs, keepers and homes,
and any bounds, from the assumptions of the modules and the hypotheses named in the
statement:

| Theorem | Statement |
|---|---|
| NativeJournalProofs!TypeCorrect | `Spec => []TypeOK` |
| NativeJournalProofs!InductiveInvariant | `Spec => []IInv` |
| NativeJournalProofs!LeaseCorrect | `Spec => []LeasedWhileRunning` |
| NativeJournalProofs!TerminalCorrect | `Spec => NoTerminalRewrite` |
| NativeJournalProofs!LiveLeaseCorrect | `Spec => LiveLeaseNotStolen` |
| NativeJournalProofs!LifecycleImplemented | `Spec => LifecycleSpec` |
| NativeJournalProofs!HistoryInvariant | `Spec => []HistoryInv` |
| NativeJournalProofs!ProjectionCorrect | `Spec => []RowIsLastEvent` |
| NativeJournalProofs!AttemptsCorrect | `Spec => []AttemptsAreClaims` |
| NativeJournalProofs!ResultsCorrect | `Spec => []ResultsFromClaimant` |
| NativeJournalProofs!TurnsCorrect | `Spec => []TurnsDoNotOverlap` |
| NativeJournalProofs!QueueKeysCorrect | `Spec => []QueueKeysFree` |
| NativeDriverProofs!DriversImplement | `RoomForDrivers => (DriverSpec => Spec)` |
| NativeDriverProofs!ResultsAreOwn | `RoomForDrivers /\ OwnNames => (DriverSpec => []ResultOfOwnAttempt)` |
| NativeDriverProofs!ErrorsAreAttributed | `RoomForDrivers /\ DistinctErrors => (DriverSpec => []ContractErrorsAttributed)` |
| NativeDriverProofs!AttemptsEnd | `RoomForDrivers /\ RetriesWait /\ FailuresRetry => (DriverSpec => []AttemptEnds)` |
| PathRunProofs!PathTypeCorrect | `PathSpec => []PathTypeOK` |
| PathRunProofs!EndsAreFinal | `PathSpec => EndIsFinal` |
| PathRunProofs!ConductedCorrect | `Persisted /\ PathSpec => []ConductedInOrder` |
| PathRunProofs!ConditionsDecide | `Persisted /\ PathSpec => []ConditionDecides` |
| PathRunProofs!RunEndsWithRows | `NoRearm /\ PathSpec => []RunFollowsRows` |
| PathRunProofs!GatesFollow | `PlainSources /\ PathSpec => []GateFollowsProcess` |
| HostJournalProofs!HostTypeCorrect | `HostSpec => []HostTypeOK` |
| HostJournalProofs!TablesAlwaysAgree | `HostSpec => []TablesAgree` |
| HostJournalProofs!GatesMatchRows | `HostSpec => []GateMatchesRow` |
| HostJournalProofs!AcknowledgementsHold | `HostSpec => []AcknowledgedIsStored` |
| HostJournalProofs!TerminalsFrozen | `HostSpec => TerminalFrozen` |
| HostJournalProofs!CallbacksRunOnce | `HostSpec => []CallbackOnce` |
| HostJournalProofs!RecoveryIsForetold | `HostSpec => RecoveryForetold` |
| HostJournalProofs!CallbacksEnd | `NoWayBack => (HostSpec => []CallbackEnds)` |
| RetentionProofs!RetentionInvariant | `RetentionSpec => []RetInv` |
| RetentionProofs!PlanHoldsLive | `~ Truncates` gives `RetentionSpec => []PlanIsLive` |
| RetentionProofs!PublishedIsWhole | `RetentionSpec => []PublishedWhole` |
| RetentionProofs!OldTerminalDeleted | `RetentionSpec => DeletesOldTerminal` |
| RetentionProofs!NewestKept | `RetentionSpec => KeepsNewest` |
| HostRunProofs!RunInvariant | `RunSpec => []RunInv` |
| HostRunProofs!ArtifactsAreWhole | `RunSpec => []ArtifactsWhole` |
| HostRunProofs!SectionIsHeld | `RunSpec => []SectionHolds` |
| HostRunProofs!StampsAreInTurn | `RunSpec => []StampsFollowTurns` |
| HostRunProofs!LosersRebuildNever | `RunSpec => LosersNeverRebuild` |
| JournalPortProofs!JsonlInvariant | `JsonlSpec => []JsonlInv` |
| JournalPortProofs!FileKeysAreOnce | `JsonlSpec => []FileKeysOnce` |
| JournalPortProofs!FileIsInOrder | `JsonlSpec => []FileInOrder` |
| JournalPortProofs!IndexKnowsItsFile | `JsonlSpec => []IndexKnowsFile` |
| JournalPortProofs!CrashesNeverRefuseOpen | `JsonlSpec => []CrashesNeverRefuse` |
| JournalPortProofs!SecondaryIsMirror | `CallersRepeatNoKey => (TeeSpec => []SecondaryMirrors)` |
| JournalPortProofs!RuntimeInvariant | `RuntimeSpec => []RuntimeInv` |
| JournalPortProofs!LastEventIsStatus | `RuntimeSpec => []StatusIsLastEvent` |
| JournalPortProofs!ConductionIsInOrder | `RuntimeSpec => []ConductedInOrder` |
| JournalPortProofs!ReturningDriveIsIdle | `RuntimeSpec => DriveReturnsIdle` |
| JournalPortProofs!LifecycleOfRuntime | `RuntimeSpec => RuntimeLifecycle` |

Each proof of a large state machine has the same shape. First, one lemma for each
action says what it does to one row, one entry, one caller; these are gathered in
one definition of everything a step may do (`HistoryStep`, `DriverMoves`, `Moves`,
`RowStep` and `LogStep`, `LockOutcome`). Then each conjunct of the invariant is
preserved by any such step, without a look at the actions.

### Hypotheses

They are part of the statements because the properties fail without them; TLC shows
a counterexample for each that is marked.

| Hypothesis | Says | Why |
|---|---|---|
| RoomForDrivers | the journal's bounds on readings, leases, delays and asked targets leave room for the driver's | bounds of the models alone |
| OwnNames | each driver has a worker name of its own | with a shared one, the owner check of `Legal` lets a late success through (TLC; section 5) |
| DistinctErrors | the document of a contract violation is no other document | `ContractErrorsAttributed` recognises it by its value |
| RetriesWait | drivers stamp with the wall clock, and a policy that retries has a backoff | difference 1 (TLC) for the backoff; for the clock only the proof needs it, TLC found no counterexample |
| FailuresRetry | no outcome fails an attempt for good while attempts remain, or there is nothing to retry | a failed row with attempts left is revived by a late failure (TLC: `Outcome` with "invalid"; section 5) |
| CallersRepeatNoKey | no batch a caller appends has one key twice | the primary refuses such a batch half way, with its first units recorded, and what it refuses is not mirrored (TLC; section 5) |
| Persisted | callers come when the whole plan is in the journal | difference 4 (TLC) |
| NoRearm | no homeostat is opened again: no process parks, or each has one attempt | difference 5 (TLC) |
| PlainSources | no condition asks a process whose homeostat operators answer | a stale round skips a waiting process (TLC; section 5) |
| NoWayBack | the application does not ask for all of "running", "retry_wait" and "ready" | `upsert_process` would lead a callback's row back to running after its call (TLC; with any two of the three it cannot) |
| ~ Truncates | some connection keeps the journal's log in being | difference 2 (TLC) |

The runs DriverRace (OwnNames, DistinctErrors), DriverBackoff (RetriesWait,
FailuresRetry), PathRace (Persisted, NoRearm), PathGates (PlainSources), HostJournal (NoWayBack) and Retention
meet the hypotheses of the properties they check.

### The journal

`LeasedWhileRunning` is not inductive: a `CommitTransition` writes
what its call computed from the row it *saw*, and nothing in the row it finds
says that the call was legal. The invariant `IInv` adds that every call in
flight was legal for the row it saw (and carries a target and a document of the
right kind). The commit requires the row to equal what was seen in the six columns of
`Unchanged`, so legality carries over to the row as it is, and each of the
three consequences follows from the status table:
leases are set by claims only and dropped by everything else; a terminal row has
no legal target but the retry of a failed one; and before a lease ends neither
`Claimable` nor `Exhausted` holds for any reading, because a reading is never
ahead of the clock. The proof has one step for each action and below it one for
each conjunct the action can disturb.

The history. A step may append several entries, for a claim also reaps, but at most
one for each process: `HistoryStep` says that the log only grows, that the new keys
are unused and differ, and that each process is either undisturbed or has exactly
one new entry, related to its old and new row by `Schedules`, `Claims`, `Reaps` or
`Moves`. The positions of the entries of one process are then all that an invariant
needs: `RowIsLastEvent` follows because the new entry is its last, `AttemptsAreClaims`
because the attempt grows exactly when the entry is a claim, `ResultsFromClaimant` and
`TurnsDoNotOverlap` because the row before the step is, by `RowIsLastEvent`, what the
claim before it left. `QueueKeysFree` is not inductive, and no
statement about keys alone is: `HistoryInv` adds that a key fits its entry
(`EntriesFit`) or was chosen by a caller, that a call in flight has the key of its
process and target (`CallsNamed`), and that the reap of an attempt is the end of it
(`ReapsPast`); a used key of the next claim or reap would be an entry of an attempt
the row has not made, or has ended.

The refinement maps a row to its lifecycle record and hides the log, the
documents and the calls in flight. `BeginTransition`, `AbandonTransition` and a
tick map to steps that leave the table alone, `ClaimNextReady` to a step in
which several rows move, each by one lifecycle step: the exhausted ones fail,
the chosen one is claimed.

### The driver

Each step of `DriverSpec` is a step of `Spec` or leaves the journal
alone. The invariant (`DriverInv`) adds to the journal's that what a driver remembers fits the
call it will make: its tick is not ahead of the clock, the row and the attempt it
holds are of the right kind, and it has at most one call in flight. So what is
proved of the journal, `HistoryInv` included, holds of it under every driver, outcome
and crash, and the driver's own properties are proved on top of it.

*Results.* A late driver wakes with the answer of an attempt that was taken over. What
stops it is that its name is not the owner's, unless the same driver claimed
the row again; `OwnTurn` says that then it holds the newer attempt itself. `OwnAnswer`
carries this to the call in flight (whose seen attempt is that of its answer), and the
commit to the log. `NeverWaits` is needed because a result is also legal for a waiting row,
which has no owner.

*Violations.* `ErrorsAttributed` says of every place where a contract error is kept on its
way (the driver about to settle, the call in flight, the row, from which a retry
without a document copies it) that its violation is on record for this attempt or an earlier
one; `Tried` (a driver's attempt is not ahead of its row) and the growth of attempts give
the rest.

*Ends.* `AttemptEnds` fails only if a settlement is answered from the log by an entry
of another attempt. `FailedForGood` says that what drivers ask to fail, and
what has failed, has no attempt left; so a terminal row moves no more, and `EndsStand`
says what each entry that ends an attempt goes on to say of the row: it is terminal, or waits
until the time of the entry, or has been claimed at that time or later.
`TurnsFollowRetries` carries that time to the claiming driver: its tick is not before
the due time of any earlier retry. A replay would need an earlier retry of the same second with
the same due time, which is later than the second: a contradiction. `Ordered` says
where drivers hold an attempt, and that a settling driver's call is about its own row.

### The host

`GateMatchesRow` and `AcknowledgedIsStored` are not inductive: a row
under a completed blocker stays as it is only because its status is terminal, and
nothing in either says that a blocker of an absent row is absent, that an
acknowledgement of an incarnation to come cannot exist, or that an existing run
has been born. `TablesAgree` adds these (`NoOrphans`, `AcksKnown`,
`BirthsCounted`, and `KeysKnown` for callbacks in flight). Its proof is short because each
action is first reduced to what it may do to one run, one row and one blocker
(`RunMoves`, `RowMoves`, `GateMoves`, `AcksMove`); `TerminalFrozen` follows from the same
moves. For `CallbackOnce` the invariant `CallsCounted` says that a callback that has run
still has its row while its incarnation lives (`SpentHasRow`), and that two threads
never hold the same ticket nor one that was spent (`TicketsUnused`): a row, once
inserted, goes only with its incarnation.

*Callbacks end.* `CallbackEnds` speaks of unleased running rows, and every other way into
that state has to be closed. `CallbackRow` says why they are: the one attempt of a
callback's row is made (`Used`), so no driver claims it, nobody leases or retries it and no
recovery reschedules it; it runs only while its thread is at work, and only the
application could make it ready again.

*Recovery.* A recovery and an inspection read at different times, and rows are claimed
in between. `SelectedExpired` says of what was selected that it had expired by the recovery's own
deadline, `ViewKnows` that whatever has expired by the time of the inspection is
shown by it: a row that comes to run later is leased beyond the present, or not leased at
all (`RunningRows`). The comparison with the selected row joins the two.

*Maintenance.* The keeper selects in one read and deletes in later transactions, so
`KeeperInv` speaks of tags, a run with its incarnation: a tagged run that still is that
incarnation is finished and as old as when it was selected, because a terminal run is
written by nobody. That the newest are kept needs counting: above each
run the keeper may delete, it keeps at least KeepLast newer ones as long as nobody else
deletes them. Where a count would be proved by induction, `NewestAbove` takes a minimal
element instead: of the finished runs that are not among the newest, one with a least
set of runs above it (`LeastSet`, from the well-foundedness of strict inclusion on finite
subsets, which the library states) has none but the newest above it, and KeepLast of them.

*Rehearsal.* `LiveInv` says for each place between the two measurements that, while the log is
as long as first measured, the snapshot, the plan made of it and the live table agree: every
commit makes the log longer as long as nobody truncates it (`LogStep`). `DirInv` ties the
marker and the plan file to the step the rehearsal has reached; a failure at
any step leaves the marker.

*Host runs.* `LockInv` says that only the holder of the build lock is under it and that
what it is about to publish is still missing, which is why a loser, who looks again under
the lock, never builds. `SectionInv` says what the caller in the section has set and what
it found, so that restoring leaves the application's directory and environment
(unless the removal of a root jams it). `TurnInv` says that the turn is held from before the
stamp until after the restore, and that no turn ended after the stamp was taken.

### The path

A process is readied from inputs that a caller merged from rows it had
read some steps before, and is started still later; meanwhile other callers ready,
finish and skip rows, and operators rearm them. ConductedInOrder speaks of the
started ones only. The invariant `Conduction` says the same of every row that is
due (ready, running, waiting for a retry, or once started) and of every input that some
caller still holds. It is preserved because nothing but a rearm replaces the outcome
of a terminal row, and a rearm counts: `FedStands` is that argument, stated of any
two tables of outcomes, and each action is first reduced to what it may do to a
row (`RowMoves`) and to a caller (`CallerMoves`). `EndIsFinal` follows from the check
against the present status in the one transaction that writes a run. `PathTypeOK` is too
large for TLC to evaluate and is in no run.

*The end of the run.* `finalize_run` writes what it derived from rows it read before, so
`Ends` says of every caller that is about to write that its target still follows
from the rows: where nothing is rearmed, terminal rows stay terminal as they are, and a failed
row has no attempt left to be retried.

*Conditions.* An advance decides on what it read and writes row by row, later. `Conditions`
says that what a caller holds to skip or to ready was decided for good: the condition's
source has ended and, having no homeostat, keeps its answer. `Answered` says the
same of the rows: a conditional process is due only after its source approved, and a
skipped one has never run.

*Homeostats.* Parking, answering and rearming each write the row and its homeostat in one
transaction (`Gated`); what could part them is a driver that comes late. `Attempted` says
that an attempt some other has taken over, or that has a homeostat by now, is an earlier one
than the row's, so that a late driver's write is refused.

### The other sinks

A memory journal appends a batch by a fold over its units. The provers cannot do an
induction over the batch, so `MemoryJournalProofs` does without one: the library's
definition of a fold is a recursive function on positions, whose values, one for each
beginning of the batch, are a sequence with a first element and a step (`RecordSteps`,
`ImportSteps`); and if a state of that sequence were wrong, there would be a first wrong
one, the least element of a set of positions (`UpTo`). From this follow what a call
leaves when it stops half way (`LoopKeeps`), that an accepted batch added exactly its
units, under new keys and the run's next numbers (`Appending`, `BatchAdded`), and that
an import makes known what is imported (`ImportKnows`, `LoadKnows`).

*The file.* None of the four properties of the JSONL sink is inductive. `JsonlInv` relates
the index to the file it is about to replace: of any two lines the earlier has the smaller
numbers and none of the later's commands (`TextSound`); a living index knows every
command of every line and counts from its last number or later (`KnowsText`); and the one
batch not yet written continues the file (`IsPending`). So it does not matter where a crash
cuts the text (`PrefixSound`), nor which lines a failed write leaves out of the file while
the index keeps them. `_load` makes an index that knows every line it has read, starting
from nothing, which closes the circle.

*The mirror.* The secondary is handed batches that have numbers already and takes the counter from the
numbers (`LastAfter`); that this is what the primary counted needs that the primary's
numbers have no gaps (`MirroredRecording`, `AppendMirrored`). A claim moves the records
of its rows besides, which the tee seeds on the other side (`ClaimGrows`).

### The memory runtime

Whatever a call of the runtime does to the processes, it does by telling events one after
the other, each under a key that it derives from the process, with the record written
before or after (`IsNext`, `Told`). The journal answers a key it knows without a new
event, while the runtime writes its record all the same; so the heart of the invariant
is `KeysFit`, which reads off a row which of the keys of its process can have been used: a
claim's up to its attempt, the completion's only once it has succeeded. What may come next is
then free (`NextIsNew`), every record is written with an event that says so
(`LastTold`), and a claim is never refused half way (`TellingAll`).

An upstream that is absent settles a process just as an ended one does, which would ready
a process before its upstream is even scheduled. That this never happens needs
`AllOrNone`: a call of `instantiate_path` puts a run's processes in the journal together,
and upstreams are of the same run (`RuntimeAssumption`). The plan of an advance is drawn up
before any of it is carried out; its processes stay what they were because each is in it once
and none is an upstream of another (`AdvanceKeeps`).

The calls are folds over processes, unrolled into steps like those over units
(`ScheduleSteps`, `ReadySteps`), and a claim's batch is a loop over units, each of which
tells of another process (`UnitsTell`). `ReturningDriveIsIdle` follows from an empty claim's
choice and from what it reaped being failed. For `LifecycleOfRuntime` each step is
described row by row (`RowScheduled`, `RowEnded`, `RowReadied`, `ClaimMoves`); a
completion with the advance after it still moves each row once, because the completed one is
not pending. That a waiting row has no lease (`LeasesFit`) and that an owner has
a name (`WorkerAssumption`, which `claim_process` checks) are what it needs besides.

### Only model-checked

- RunFollowsRows, GateFollowsProcess, CallbackEnds and the other properties beyond their hypotheses.
- Every liveness property (EventuallyTerminal, PathEnds, EveryCallReturns): fairness and ENABLED are out of the provers' reach.

## 7. What is not modelled

- In NativeJournal: several runs in one database (rows of different runs share
  no guard but the run filter of the claim), `available_at` of a ready row
  (ignored by the claim, kept for the order), resource pools, and the contents
  of documents. The replay of a used key returns the row and changes nothing, so
  it is a stutter, except in NativeDriver where what it answers matters.
- In NativeDriver: homeostats, correlation and effects after a process ends, the
  lease pump of a subprocess, and several processes (one is enough for every
  property here; the queue is checked in JournalQueue).
- In the lighter sinks: `load`, `seed` of arbitrary records, JSON encoding. A
  memory journal's processes are claimed in any order rather than in queue order.
- In MemoryRuntime: impulses, inputs and outputs, caller-chosen keys.
- In PathRun: actors, documents and events, what the retry policy of a process
  leaves as metadata, the diagnostic marker of a process that waits, feedback cycles,
  reactions in inputs, contract violations and invalid outputs (NativeDriver), cancel
  requests, and a path's plan that differs from the persisted one, which raises.
- In HostJournal: titles, metadata, errors and inputs, priorities, the log of
  commands and events (native transitions are not refused for a key they repeat,
  so the model allows more of them), and homeostats that are not the blocker of
  one process. `ensure_journal` makes an empty database, which is where the model starts.
- In Retention: the garbage collection of reaction blobs, the space checks and the
  checks of the copy, which may fail like every other step.
- In NativeBuild and HostRun: missing tools, platforms, `FALA_SKIP_NATIVE_BUILD`,
  the package and its plan, the memory path, and drives that wait for each other
  through an effector that calls the host again.
- The remaining components of section 1, in the order of the plan below, and for
  good: parsing, packages, graph tools, command line, conformance kit and SDK, which
  transform data and keep no state that outlives a call.

## 8. Plan

Done, in this order: ProcessStatus, ProcessLifecycle, NativeJournal and its
proofs, NativeDriver, RunStatus, MemoryJournal, JsonlJournal, TeeJournal,
MemoryRuntime, HostJournal and its proofs, the proof that the driver implements
the journal, Retention, NativeBuild, HostRun, PathRun and its proofs; then the proofs of
the journal's history, of the driver's own properties, of HostRun and of Retention,
of the other safety properties of PathRun, of the JSONL sink and the tee, and of the memory
runtime.

Next:

1. *RunBoundary*: request_cancel_run and drive_all_runs over several runs; a cancelled
   run leaves no process running.
2. *BridgeTransport*: outbox and inbox of two databases; abstract specification:
   a channel that delivers each message exactly once.
3. *SqlitePort* as a third user of the append operations.
4. *Effects*: proposal, application and compensation.

Proofs, next: every safety and action property of a run is a theorem, some under the
hypotheses above; what is left is the modules of this plan as they come.
