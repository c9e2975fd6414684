---------------------------- MODULE MemoryJournal ----------------------------
(***************************************************************************)
(* The in-memory journal of mojo/fala/memory_journal.mojo, as operators on *)
(* its value: the JSONL sink keeps one as its index, the tee two, and the  *)
(* memory runtime one as its store.  Nothing here runs concurrently; what  *)
(* can go wrong is a call that stops half way and the keys and sequence    *)
(* numbers the next call then finds.                                       *)
(*                                                                         *)
(* A command is its run and its idempotency key; an event is its command's *)
(* key with its sequence number, 0 until the journal assigns one.          *)
(***************************************************************************)
EXTENDS Naturals, FiniteSets, SequencesExt, ProcessStatus

CONSTANTS
    Run,         \* run ids
    NoRun,       \* in place of a run where a batch has none
    Process,     \* process ids
    RunOf,       \* the run of each process
    Worker,      \* worker ids
    NoWorker,    \* the empty lease_owner
    MaxAttempts, \* max_attempts of each process
    CallerKey,   \* idempotency keys that callers put into their batches
    Lease,       \* lease_seconds of a claim
    MaxTime      \* bound on the clock readings of claims

ASSUME RunOfAssumption == RunOf \in [Process -> Run]

ASSUME ProcessAssumption == IsFiniteSet(Process)

ASSUME MemoryAttemptsAssumption == MaxAttempts \in [Process -> Nat \ {0}]

\* claim_process refuses an empty worker_id.
ASSUME WorkerAssumption == NoWorker \notin Worker

ASSUME ClaimsAssumption == Lease \in Nat \ {0} /\ MaxTime \in Nat

Record == [status : Status \cup {"absent"}, attempt : Nat,
           owner : Worker \cup {NoWorker}, expires : Nat, due : Nat]

AbsentRecord == [status |-> "absent", attempt |-> 0, owner |-> NoWorker,
                 expires |-> 0, due |-> 0]

\* The keys claim_next derives.
ClaimKey(p, n) == <<"process.claim", p, n>>
FailKey(p, n) == <<"process.fail", p, n>>

Key == CallerKey \cup ({"process.claim", "process.fail"} \X Process \X Nat)

StoredUnit == [run : Run, key : Key, events : Seq(Nat)]
StoredBatch == [seq : Nat, run : Run \cup {NoRun}, units : Seq(StoredUnit)]

Index == [seq : Nat, batches : Seq(StoredBatch), commands : SUBSET (Run \X Key),
          events : [Run -> Seq([key : Key, sequence : Nat])], last : [Run -> Nat],
          processes : [Process -> Record]]

\* A unit with its events unassigned.
Unit(run, key, n) == [run |-> run, key |-> key, events |-> [i \in 1..n |-> 0]]

Batch(run, units) == [seq |-> 0, run |-> run, units |-> units]

Command(unit) == <<unit.run, unit.key>>

EmptyIndex ==
    [seq |-> 0, batches |-> <<>>, commands |-> {},
     events |-> [r \in Run |-> <<>>], last |-> [r \in Run |-> 0],
     processes |-> [p \in Process |-> AbsentRecord]]

-----------------------------------------------------------------------------
(* append_batch.                                                           *)

EventsOf(unit) == [i \in DOMAIN unit.events |-> [key |-> unit.key, sequence |-> unit.events[i]]]

\* _assign_events: the run's next sequence numbers.
Numbered(index, unit) ==
    [unit EXCEPT !.events = [i \in DOMAIN unit.events |-> index.last[unit.run] + i]]

\* A numbered unit in the maps: its command, its events, the run's counter.
Recorded(index, unit) ==
    [index EXCEPT !.commands = @ \cup {Command(unit)},
                  !.events[unit.run] = @ \o EventsOf(unit),
                  !.last[unit.run] = @ + Len(unit.events)]

\* Slip: a key repeated within the batch is not looked for.
RecordEach(done, unit) ==
    LET numbered == Numbered(done.index, unit)
    IN  [done EXCEPT !.index = Recorded(@, numbered), !.units = Append(@, numbered)]

\* One turn of append_batch's loop; the first repeated key ends it, with the
\* units before it recorded.
RecordNext(done, unit) ==
    IF done.stopped \/ Command(unit) \in done.index.commands
    THEN [done EXCEPT !.stopped = TRUE]
    ELSE LET numbered == Numbered(done.index, unit)
         IN  [done EXCEPT !.index = Recorded(@, numbered),
                          !.units = Append(@, numbered)]

\* The leading command is known: the batch was accepted before.
Replays(index, batch) == Command(batch.units[1]) \in index.commands

HasKnownFollower(index, batch) ==
    \E i \in DOMAIN batch.units : i # 1 /\ Command(batch.units[i]) \in index.commands

\* The index and the answer: "accepted", "replayed", or "raised".  A batch
\* that repeats a key raises after the units before the repetition.
AppendBatch(index, batch) ==
    LET loop == FoldLeft(RecordNext,
                         [index |-> index, units |-> <<>>, stopped |-> FALSE],
                         batch.units)
        stored == [batch EXCEPT !.seq = index.seq + 1, !.units = loop.units]
    IN  CASE Replays(index, batch) ->
                [index |-> index, answer |-> "replayed", batch |-> batch]
          [] ~Replays(index, batch) /\ HasKnownFollower(index, batch) ->
                [index |-> index, answer |-> "raised", batch |-> batch]
          [] ~Replays(index, batch) /\ ~HasKnownFollower(index, batch) /\ loop.stopped ->
                [index |-> loop.index, answer |-> "raised", batch |-> batch]
          [] OTHER ->
                [index |-> [loop.index EXCEPT !.seq = index.seq + 1,
                                              !.batches = Append(@, stored)],
                 answer |-> "accepted", batch |-> stored]

-----------------------------------------------------------------------------
(* claim_next, seed_process and import_stored_batch.                       *)

Seeded(index, p, record) == [index EXCEPT !.processes[p] = record]

Expired(record, at) == record.owner # NoWorker /\ record.expires <= at

Reapable(index, p, at) ==
    /\ index.processes[p].status = "running"
    /\ Expired(index.processes[p], at)
    /\ index.processes[p].attempt >= MaxAttempts[p]

\* Slip: a running row is taken over whatever its lease says.
IsClaimableWhileLeased(index, p, at) ==
    LET record == index.processes[p]
    IN  record.attempt < MaxAttempts[p] /\ record.status \in {"ready", "running"}

\* process_is_claimable.
IsClaimable(index, p, at) ==
    LET record == index.processes[p]
    IN  /\ record.attempt < MaxAttempts[p]
        /\ \/ record.status = "ready"
           \/ record.status = "retry_wait" /\ record.due <= at
           \/ record.status = "running" /\ Expired(record, at)

Unleased(record) == [record EXCEPT !.owner = NoWorker, !.expires = 0]

ReapAll(index, reaped) ==
    [index EXCEPT !.processes =
        [p \in Process |-> IF p \in reaped
                           THEN [Unleased(index.processes[p]) EXCEPT !.status = "failed"]
                           ELSE index.processes[p]]]

\* claim_process.
Claimed(record, w, until) ==
    [record EXCEPT !.status = "running", !.attempt = @ + 1, !.owner = w, !.expires = until]

\* Slip: a reap is journaled under the key of the claim it ends.
ReapUnitOfClaim(index, p) == Unit(RunOf[p], ClaimKey(p, index.processes[p].attempt), 1)

ReapUnit(index, p) == Unit(RunOf[p], FailKey(p, index.processes[p].attempt), 1)

\* The run of a batch: that of the claimed row, or of the last reaped one.
BatchRun(reaps, p) == IF p = {} THEN reaps[Len(reaps)].run ELSE RunOf[CHOOSE q \in p : TRUE]

\* claim_next by worker w, of one run or of all of them: rows are reaped, the
\* row in "chosen" (none, if none is claimable) is claimed, and the batch of
\* both is appended.  The order of the queue is left open, and reaped rows
\* come in one fixed order, as they do from the dictionary.
ClaimNext(index, w, runs, at, until, chosen) ==
    LET reaped == {p \in Process : RunOf[p] \in runs /\ Reapable(index, p, at)}
        reaps == [i \in 1..Cardinality(reaped) |-> ReapUnit(index, SetToSeq(reaped)[i])]
        resolved == ReapAll(index, reaped)
        moved == [resolved EXCEPT !.processes =
                    [p \in Process |-> IF p \in chosen
                                       THEN Claimed(resolved.processes[p], w, until)
                                       ELSE resolved.processes[p]]]
        claims == {Unit(RunOf[p], ClaimKey(p, moved.processes[p].attempt), 1) : p \in chosen}
        units == reaps \o SetToSeq(claims)
    IN  IF units = <<>>
        THEN [index |-> index, answer |-> "empty", batch |-> Batch(NoRun, <<>>)]
        ELSE AppendBatch(moved, Batch(BatchRun(reaps, chosen), units))

\* The choices ready_processes leaves to the order of the queue.
ReadyChoices(index, runs, at) ==
    LET ready == {p \in Process : RunOf[p] \in runs /\ IsClaimable(index, p, at)}
    IN  IF ready = {} THEN {{}} ELSE {{p} : p \in ready}

\* Slip: a reopened run is numbered by how many events it holds.
LastByCount(index, unit) == index.last[unit.run] + Len(unit.events)

LastAfter(index, unit) == Max({index.last[unit.run]} \cup Range(unit.events))

\* Slip: the events are restored, the commands are not.
ImportUnitEvents(index, unit) ==
    [index EXCEPT !.events[unit.run] = @ \o EventsOf(unit),
                  !.last[unit.run] = LastAfter(index, unit)]

ImportUnit(index, unit) ==
    [index EXCEPT !.commands = @ \cup {Command(unit)},
                  !.events[unit.run] = @ \o EventsOf(unit),
                  !.last[unit.run] = LastAfter(index, unit)]

\* import_stored_batch: a stored batch has its numbers already.
Import(index, batch) ==
    LET units == FoldLeft(ImportUnit, index, batch.units)
    IN  [units EXCEPT !.seq = IF batch.seq > @ THEN batch.seq ELSE @,
                      !.batches = Append(@, batch)]

=============================================================================
