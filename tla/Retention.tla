------------------------------ MODULE Retention ------------------------------
(***************************************************************************)
(* Journal retention (maintain_journal of python/fala/host.py over         *)
(* ops_maintenance.mojo) and its rehearsal on a snapshot (rehearsal.py),   *)
(* beside applications that write, finish, delete and create runs again.   *)
(*                                                                         *)
(* A maintenance call reads twice and then deletes run by run, each in a   *)
(* transaction of its own.  The rehearsal measures the files of the live   *)
(* database before and after it copies them, one file at a time; the       *)
(* files are abstracted to the newest committed version they hold.  The    *)
(* garbage collection of reaction blobs is left out.                       *)
(***************************************************************************)
EXTENDS Integers, FiniteSets

CONSTANTS
    Run,        \* run ids, ordered
    Keeper,     \* callers of maintain_journal
    KeepLast,   \* their keep_last, -1 when they do not ask
    Age,        \* their older_than_days
    Truncates,  \* whether connections close, and truncate the log as they do
    MaxTime, MaxBirths, MaxVersion

ASSUME RunAssumption == Run \subseteq Nat

ASSUME RetentionBoundsAssumption ==
    /\ KeepLast \in Int /\ Age \in Nat /\ Truncates \in BOOLEAN
    /\ MaxTime \in Nat /\ MaxBirths \in Nat /\ MaxVersion \in Nat

VARIABLES
    now,
    runs,     \* table runs: status, its timestamp, and its incarnation
    files,    \* the database file and its write-ahead log
    jobs,     \* maintain_journal of each keeper
    reh,      \* the rehearsal
    dir       \* its output directory

retVars == <<now, runs, files, jobs, reh, dir>>

-----------------------------------------------------------------------------
NoRun == [status |-> "absent", at |-> 0, born |-> 0]

Present(r) == runs[r].status # "absent"

Terminal(rs) == {r \in Run : rs[r].status = "terminal"}

\* ORDER BY time DESC, id DESC.
Newer(rs, s, r) == rs[s].at > rs[r].at \/ (rs[s].at = rs[r].at /\ s > r)

\* Slip: the newest runs of any status are counted.
NewestOfAll(rs) ==
    {r \in Terminal(rs) :
        Cardinality({s \in Run : rs[s].status # "absent" /\ Newer(rs, s, r)}) < KeepLast}

Newest(rs) == {r \in Terminal(rs) : Cardinality({s \in Terminal(rs) : Newer(rs, s, r)}) < KeepLast}

\* Slip: runs of any status are candidates.
CandidatesOfAll(rs, cutoff, keep) ==
    {r \in Run : rs[r].status # "absent" /\ rs[r].at < cutoff} \ keep

Candidates(rs, cutoff, keep) == {r \in Terminal(rs) : rs[r].at < cutoff} \ keep

\* A database that nobody has open has no log.
NoLog == -1

\* The version a reader sees, from the log if it holds a newer one.
Committed == IF files.wal > files.main THEN files.wal ELSE files.main

Commit == Committed < MaxVersion /\ files' = [files EXCEPT !.wal = Committed + 1]

-----------------------------------------------------------------------------
(* Applications.                                                           *)

\* A run is created, written while it is open, or finished.
WriteRun(r, status) ==
    /\ runs[r].status # "terminal"
    /\ ~Present(r) => runs[r].born < MaxBirths
    /\ runs' = [runs EXCEPT ![r] = [status |-> status, at |-> now,
                                    born |-> IF Present(r) THEN @.born ELSE @.born + 1]]
    /\ Commit
    /\ UNCHANGED <<now, jobs, reh, dir>>

DeleteFinished(r) ==
    /\ runs[r].status = "terminal"
    /\ runs' = [runs EXCEPT ![r].status = "absent"]
    /\ Commit
    /\ UNCHANGED <<now, jobs, reh, dir>>

\* SQLite moves the log into the file; the last connection to close deletes it.
Checkpoint ==
    /\ \/ files' = [files EXCEPT !.main = Committed]
       \/ Truncates /\ files' = [main |-> Committed, wal |-> NoLog]
    /\ files' # files
    /\ UNCHANGED <<now, runs, jobs, reh, dir>>

Tick == now < MaxTime /\ now' = now + 1 /\ UNCHANGED <<runs, files, jobs, reh, dir>>

-----------------------------------------------------------------------------
(* maintain_journal.                                                       *)

NoJob == [pc |-> "idle", cutoff |-> 0, keep |-> {}, todo |-> {}]

Tagged(rs) == {<<r, runs[r].born>> : r \in rs}

MaintainCutoff(k) ==
    /\ jobs[k].pc = "idle"
    /\ jobs' = [jobs EXCEPT ![k].pc = "keep", ![k].cutoff = now - Age]
    /\ UNCHANGED <<now, runs, files, reh, dir>>

MaintainKeep(k) ==
    /\ jobs[k].pc = "keep"
    /\ jobs' = [jobs EXCEPT ![k].pc = "select", ![k].keep = Tagged(Newest(runs))]
    /\ UNCHANGED <<now, runs, files, reh, dir>>

MaintainSelect(k) ==
    /\ jobs[k].pc = "select"
    /\ LET keep == {kept[1] : kept \in jobs[k].keep}
       IN  jobs' = [jobs EXCEPT ![k].pc = "delete",
                       ![k].todo = Tagged(Candidates(runs, jobs[k].cutoff, keep))]
    /\ UNCHANGED <<now, runs, files, reh, dir>>

\* delete_run, whatever the status and incarnation of the run by then; an
\* unknown run ends the call and spares the candidates left.  The code deletes
\* in the order of creation, the model in any.
MaintainDelete(k) ==
    /\ jobs[k].pc = "delete"
    /\ \E item \in jobs[k].todo :
          IF Present(item[1])
          THEN /\ jobs' = [jobs EXCEPT ![k].todo = @ \ {item}]
               /\ runs' = [runs EXCEPT ![item[1]].status = "absent"]
               /\ Commit
          ELSE jobs' = [jobs EXCEPT ![k] = NoJob] /\ UNCHANGED <<runs, files>>
    /\ UNCHANGED <<now, reh, dir>>

\* The call returns, after VACUUM if it was asked for.
MaintainReturn(k) ==
    /\ jobs[k].pc = "delete" /\ jobs[k].todo = {}
    /\ jobs' = [jobs EXCEPT ![k] = NoJob]
    /\ Commit \/ UNCHANGED files
    /\ UNCHANGED <<now, runs, reh, dir>>

-----------------------------------------------------------------------------
(* rehearse_journal_retention.                                             *)

NoFiles == [main |-> NoLog, wal |-> NoLog]

\* "then" is the live table when the files were measured for the second time;
\* what no later step reads is forgotten.
NoRehearsal == [pc |-> "new", before |-> NoFiles, after |-> NoFiles,
                snapshot |-> [r \in Run |-> NoRun], then |-> [r \in Run |-> NoRun],
                cutoff |-> 0, plan |-> {}]

NoDir == [exists |-> FALSE, marker |-> FALSE, plan |-> "none"]

RehearseMkdir ==
    /\ reh.pc = "new"
    /\ reh' = [reh EXCEPT !.pc = "mark"]
    /\ dir' = [dir EXCEPT !.exists = TRUE]
    /\ UNCHANGED <<now, runs, files, jobs>>

RehearseMark ==
    /\ reh.pc = "mark"
    /\ reh' = [reh EXCEPT !.pc = "before_main"]
    /\ dir' = [dir EXCEPT !.marker = TRUE]
    /\ UNCHANGED <<now, runs, files, jobs>>

\* _source_set, file by file.
MeasureBefore ==
    /\ \/ /\ reh.pc = "before_main"
          /\ reh' = [reh EXCEPT !.pc = "before_wal", !.before.main = files.main]
       \/ /\ reh.pc = "before_wal"
          /\ reh' = [reh EXCEPT !.pc = "backup", !.before.wal = files.wal]
    /\ UNCHANGED <<now, runs, files, jobs, dir>>

MeasureAfter ==
    /\ \/ /\ reh.pc = "after_main"
          /\ reh' = [reh EXCEPT !.pc = "after_wal", !.after.main = files.main, !.then = runs]
       \/ /\ reh.pc = "after_wal"
          /\ reh' = [reh EXCEPT !.pc = "verify", !.after.wal = files.wal]
    /\ UNCHANGED <<now, runs, files, jobs, dir>>

\* One pinned read of the live database, log included, normalised and checked.
\* A reader of a database without a log makes an empty one, and a read-only
\* connection leaves it behind.
Backup ==
    /\ reh.pc = "backup"
    /\ reh' = [reh EXCEPT !.pc = "plan", !.snapshot = runs]
    /\ files' = [files EXCEPT !.wal = IF @ = NoLog THEN 0 ELSE @]
    /\ UNCHANGED <<now, runs, jobs, dir>>

\* maintain_journal(dry_run=True) on the snapshot, which nobody else opens.
DryRun ==
    /\ reh.pc = "plan"
    /\ reh' = [reh EXCEPT !.pc = "after_main", !.cutoff = now - Age,
                  !.snapshot = NoRehearsal.snapshot,
                  !.plan = Candidates(reh.snapshot, now - Age, Newest(reh.snapshot))]
    /\ UNCHANGED <<now, runs, files, jobs, dir>>

\* Slip: the log's identity is not compared.
SameSourceMain(before, after) == before.main = after.main

SameSource(before, after) == before = after

Verify ==
    /\ reh.pc = "verify"
    /\ SameSource(reh.before, reh.after)
    /\ reh' = [reh EXCEPT !.pc = "write", !.before = NoFiles, !.after = NoFiles]
    /\ UNCHANGED <<now, runs, files, jobs, dir>>

\* _write_exclusive, which may be cut off after any byte.
WritePlan ==
    /\ reh.pc = "write"
    /\ \/ dir.plan = "none" /\ dir' = [dir EXCEPT !.plan = "partial"] /\ UNCHANGED reh
       \/ /\ dir.plan = "partial"
          /\ dir' = [dir EXCEPT !.plan = "whole"]
          /\ reh' = [reh EXCEPT !.pc = "unmark"]
    /\ UNCHANGED <<now, runs, files, jobs>>

Unmark ==
    /\ reh.pc = "unmark"
    /\ dir' = [dir EXCEPT !.marker = FALSE]
    /\ reh' = [reh EXCEPT !.pc = "done"]
    /\ UNCHANGED <<now, runs, files, jobs>>

\* Slip: the failed call cleans its marker up.
DirWithoutMarker(d) == [d EXCEPT !.marker = FALSE]

\* A failed call leaves its directory as it is.
LeftBehind(d) == d

\* Any step may fail (no space, a changed source, a broken copy), or the process
\* may die; the directory is never used again.
RehearseFails ==
    /\ reh.pc \notin {"new", "done", "failed"}
    /\ reh' = [NoRehearsal EXCEPT !.pc = "failed"]
    /\ dir' = LeftBehind(dir)
    /\ UNCHANGED <<now, runs, files, jobs>>

-----------------------------------------------------------------------------
RetentionInit ==
    /\ now = 0
    /\ runs = [r \in Run |-> NoRun]
    /\ files = [main |-> 0, wal |-> IF Truncates THEN NoLog ELSE 0]
    /\ jobs = [k \in Keeper |-> NoJob]
    /\ reh = NoRehearsal
    /\ dir = NoDir

RetentionNext ==
    \/ \E r \in Run :
          DeleteFinished(r) \/ \E status \in {"open", "terminal"} : WriteRun(r, status)
    \/ \E k \in Keeper :
          \/ MaintainCutoff(k) \/ MaintainKeep(k) \/ MaintainSelect(k)
          \/ MaintainDelete(k) \/ MaintainReturn(k)
    \/ RehearseMkdir \/ RehearseMark \/ MeasureBefore \/ Backup \/ DryRun
    \/ MeasureAfter \/ Verify \/ WritePlan \/ Unmark \/ RehearseFails
    \/ Checkpoint \/ Tick

RetentionSpec == RetentionInit /\ [][RetentionNext]_retVars

-----------------------------------------------------------------------------
(* Properties.                                                             *)

RunRow == [status : {"absent", "open", "terminal"}, at : Nat, born : Nat]

RetentionTypeOK ==
    /\ now \in Nat
    /\ runs \in [Run -> RunRow]
    /\ files \in [main : Nat, wal : Nat \cup {NoLog}]
    /\ jobs \in [Keeper -> [pc : {"idle", "keep", "select", "delete"}, cutoff : Int,
                            keep : SUBSET (Run \X Nat), todo : SUBSET (Run \X Nat)]]
    /\ reh.snapshot \in [Run -> RunRow] /\ reh.then \in [Run -> RunRow]
    /\ reh.plan \subseteq Run
    /\ dir \in [exists : BOOLEAN, marker : BOOLEAN, plan : {"none", "partial", "whole"}]

\* Keeper k deletes the incarnation of r that it selected.
DeletesSelected(k, r) ==
    /\ jobs'[k] # jobs[k]
    /\ Present(r) /\ ~Present(r)'
    /\ <<r, runs[r].born>> \in jobs[k].todo

\* "nonterminal runs are never candidates": a run that maintenance selected, and
\* that is still the same run when its turn to be deleted comes, is old and
\* finished then, although it is deleted without being looked at again.
DeletesOldTerminal ==
    [][\A k \in Keeper, r \in Run : DeletesSelected(k, r) =>
          runs[r].status = "terminal" /\ runs[r].at < jobs[k].cutoff]_retVars

\* "preserves the newest N terminal runs": at each deletion N finished runs are
\* newer than the one deleted, whatever finished between the two reads, as long
\* as nobody else deletes what the call wants to keep.
KeepsNewest ==
    [][\A k \in Keeper, r \in Run :
          /\ DeletesSelected(k, r)
          /\ \A kept \in jobs[k].keep :
                runs[kept[1]].status = "terminal" /\ runs[kept[1]].born = kept[2]
          => Cardinality({s \in Terminal(runs) : Newer(runs, s, r)}) >= KeepLast]_retVars

\* "identities must remain stable": a rehearsal that passes its checks planned
\* what the live journal would have lost when it was measured again, although
\* the copy was made between two measurements that are not atomic themselves.
\* It holds while some connection keeps the log; the last connection to close
\* can undo, between the two files, what the measurement should have shown.
PlanIsLive ==
    reh.pc \in {"write", "unmark", "done"} =>
        reh.plan = Candidates(reh.then, reh.cutoff, Newest(reh.then))

\* "Failures retain .incomplete": a directory that shows a plan and no marker
\* holds the whole plan of a rehearsal that succeeded.
PublishedWhole == dir.plan # "none" /\ ~dir.marker => dir.plan = "whole" /\ reh.pc = "done"
=============================================================================
