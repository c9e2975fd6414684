----------------------------- MODULE RetentionProofs -----------------------------
(***************************************************************************)
(* Theorems about Retention, for every set of runs and keepers, every      *)
(* keep_last and age, and every bound: that maintenance deletes what it    *)
(* may although it deletes without looking again, and that a rehearsal     *)
(* which passes its checks planned for the live journal.                   *)
(*                                                                         *)
(* What every step does to the table is said once (RowStep) and to the log *)
(* once (LogStep); the invariant of a keeper rests on the first, that of   *)
(* the rehearsal on the second.                                            *)
(***************************************************************************)
EXTENDS Retention, FiniteSetTheorems, TLAPS

-----------------------------------------------------------------------------
(* Types.                                                                  *)

Table == [Run -> RunRow]

Measure == [main : Nat \cup {NoLog}, wal : Nat \cup {NoLog}]

Rehearsal ==
    [pc : {"new", "mark", "before_main", "before_wal", "backup", "plan", "after_main",
           "after_wal", "verify", "write", "unmark", "done", "failed"},
     before : Measure, after : Measure, snapshot : Table, then : Table,
     cutoff : Int, plan : SUBSET Run]

Job == [pc : {"idle", "keep", "select", "delete"}, cutoff : Int,
        keep : SUBSET (Run \X Nat), todo : SUBSET (Run \X Nat)]

RetTypes ==
    /\ now \in Nat
    /\ runs \in Table
    /\ files \in [main : Nat, wal : Nat \cup {NoLog}]
    /\ jobs \in [Keeper -> Job]
    /\ reh \in Rehearsal
    /\ dir \in [exists : BOOLEAN, marker : BOOLEAN, plan : {"none", "partial", "whole"}]

-----------------------------------------------------------------------------
(* The inductive invariant.                                                *)

\* The directory tells how far the rehearsal came.
DirInv ==
    /\ reh.pc \in {"new", "mark", "before_main", "before_wal", "backup", "plan",
                   "after_main", "after_wal", "verify"} => dir.plan = "none"
    /\ reh.pc \in {"before_main", "before_wal", "backup", "plan", "after_main",
                   "after_wal", "verify", "write", "unmark"} => dir.marker
    /\ reh.pc = "write" => dir.plan # "whole"
    /\ reh.pc \in {"unmark", "done"} => dir.plan = "whole"
    /\ reh.pc = "failed" /\ dir.plan # "none" => dir.marker

PlanOf(rs) == Candidates(rs, reh.cutoff, Newest(rs))

\* As long as the log is as it was first measured, nothing was committed since.
LiveInv ==
    ~ Truncates =>
      /\ files.wal \in Nat
      /\ reh.pc \in {"backup", "plan", "after_main", "after_wal"} => reh.before.wal <= files.wal
      /\ reh.pc = "plan" /\ reh.before.wal = files.wal => reh.snapshot = runs
      /\ reh.pc = "after_main" /\ reh.before.wal = files.wal => reh.plan = PlanOf(runs)
      /\ reh.pc = "after_wal" /\ reh.before.wal = files.wal => reh.plan = PlanOf(reh.then)
      /\ reh.pc = "verify" /\ reh.before.wal = reh.after.wal => reh.plan = PlanOf(reh.then)
      /\ reh.pc \in {"write", "unmark", "done"} => reh.plan = PlanOf(reh.then)

\* A tagged run that is still the incarnation it was tagged as is finished.
Held(t) ==
    /\ runs[t[1]].born >= t[2]
    /\ Present(t[1]) /\ runs[t[1]].born = t[2] => runs[t[1]].status = "terminal"

\* Everything keeper k wants to keep is still there.
Intact(k) ==
    \A t \in jobs[k].keep : runs[t[1]].status = "terminal" /\ runs[t[1]].born = t[2]

Ids(k) == {t[1] : t \in jobs[k].keep}

\* A run k may delete, once it has fixed what to keep.
Old(k, r) == r \in Terminal(runs) /\ runs[r].at < jobs[k].cutoff /\ r \notin Ids(k)

\* The runs k keeps that are newer than r.
KeptAbove(k, r) == {s \in Ids(k) : Newer(runs, s, r)}

\* What a keeper selected is old and finished unless it is another run by now;
\* and above every run it may delete it keeps enough, unless somebody else
\* deletes them.
KeeperInv(k) ==
    /\ jobs[k].pc # "idle" => jobs[k].cutoff <= now
    /\ jobs[k].pc # "delete" => jobs[k].todo = {}
    /\ \A t \in jobs[k].keep : Held(t)
    /\ \A t \in jobs[k].todo :
          /\ Held(t) /\ t[1] \notin Ids(k)
          /\ Present(t[1]) /\ runs[t[1]].born = t[2] => runs[t[1]].at < jobs[k].cutoff
    /\ jobs[k].pc \in {"select", "delete"} /\ Intact(k) =>
          \A r \in Run : Old(k, r) => Cardinality(KeptAbove(k, r)) >= KeepLast

\* Only finitely many runs were ever created.
FinitelyMany == IsFiniteSet({r \in Run : Present(r)})

RetInv ==
    /\ RetTypes /\ DirInv /\ LiveInv /\ FinitelyMany
    /\ \A k \in Keeper : KeeperInv(k)

-----------------------------------------------------------------------------
(* What a step does to the types, the table and the log.                   *)

\* The newest committed version is a version.
LEMMA CommittedType == RetTypes => Committed \in Nat
BY DEF RetTypes, Committed, NoLog

\* A commit goes to the log, past what was committed.
LEMMA CommitMoves ==
    ASSUME RetTypes, Commit
    PROVE  /\ files' \in [main : Nat, wal : Nat \cup {NoLog}]
           /\ files'.wal \in Nat /\ files'.wal > files.wal
<1>1. Committed \in Nat
  BY CommittedType
<1>2. Committed >= files.wal
  BY DEF RetTypes, Committed, NoLog
<1>. QED  BY <1>1, <1>2 DEF Commit, RetTypes, NoLog

\* What the applications and the clock do.
AppStep ==
    \/ \E r \in Run :
          DeleteFinished(r) \/ \E status \in {"open", "terminal"} : WriteRun(r, status)
    \/ Checkpoint \/ Tick

\* What keeper k does.
KeeperStep(k) ==
    \/ MaintainCutoff(k) \/ MaintainKeep(k) \/ MaintainSelect(k)
    \/ MaintainDelete(k) \/ MaintainReturn(k)

\* What the rehearsal does.
RehearsalStep ==
    \/ RehearseMkdir \/ RehearseMark \/ MeasureBefore \/ Backup \/ DryRun
    \/ MeasureAfter \/ Verify \/ WritePlan \/ Unmark \/ RehearseFails

\* Every step is one of theirs.
LEMMA Steps ==
    ASSUME RetentionNext
    PROVE  AppStep \/ (\E k \in Keeper : KeeperStep(k)) \/ RehearsalStep
BY DEF RetentionNext, AppStep, KeeperStep, RehearsalStep

\* Tags name runs and incarnations, the sets that are planned name runs.
LEMMA TagTypes ==
    ASSUME RetTypes
    PROVE  /\ \A rs \in SUBSET Run : Tagged(rs) \subseteq Run \X Nat
           /\ \A rs : Newest(rs) \subseteq Run
           /\ \A rs, cutoff, keep : Candidates(rs, cutoff, keep) \subseteq Run
BY DEF RetTypes, Table, RunRow, Tagged, Newest, Candidates, Terminal

\* The applications keep the types, and leave maintenance and rehearsal alone.
LEMMA AppTypes ==
    ASSUME RetTypes, AppStep
    PROVE  RetTypes' /\ UNCHANGED <<jobs, reh, dir>>
<1>. USE CommittedType DEF RetTypes
<1>1. ASSUME NEW r \in Run, DeleteFinished(r) PROVE RetTypes' /\ UNCHANGED <<jobs, reh, dir>>
  BY <1>1, CommitMoves DEF DeleteFinished, Table, RunRow
<1>2. ASSUME NEW r \in Run, NEW status \in {"open", "terminal"}, WriteRun(r, status)
      PROVE  RetTypes' /\ UNCHANGED <<jobs, reh, dir>>
  <2>1. [status |-> status, at |-> now,
         born |-> IF Present(r) THEN runs[r].born ELSE runs[r].born + 1] \in RunRow
    BY DEF Table, RunRow
  <2>. QED  BY <1>2, <2>1, CommitMoves DEF WriteRun, Table
<1>3. CASE Checkpoint
  BY <1>3 DEF Checkpoint
<1>4. CASE Tick
  BY <1>4 DEF Tick
<1>. QED  BY <1>1, <1>2, <1>3, <1>4 DEF AppStep

\* The fields of a job that a step sets.
LEMMA JobFields ==
    ASSUME NEW job \in Job, NEW cutoff \in Int, NEW tags \in SUBSET (Run \X Nat)
    PROVE  /\ NoJob \in Job
           /\ [job EXCEPT !.pc = "keep", !.cutoff = cutoff] \in Job
           /\ [job EXCEPT !.pc = "select", !.keep = tags] \in Job
           /\ [job EXCEPT !.pc = "delete", !.todo = tags] \in Job
           /\ [job EXCEPT !.todo = tags] \in Job
<1>1. NoJob \in Job
  BY DEF NoJob, Job
<1>2. [job EXCEPT !.pc = "keep", !.cutoff = cutoff] \in Job
  BY DEF Job
<1>3. [job EXCEPT !.pc = "select", !.keep = tags] \in Job
  BY DEF Job
<1>4. [job EXCEPT !.pc = "delete", !.todo = tags] \in Job
  BY DEF Job
<1>5. [job EXCEPT !.todo = tags] \in Job
  BY DEF Job
<1>. QED  BY <1>1, <1>2, <1>3, <1>4, <1>5

\* A keeper's new job is its own.
LEMMA JobMoves ==
    ASSUME RetTypes, NEW k \in Keeper, NEW job \in Job, jobs' = [jobs EXCEPT ![k] = job]
    PROVE  jobs' \in [Keeper -> Job] /\ \A j \in Keeper \ {k} : jobs'[j] = jobs[j]
BY DEF RetTypes

\* A keeper keeps the types, and leaves the clock and the rehearsal alone.
LEMMA KeeperTypes ==
    ASSUME RetTypes, NEW k \in Keeper, KeeperStep(k)
    PROVE  /\ RetTypes' /\ UNCHANGED <<now, reh, dir>>
           /\ \A j \in Keeper \ {k} : jobs'[j] = jobs[j]
<1>. USE DEF RetTypes
<1>0. UNCHANGED <<now, reh, dir>>
  BY DEF KeeperStep, MaintainCutoff, MaintainKeep, MaintainSelect, MaintainDelete, MaintainReturn
<1>1. /\ jobs[k] \in Job /\ NoJob \in Job
      /\ jobs[k].todo \subseteq Run \X Nat /\ jobs[k].cutoff \in Int
  BY DEF Job, NoJob
<1>2. CASE MaintainCutoff(k)
  <2>1. PICK cutoff \in Int : cutoff = now - Age
    BY RetentionBoundsAssumption
  <2>2. jobs' = [jobs EXCEPT ![k] = [jobs[k] EXCEPT !.pc = "keep", !.cutoff = cutoff]]
    BY <1>2, <2>1 DEF MaintainCutoff
  <2>3. [jobs[k] EXCEPT !.pc = "keep", !.cutoff = cutoff] \in Job
    BY <1>1, JobFields
  <2>. QED  BY <1>0, <1>2, <2>2, <2>3, JobMoves DEF MaintainCutoff
<1>3. CASE MaintainKeep(k)
  <2>1. PICK keep \in SUBSET (Run \X Nat) : keep = Tagged(Newest(runs))
    BY TagTypes
  <2>2. jobs' = [jobs EXCEPT ![k] = [jobs[k] EXCEPT !.pc = "select", !.keep = keep]]
    BY <1>3, <2>1 DEF MaintainKeep
  <2>3. [jobs[k] EXCEPT !.pc = "select", !.keep = keep] \in Job
    BY <1>1, JobFields
  <2>. QED  BY <1>3, <2>2, <2>3, JobMoves DEF MaintainKeep
<1>4. CASE MaintainSelect(k)
  <2>1. PICK keep : jobs' = [jobs EXCEPT ![k].pc = "delete",
                                 ![k].todo = Tagged(Candidates(runs, jobs[k].cutoff, keep))]
    BY <1>4 DEF MaintainSelect
  <2>2. PICK todo \in SUBSET (Run \X Nat) : todo = Tagged(Candidates(runs, jobs[k].cutoff, keep))
    BY TagTypes
  <2>3. [jobs[k] EXCEPT !.pc = "delete", !.todo = todo] \in Job
    BY <1>1, JobFields
  <2>4. jobs' = [jobs EXCEPT ![k] = [jobs[k] EXCEPT !.pc = "delete", !.todo = todo]]
    BY <2>1, <2>2
  <2>5. UNCHANGED <<runs, files>>
    BY <1>4 DEF MaintainSelect
  <2>6. jobs' \in [Keeper -> Job] /\ \A j \in Keeper \ {k} : jobs'[j] = jobs[j]
    BY <2>3, <2>4, JobMoves
  <2>. QED  BY <1>0, <2>5, <2>6
<1>5. CASE MaintainDelete(k)
  <2>1. PICK item \in jobs[k].todo :
             IF Present(item[1])
             THEN /\ jobs' = [jobs EXCEPT ![k].todo = @ \ {item}]
                  /\ runs' = [runs EXCEPT ![item[1]].status = "absent"]
                  /\ Commit
             ELSE jobs' = [jobs EXCEPT ![k] = NoJob] /\ UNCHANGED <<runs, files>>
    BY <1>5 DEF MaintainDelete
  <2>2. item[1] \in Run
    BY <1>1, <2>1
  <2>3. CASE Present(item[1])
    <3>1. jobs' = [jobs EXCEPT ![k].todo = jobs[k].todo \ {item}]
      BY <2>1, <2>3
    <3>2. [jobs[k] EXCEPT !.todo = jobs[k].todo \ {item}] \in Job
      <4>1. PICK todo \in SUBSET (Run \X Nat) : todo = jobs[k].todo \ {item}
        BY <1>1
      <4>2. [jobs[k] EXCEPT !.todo = todo] \in Job
        BY <1>1, JobFields
      <4>. QED  BY <4>1, <4>2
    <3>3. jobs' = [jobs EXCEPT ![k] = [jobs[k] EXCEPT !.todo = jobs[k].todo \ {item}]]
      BY <3>1
    <3>4. jobs' \in [Keeper -> Job] /\ \A j \in Keeper \ {k} : jobs'[j] = jobs[j]
      BY <3>2, <3>3, JobMoves
    <3>5. PICK r \in Run : r = item[1]
      BY <2>2
    <3>6. runs' = [runs EXCEPT ![r].status = "absent"]
      BY <2>1, <2>3, <3>5
    <3>7. runs' \in Table
      BY <3>6 DEF Table, RunRow
    <3>8. files' \in [main : Nat, wal : Nat \cup {NoLog}]
      BY <2>1, <2>3, CommitMoves
    <3>. QED  BY <1>0, <3>4, <3>7, <3>8
  <2>4. CASE ~ Present(item[1])
    BY <1>1, <1>5, <2>1, <2>4 DEF MaintainDelete
  <2>. QED  BY <2>3, <2>4
<1>6. CASE MaintainReturn(k)
  BY <1>1, <1>6, CommitMoves DEF MaintainReturn
<1>. QED  BY <1>2, <1>3, <1>4, <1>5, <1>6 DEF KeeperStep

\* The rehearsal keeps the types, and leaves everybody else's state alone but
\* for an empty log.
LEMMA RehearsalTypes ==
    ASSUME RetTypes, RehearsalStep
    PROVE  /\ RetTypes' /\ UNCHANGED <<now, runs, jobs>>
           /\ files.wal # NoLog => files'.wal = files.wal
<1>. USE DEF RetTypes
<1>0. NoFiles \in Measure /\ [r \in Run |-> NoRun] \in Table
  BY DEF NoFiles, Measure, Table, NoRun, RunRow, NoLog
<1>1. CASE RehearseMkdir
  BY <1>1 DEF RehearseMkdir, Rehearsal
<1>2. CASE RehearseMark
  BY <1>2 DEF RehearseMark, Rehearsal
<1>3. CASE MeasureBefore
  <2>1. CASE reh.pc = "before_main"
    <3>1. PICK m \in Measure : m = [reh.before EXCEPT !.main = files.main]
      BY DEF Rehearsal, Measure
    <3>2. reh' = [reh EXCEPT !.pc = "before_wal", !.before = m]
      BY <1>3, <2>1, <3>1 DEF MeasureBefore
    <3>. QED  BY <1>3, <3>2 DEF MeasureBefore, Rehearsal
  <2>2. CASE reh.pc = "before_wal"
    <3>1. PICK m \in Measure : m = [reh.before EXCEPT !.wal = files.wal]
      BY DEF Rehearsal, Measure
    <3>2. reh' = [reh EXCEPT !.pc = "backup", !.before = m]
      BY <1>3, <2>2, <3>1 DEF MeasureBefore
    <3>. QED  BY <1>3, <3>2 DEF MeasureBefore, Rehearsal
  <2>. QED  BY <1>3, <2>1, <2>2 DEF MeasureBefore
<1>4. CASE Backup
  BY <1>4 DEF Backup, Rehearsal, NoLog
<1>5. CASE DryRun
  <2>1. PICK plan \in SUBSET Run :
             plan = Candidates(reh.snapshot, now - Age, Newest(reh.snapshot))
    BY TagTypes
  <2>2. now - Age \in Int
    BY RetentionBoundsAssumption
  <2>3. PICK cutoff \in Int : cutoff = now - Age
    BY <2>2
  <2>4. reh' = [reh EXCEPT !.pc = "after_main", !.cutoff = cutoff,
                   !.snapshot = [r \in Run |-> NoRun], !.plan = plan]
    BY <1>5, <2>1, <2>3 DEF DryRun, NoRehearsal
  <2>5. reh' \in Rehearsal
    BY <1>0, <2>4 DEF Rehearsal
  <2>. QED  BY <1>5, <2>5 DEF DryRun
<1>6. CASE MeasureAfter
  <2>1. CASE reh.pc = "after_main"
    <3>1. PICK m \in Measure : m = [reh.after EXCEPT !.main = files.main]
      BY DEF Rehearsal, Measure
    <3>2. reh' = [reh EXCEPT !.pc = "after_wal", !.after = m, !.then = runs]
      BY <1>6, <2>1, <3>1 DEF MeasureAfter
    <3>. QED  BY <1>6, <3>2 DEF MeasureAfter, Rehearsal
  <2>2. CASE reh.pc = "after_wal"
    <3>1. PICK m \in Measure : m = [reh.after EXCEPT !.wal = files.wal]
      BY DEF Rehearsal, Measure
    <3>2. reh' = [reh EXCEPT !.pc = "verify", !.after = m]
      BY <1>6, <2>2, <3>1 DEF MeasureAfter
    <3>. QED  BY <1>6, <3>2 DEF MeasureAfter, Rehearsal
  <2>. QED  BY <1>6, <2>1, <2>2 DEF MeasureAfter
<1>7. CASE Verify
  BY <1>0, <1>7 DEF Verify, Rehearsal
<1>8. CASE WritePlan
  BY <1>8 DEF WritePlan, Rehearsal
<1>9. CASE Unmark
  BY <1>9 DEF Unmark, Rehearsal
<1>10. CASE RehearseFails
  <2>1. reh' \in Rehearsal
    BY <1>0, <1>10, 0 \in Int DEF RehearseFails, NoRehearsal, Rehearsal
  <2>. QED  BY <1>10, <2>1 DEF RehearseFails, LeftBehind
<1>. QED  BY <1>1, <1>2, <1>3, <1>4, <1>5, <1>6, <1>7, <1>8, <1>9, <1>10 DEF RehearsalStep

\* What every step does to the log, when connections do not truncate it: every
\* change of the table shows.
LogStep ==
    /\ files'.wal \in Nat /\ files'.wal >= files.wal
    /\ runs' = runs \/ files'.wal > files.wal

\* The applications' commits, checkpoints and deletions do.
LEMMA LogMoves ==
    ASSUME RetTypes, ~ Truncates, files.wal \in Nat, [RetentionNext]_retVars
    PROVE  LogStep
<1>. USE DEF LogStep
<1>1. CASE AppStep
  <2>1. CASE Commit
    BY <2>1, CommitMoves
  <2>2. CASE Checkpoint \/ Tick
    BY <2>2 DEF Checkpoint, Tick, RetTypes
  <2>. QED  BY <1>1, <2>1, <2>2 DEF AppStep, DeleteFinished, WriteRun
<1>2. ASSUME NEW k \in Keeper, KeeperStep(k) PROVE LogStep
  <2>1. CASE Commit
    BY <2>1, CommitMoves
  <2>2. CASE ~ Commit
    <3>1. runs' = runs /\ files' = files
      BY <1>2, <2>2 DEF KeeperStep, MaintainCutoff, MaintainKeep, MaintainSelect, MaintainDelete,
                        MaintainReturn
    <3>. QED  BY <3>1
  <2>. QED  BY <2>1, <2>2
<1>3. CASE RehearsalStep
  BY <1>3, RehearsalTypes DEF NoLog
<1>4. CASE UNCHANGED retVars
  BY <1>4 DEF retVars
<1>. QED  BY <1>1, <1>2, <1>3, <1>4, Steps

\* What every step does to a row: nothing, or it deletes the run, or it writes
\* an open run or creates one.
RowStep ==
    /\ now' >= now
    /\ \A r \in Run :
          \/ runs'[r] = runs[r]
          \/ runs'[r].status = "absent" /\ runs'[r].born = runs[r].born
          \/ /\ runs[r].status # "terminal" /\ runs'[r].at = now
             /\ runs'[r].born = IF Present(r) THEN runs[r].born ELSE runs[r].born + 1

\* Nobody writes a finished run, and nobody forgets an incarnation.
LEMMA RowMoves == ASSUME RetTypes, [RetentionNext]_retVars PROVE RowStep
<1>. USE DEF RowStep
<1>1. CASE AppStep
  <2>1. ASSUME NEW r \in Run, DeleteFinished(r) PROVE RowStep
    BY <2>1 DEF DeleteFinished, RetTypes, Table, RunRow
  <2>2. ASSUME NEW r \in Run, NEW status \in {"open", "terminal"}, WriteRun(r, status) PROVE RowStep
    BY <2>2 DEF WriteRun, RetTypes, Table, RunRow
  <2>3. CASE Checkpoint \/ Tick
    BY <2>3 DEF Checkpoint, Tick, RetTypes
  <2>. QED  BY <1>1, <2>1, <2>2, <2>3 DEF AppStep
<1>2. ASSUME NEW k \in Keeper, KeeperStep(k) PROVE RowStep
  <2>1. now' = now
    BY <1>2, KeeperTypes
  <2>2. runs' = runs \/ \E t \in jobs[k].todo : runs' = [runs EXCEPT ![t[1]].status = "absent"]
    BY <1>2 DEF KeeperStep, MaintainCutoff, MaintainKeep, MaintainSelect, MaintainDelete,
                MaintainReturn
  <2>3. ASSUME NEW t \in jobs[k].todo, runs' = [runs EXCEPT ![t[1]].status = "absent"]
        PROVE  \A r \in Run : \/ runs'[r] = runs[r]
                              \/ runs'[r].status = "absent" /\ runs'[r].born = runs[r].born
    BY <2>3 DEF RetTypes, Table, RunRow
  <2>4. now' >= now
    BY <2>1 DEF RetTypes
  <2>. QED  BY <2>2, <2>3, <2>4
<1>3. CASE RehearsalStep \/ UNCHANGED retVars
  BY <1>3, RehearsalTypes DEF retVars, RetTypes
<1>. QED  BY <1>1, <1>2, <1>3, Steps

-----------------------------------------------------------------------------
(* The rehearsal.                                                          *)

\* A measurement is kept beside what was measured before.
LEMMA MeasureMoves ==
    ASSUME RetTypes, MeasureBefore \/ MeasureAfter
    PROVE  /\ dir' = dir
           /\ \/ reh.pc = "before_main" /\ reh'.pc = "before_wal"
              \/ reh.pc = "before_wal" /\ reh'.pc = "backup" /\ reh'.before.wal = files.wal
              \/ reh.pc = "after_main" /\ reh'.pc = "after_wal"
              \/ /\ reh.pc = "after_wal" /\ reh'.pc = "verify" /\ reh'.after.wal = files.wal
                 /\ reh'.before = reh.before /\ reh'.then = reh.then
                 /\ reh'.plan = reh.plan /\ reh'.cutoff = reh.cutoff
<1>. USE DEF RetTypes, Rehearsal, MeasureBefore, MeasureAfter
<1>1. CASE reh.pc \in {"before_main", "after_main"}
  BY <1>1
<1>2. CASE reh.pc = "before_wal"
  <2>1. PICK m : m = [reh.before EXCEPT !.wal = files.wal]
    OBVIOUS
  <2>2. m.wal = files.wal
    BY <2>1 DEF Measure
  <2>3. reh' = [reh EXCEPT !.pc = "backup", !.before = m]
    BY <1>2, <2>1
  <2>. QED  BY <1>2, <2>2, <2>3
<1>3. CASE reh.pc = "after_wal"
  <2>1. PICK m : m = [reh.after EXCEPT !.wal = files.wal]
    OBVIOUS
  <2>2. m.wal = files.wal
    BY <2>1 DEF Measure
  <2>3. reh' = [reh EXCEPT !.pc = "verify", !.after = m]
    BY <1>3, <2>1
  <2>. QED  BY <1>3, <2>2, <2>3
<1>. QED  BY <1>1, <1>2, <1>3

\* The directory keeps pace with the rehearsal, also when it fails.
LEMMA DirKept == ASSUME RetTypes, DirInv, [RetentionNext]_retVars PROVE DirInv'
<1>1. CASE AppStep \/ (\E k \in Keeper : KeeperStep(k)) \/ UNCHANGED retVars
  <2>1. reh' = reh /\ dir' = dir
    BY <1>1, AppTypes, KeeperTypes DEF retVars
  <2>. QED  BY <2>1 DEF DirInv
<1>2. CASE RehearsalStep
  <2>. USE DEF DirInv, RetTypes, Rehearsal
  <2>1. CASE RehearseMkdir \/ RehearseMark
    BY <2>1 DEF RehearseMkdir, RehearseMark
  <2>2. CASE MeasureBefore \/ MeasureAfter
    <3>1. /\ reh.pc \in {"before_main", "before_wal", "after_main", "after_wal"}
          /\ reh'.pc \in {"before_wal", "backup", "after_wal", "verify"}
          /\ dir' = dir
      BY <2>2, MeasureMoves
    <3>. QED  BY <3>1
  <2>3. CASE Backup
    BY <2>3 DEF Backup
  <2>4. CASE DryRun
    <3>1. reh.pc = "plan" /\ reh'.pc = "after_main" /\ dir' = dir
      BY <2>4 DEF DryRun
    <3>. QED  BY <3>1
  <2>5. CASE Verify
    BY <2>5 DEF Verify
  <2>6. CASE WritePlan
    BY <2>6 DEF WritePlan
  <2>7. CASE Unmark
    BY <2>7 DEF Unmark
  <2>8. CASE RehearseFails
    BY <2>8 DEF RehearseFails, LeftBehind, NoRehearsal
  <2>. QED  BY <1>2, <2>1, <2>2, <2>3, <2>4, <2>5, <2>6, <2>7, <2>8 DEF RehearsalStep
<1>. QED  BY <1>1, <1>2, Steps

\* While others step, the log tells whether the table is still the one copied.
LEMMA LiveByOthers ==
    ASSUME RetTypes, LiveInv, ~ Truncates, LogStep, reh' = reh
    PROVE  LiveInv'
<1>1. reh.before.wal \in Int /\ files.wal \in Nat /\ files'.wal \in Nat
      /\ files'.wal >= files.wal
  BY DEF RetTypes, Rehearsal, Measure, NoLog, LiveInv, LogStep
<1>2. ASSUME reh.pc \in {"backup", "plan", "after_main", "after_wal"}
      PROVE  /\ reh.before.wal <= files'.wal
             /\ reh.before.wal = files'.wal => reh.before.wal = files.wal /\ runs' = runs
  <2>1. reh.before.wal <= files.wal
    BY <1>2 DEF LiveInv
  <2>. QED  BY <1>1, <2>1 DEF LogStep
<1>. QED  BY <1>1, <1>2 DEF LiveInv, PlanOf

\* The rehearsal compares the logs around its copy and its second measurement.
LEMMA LiveByRehearsal ==
    ASSUME RetTypes, LiveInv, ~ Truncates, RehearsalStep
    PROVE  LiveInv'
<1>. USE DEF RetTypes, Rehearsal
<1>0. files.wal \in Nat /\ files'.wal = files.wal /\ runs' = runs
  BY RehearsalTypes DEF LiveInv, NoLog
<1>1. CASE RehearseMkdir \/ RehearseMark
  BY <1>0, <1>1 DEF RehearseMkdir, RehearseMark, LiveInv
<1>2. CASE MeasureBefore
  <2>1. CASE reh.pc = "before_main"
    <3>1. reh'.pc = "before_wal"
      BY <1>2, <2>1 DEF MeasureBefore
    <3>. QED  BY <1>0, <3>1 DEF LiveInv
  <2>2. CASE reh.pc = "before_wal"
    <3>1. reh'.pc = "backup" /\ reh'.before.wal = files.wal
      BY <1>2, <2>2, MeasureMoves
    <3>. QED  BY <1>0, <3>1 DEF LiveInv
  <2>. QED  BY <1>2, <2>1, <2>2 DEF MeasureBefore
<1>3. CASE Backup
  <2>1. reh.pc = "backup" /\ reh'.pc = "plan" /\ reh'.before = reh.before /\ reh'.snapshot = runs
    BY <1>3 DEF Backup
  <2>. QED  BY <1>0, <2>1 DEF LiveInv
<1>4. CASE DryRun
  <2>1. /\ reh.pc = "plan" /\ reh'.pc = "after_main" /\ reh'.before = reh.before
        /\ reh'.cutoff = now - Age
        /\ reh'.plan = Candidates(reh.snapshot, now - Age, Newest(reh.snapshot))
    BY <1>4 DEF DryRun
  <2>2. reh.before.wal = files.wal => reh'.plan = PlanOf(runs)'
    BY <1>0, <2>1 DEF LiveInv, PlanOf
  <2>. QED  BY <1>0, <2>1, <2>2 DEF LiveInv
<1>5. CASE MeasureAfter
  <2>1. CASE reh.pc = "after_main"
    <3>1. /\ reh'.pc = "after_wal" /\ reh'.before = reh.before /\ reh'.then = runs
          /\ reh'.plan = reh.plan /\ reh'.cutoff = reh.cutoff
      BY <1>5, <2>1 DEF MeasureAfter
    <3>. QED  BY <1>0, <2>1, <3>1 DEF LiveInv, PlanOf
  <2>2. CASE reh.pc = "after_wal"
    <3>1. /\ reh'.pc = "verify" /\ reh'.before = reh.before /\ reh'.then = reh.then
          /\ reh'.plan = reh.plan /\ reh'.cutoff = reh.cutoff /\ reh'.after.wal = files.wal
      BY <1>5, <2>2, MeasureMoves
    <3>. QED  BY <1>0, <2>2, <3>1 DEF LiveInv, PlanOf
  <2>. QED  BY <1>5, <2>1, <2>2 DEF MeasureAfter
<1>6. CASE Verify
  <2>1. /\ reh.pc = "verify" /\ reh'.pc = "write" /\ reh.before = reh.after
        /\ reh'.then = reh.then /\ reh'.plan = reh.plan /\ reh'.cutoff = reh.cutoff
    BY <1>6 DEF Verify, SameSource
  <2>. QED  BY <1>0, <2>1 DEF LiveInv, PlanOf
<1>7. CASE WritePlan \/ Unmark
  <2>1. /\ reh.pc \in {"write", "unmark"} /\ reh'.pc \in {"write", "unmark", "done"}
        /\ reh'.then = reh.then /\ reh'.plan = reh.plan /\ reh'.cutoff = reh.cutoff
    BY <1>7 DEF WritePlan, Unmark
  <2>. QED  BY <1>0, <2>1 DEF LiveInv, PlanOf
<1>8. CASE RehearseFails
  <2>1. reh'.pc = "failed"
    BY <1>8 DEF RehearseFails, NoRehearsal
  <2>. QED  BY <1>0, <2>1 DEF LiveInv
<1>. QED  BY <1>1, <1>2, <1>3, <1>4, <1>5, <1>6, <1>7, <1>8 DEF RehearsalStep

\* Together: what passed its checks was planned for the live table.
LEMMA LiveKept == ASSUME RetTypes, LiveInv, [RetentionNext]_retVars PROVE LiveInv'
<1>1. CASE Truncates
  BY <1>1 DEF LiveInv
<1>2. CASE ~ Truncates
  <2>1. LogStep
    BY <1>2, LogMoves DEF LiveInv
  <2>2. CASE RehearsalStep
    BY <1>2, <2>2, LiveByRehearsal
  <2>3. CASE AppStep \/ (\E k \in Keeper : KeeperStep(k)) \/ UNCHANGED retVars
    <3>1. reh' = reh
      BY <2>3, AppTypes, KeeperTypes DEF retVars
    <3>. QED  BY <1>2, <2>1, <3>1, LiveByOthers
  <2>. QED  BY <2>2, <2>3, Steps
<1>. QED  BY <1>1, <1>2

-----------------------------------------------------------------------------
(* The order of a table's runs.                                            *)

\* Newer orders the runs of a table strictly and totally, by time and id.
LEMMA NewerOrders ==
    ASSUME NEW rs \in Table, NEW r \in Run, NEW s \in Run, NEW u \in Run
    PROVE  /\ ~ Newer(rs, r, r)
           /\ Newer(rs, r, s) /\ Newer(rs, s, u) => Newer(rs, r, u)
           /\ r = s \/ Newer(rs, r, s) \/ Newer(rs, s, r)
<1>1. r \in Nat /\ s \in Nat /\ u \in Nat
  BY RunAssumption
<1>2. rs[r].at \in Nat /\ rs[s].at \in Nat /\ rs[u].at \in Nat
  BY DEF Table, RunRow
<1>. QED  BY <1>1, <1>2 DEF Newer

\* The finished runs newer than r.
Above(rs, r) == {s \in Terminal(rs) : Newer(rs, s, r)}

\* In a nonempty family of subsets of a finite set one has none of the others
\* below it.
LEMMA LeastSet ==
    ASSUME NEW T, IsFiniteSet(T), NEW Q, Q \subseteq SUBSET T, Q # {}
    PROVE  \E x \in Q : \A y \in Q : y \subseteq x => y = x
<1>1. IsWellFoundedOn(StrictSubsetOrdering(T), SUBSET T)
  BY FS_StrictSubsetOrderingWellFounded, FS_FiniteSubsetsOfFinite
<1>2. PICK x \in Q : \A y \in Q : <<y, x>> \notin StrictSubsetOrdering(T)
  BY <1>1, WFMin
<1>. QED  BY <1>2 DEF StrictSubsetOrdering

\* A finished run that is not among the newest has KeepLast of the newest above
\* it: the lowest run with so many above it has none but the newest there.
LEMMA NewestAbove ==
    ASSUME NEW rs \in Table, IsFiniteSet(Terminal(rs)),
           NEW r \in Terminal(rs), r \notin Newest(rs)
    PROVE  Cardinality({s \in Newest(rs) : Newer(rs, s, r)}) >= KeepLast
<1>. DEFINE T == Terminal(rs)
            Q == {Above(rs, s) : s \in T \ Newest(rs)}
<1>1. T \subseteq Run /\ \A s \in T : Above(rs, s) \subseteq T
  BY DEF Terminal, Above
<1>2. \A s \in T : IsFiniteSet(Above(rs, s)) /\ Cardinality(Above(rs, s)) \in Nat
  BY <1>1, FS_Subset, FS_CardinalityType
<1>3. \A s \in T : s \in Newest(rs) <=> Cardinality(Above(rs, s)) < KeepLast
  BY DEF Newest, Above
<1>4. Q \subseteq SUBSET T /\ Q # {}
  BY <1>1
<1>5. PICK m \in T \ Newest(rs) : \A s \in T \ Newest(rs) :
           Above(rs, s) \subseteq Above(rs, m) => Above(rs, s) = Above(rs, m)
  <2>1. PICK x \in Q : \A y \in Q : y \subseteq x => y = x
    <3>. HIDE DEF Q, T
    <3>. QED  BY <1>4, LeastSet DEF T
  <2>. QED  BY <2>1
<1>6. \A s \in Above(rs, m) : s \in Newest(rs)
  <2>1. SUFFICES ASSUME NEW s \in Above(rs, m), s \notin Newest(rs) PROVE FALSE
    OBVIOUS
  <2>2. s \in T /\ Newer(rs, s, m) /\ s \in Run /\ m \in Run
    BY <1>1, <2>1 DEF Above
  <2>3. Above(rs, s) \subseteq Above(rs, m)
    BY <1>1, <2>2, NewerOrders DEF Above
  <2>4. s \notin Above(rs, s)
    BY <2>2, NewerOrders DEF Above
  <2>. QED  BY <1>5, <2>1, <2>2, <2>3, <2>4
<1>7. Above(rs, m) \subseteq Above(rs, r)
  <2>1. CASE m = r
    BY <2>1
  <2>2. CASE Newer(rs, m, r)
    BY <1>1, <2>2, NewerOrders DEF Above
  <2>3. CASE Newer(rs, r, m)
    BY <1>6, <2>3 DEF Above
  <2>. QED  BY <1>1, <2>1, <2>2, <2>3, NewerOrders
<1>8. Above(rs, m) \subseteq {s \in Newest(rs) : Newer(rs, s, r)}
  BY <1>6, <1>7 DEF Above
<1>9. /\ IsFiniteSet({s \in Newest(rs) : Newer(rs, s, r)})
      /\ Cardinality({s \in Newest(rs) : Newer(rs, s, r)}) \in Nat
  <2>1. {s \in Newest(rs) : Newer(rs, s, r)} \subseteq T
    BY DEF Newest
  <2>. QED  BY <2>1, FS_Subset, FS_CardinalityType
<1>10. Cardinality(Above(rs, m)) <= Cardinality({s \in Newest(rs) : Newer(rs, s, r)})
  BY <1>8, <1>9, FS_Subset
<1>11. Cardinality(Above(rs, m)) >= KeepLast
  BY <1>2, <1>3, RetentionBoundsAssumption
<1>. QED  BY <1>2, <1>9, <1>10, <1>11, RetentionBoundsAssumption

-----------------------------------------------------------------------------
(* The keepers.                                                            *)

\* A run that is written has not been tagged, and a tag outlives its run.
LEMMA HeldKept ==
    ASSUME RetTypes, RetTypes', RowStep, NEW t \in Run \X Nat, Held(t)
    PROVE  /\ Held(t)'
           /\ Present(t[1])' /\ runs'[t[1]].born = t[2] => runs'[t[1]] = runs[t[1]]
<1>1. PICK r \in Run : r = t[1]
  OBVIOUS
<1>2. t[2] \in Nat /\ runs[r] \in RunRow /\ runs'[r] \in RunRow
  BY DEF RetTypes, Table
<1>3. CASE runs'[r] = runs[r]
  BY <1>1, <1>3 DEF Held, Present
<1>4. CASE runs'[r].status = "absent" /\ runs'[r].born = runs[r].born
  BY <1>1, <1>4 DEF Held, Present
<1>5. CASE /\ runs[r].status # "terminal"
           /\ runs'[r].born = IF Present(r) THEN runs[r].born ELSE runs[r].born + 1
  <2>1. runs[r].born \in Nat /\ runs[r].born >= t[2]
    BY <1>1, <1>2 DEF Held, RunRow
  <2>2. Present(r) => runs[r].born # t[2]
    BY <1>1, <1>5 DEF Held
  <2>3. runs'[r].born > t[2]
    BY <1>2, <1>5, <2>1, <2>2
  <2>. QED  BY <1>1, <1>2, <2>3 DEF Held, RunRow
<1>. QED  BY <1>3, <1>4, <1>5 DEF RowStep

\* What no keeper tagged may change, and what it may not delete stays so: a run
\* written after the cutoff is fixed is younger than it.
LEMMA OldKept ==
    ASSUME RetTypes, RetTypes', RowStep, NEW k \in Keeper, KeeperInv(k), jobs[k].pc # "idle",
           jobs'[k].keep = jobs[k].keep, jobs'[k].cutoff = jobs[k].cutoff,
           Intact(k)', NEW r \in Run, Old(k, r)'
    PROVE  /\ Intact(k) /\ Old(k, r)
           /\ KeptAbove(k, r)' = KeptAbove(k, r)
<1>1. jobs[k].keep \subseteq Run \X Nat
  BY DEF RetTypes, Job
<1>2. \A t \in jobs[k].keep : t \in Run \X Nat /\ Held(t)
  BY <1>1 DEF KeeperInv
<1>3. \A t \in jobs[k].keep : runs'[t[1]] = runs[t[1]]
  <2>1. SUFFICES ASSUME NEW t \in jobs[k].keep PROVE runs'[t[1]] = runs[t[1]]
    OBVIOUS
  <2>2. runs'[t[1]].status = "terminal" /\ runs'[t[1]].born = t[2]
    BY DEF Intact
  <2>. QED  BY <1>2, <2>2, HeldKept DEF Present
<1>4. Intact(k)
  BY <1>3 DEF Intact
<1>5. runs'[r] = runs[r]
  <2>1. runs'[r].status = "terminal" /\ runs'[r].at < jobs[k].cutoff
    BY DEF Old, Terminal
  <2>2. jobs[k].cutoff <= now /\ now \in Nat /\ jobs[k].cutoff \in Int
    BY DEF KeeperInv, RetTypes, Job
  <2>3. runs'[r].at # now
    BY <2>1, <2>2
  <2>. QED  BY <2>1, <2>3 DEF RowStep
<1>6. Ids(k)' = Ids(k)
  BY DEF Ids
<1>7. Old(k, r)
  BY <1>5, <1>6 DEF Old, Terminal
<1>8. \A s \in Ids(k) : runs'[s] = runs[s]
  BY <1>3 DEF Ids
<1>9. KeptAbove(k, r)' = KeptAbove(k, r)
  BY <1>5, <1>6, <1>8 DEF KeptAbove, Newer
<1>. QED  BY <1>4, <1>7, <1>9

\* Whatever happens to the table, a keeper that does not move on, or that only
\* takes a run off its list, keeps its invariant.
LEMMA KeeperUndisturbed ==
    ASSUME RetTypes, RetTypes', RowStep, NEW k \in Keeper, KeeperInv(k),
           jobs'[k].keep = jobs[k].keep, jobs'[k].cutoff = jobs[k].cutoff,
           jobs'[k].pc = jobs[k].pc, jobs'[k].todo \subseteq jobs[k].todo
    PROVE  KeeperInv(k)'
<1>1. jobs[k].keep \subseteq Run \X Nat /\ jobs[k].todo \subseteq Run \X Nat
      /\ jobs[k].cutoff \in Int /\ now \in Nat /\ now' \in Nat
  BY DEF RetTypes, Job
<1>2. jobs'[k].pc # "idle" => jobs'[k].cutoff <= now'
  BY <1>1 DEF KeeperInv, RowStep
<1>3. jobs'[k].pc # "delete" => jobs'[k].todo = {}
  BY DEF KeeperInv
<1>4. \A t \in jobs'[k].keep : Held(t)'
  BY <1>1, HeldKept DEF KeeperInv
<1>5. Ids(k)' = Ids(k)
  BY DEF Ids
<1>6. ASSUME NEW t \in jobs'[k].todo
      PROVE  /\ Held(t)' /\ t[1] \notin Ids(k)'
             /\ Present(t[1])' /\ runs'[t[1]].born = t[2] => runs'[t[1]].at < jobs'[k].cutoff
  <2>1. t \in Run \X Nat /\ Held(t) /\ t[1] \notin Ids(k)
    BY <1>1 DEF KeeperInv
  <2>2. Held(t)'
    BY <2>1, HeldKept
  <2>3. ASSUME Present(t[1])', runs'[t[1]].born = t[2]
        PROVE  runs'[t[1]].at < jobs'[k].cutoff
    <3>1. runs'[t[1]] = runs[t[1]]
      BY <2>1, <2>3, HeldKept
    <3>2. Present(t[1]) /\ runs[t[1]].born = t[2]
      BY <2>3, <3>1 DEF Present
    <3>. QED  BY <3>1, <3>2 DEF KeeperInv
  <2>. QED  BY <1>5, <2>1, <2>2, <2>3
<1>7. ASSUME jobs'[k].pc \in {"select", "delete"}, Intact(k)', NEW r \in Run, Old(k, r)'
      PROVE  Cardinality(KeptAbove(k, r)') >= KeepLast
  BY <1>7, OldKept DEF KeeperInv
<1>8. (\A r \in Run : Old(k, r) => Cardinality(KeptAbove(k, r)) >= KeepLast)'
      \/ ~ (jobs'[k].pc \in {"select", "delete"} /\ Intact(k)')
  BY <1>7
<1>. QED  BY <1>2, <1>3, <1>4, <1>6, <1>8 DEF KeeperInv

\* A tag names the incarnation that is there.
LEMMA TaggedRuns ==
    ASSUME RetTypes, NEW rs, rs \subseteq Run
    PROVE  /\ \A t \in Tagged(rs) : t[1] \in rs /\ runs[t[1]].born = t[2]
           /\ {t[1] : t \in Tagged(rs)} = rs
<1>1. \A t \in Tagged(rs) : t[1] \in rs /\ runs[t[1]].born = t[2]
  BY DEF Tagged
<1>2. ASSUME NEW r \in rs PROVE r \in {t[1] : t \in Tagged(rs)}
  <2>1. <<r, runs[r].born>> \in Tagged(rs)
    BY DEF Tagged
  <2>. QED  BY <2>1
<1>. QED  BY <1>1, <1>2

\* The call begins; what it keeps and selects is what it reads.
LEMMA KeeperAdvances ==
    ASSUME RetTypes, RetTypes', FinitelyMany, NEW k \in Keeper, KeeperInv(k),
           MaintainCutoff(k) \/ MaintainKeep(k) \/ MaintainSelect(k)
    PROVE  KeeperInv(k)'
<1>0. UNCHANGED <<now, runs>> /\ jobs[k] \in Job /\ now \in Nat /\ runs \in Table
  BY DEF MaintainCutoff, MaintainKeep, MaintainSelect, RetTypes
<1>1. CASE MaintainCutoff(k)
  <2>1. jobs'[k] = [jobs[k] EXCEPT !.pc = "keep", !.cutoff = now - Age]
    BY <1>1 DEF MaintainCutoff, RetTypes
  <2>2. /\ jobs'[k].pc = "keep" /\ jobs'[k].cutoff = now - Age
        /\ jobs'[k].keep = jobs[k].keep /\ jobs'[k].todo = {}
    BY <1>0, <1>1, <2>1 DEF MaintainCutoff, KeeperInv, Job
  <2>3. now - Age <= now
    BY <1>0, RetentionBoundsAssumption
  <2>. QED  BY <1>0, <2>2, <2>3 DEF KeeperInv, Held, Present
<1>2. CASE MaintainKeep(k)
  <2>1. PICK keep : keep = Tagged(Newest(runs))
    OBVIOUS
  <2>2. jobs'[k] = [jobs[k] EXCEPT !.pc = "select", !.keep = keep]
    BY <1>2, <2>1 DEF MaintainKeep, RetTypes
  <2>3. /\ jobs[k].pc = "keep" /\ jobs'[k].pc = "select" /\ jobs'[k].cutoff = jobs[k].cutoff
        /\ jobs'[k].keep = keep /\ jobs'[k].todo = {}
    BY <1>0, <1>2, <2>2 DEF MaintainKeep, KeeperInv, Job
  <2>4. Newest(runs) \subseteq Terminal(runs) /\ Terminal(runs) \subseteq Run
    BY DEF Newest, Terminal
  <2>5. /\ \A t \in keep : t[1] \in Newest(runs) /\ runs[t[1]].born = t[2]
        /\ {t[1] : t \in keep} = Newest(runs)
    BY <2>1, <2>4, TaggedRuns
  <2>6. \A t \in keep : Held(t)'
    BY <1>0, <2>4, <2>5 DEF Held, Terminal, Table, RunRow
  <2>7. ASSUME NEW r \in Run, Old(k, r)' PROVE Cardinality(KeptAbove(k, r)') >= KeepLast
    <3>1. Ids(k)' = Newest(runs)
      BY <2>3, <2>5 DEF Ids
    <3>2. r \in Terminal(runs) /\ r \notin Newest(runs)
      BY <1>0, <2>7, <3>1 DEF Old, Terminal
    <3>3. KeptAbove(k, r)' = {s \in Newest(runs) : Newer(runs, s, r)}
      BY <1>0, <3>1 DEF KeptAbove, Newer
    <3>4. IsFiniteSet(Terminal(runs))
      <4>1. Terminal(runs) \subseteq {q \in Run : Present(q)}
        BY DEF Terminal, Present
      <4>. QED  BY <4>1, FS_Subset DEF FinitelyMany
    <3>. QED  BY <1>0, <3>2, <3>3, <3>4, NewestAbove
  <2>8. jobs'[k].cutoff <= now'
    BY <1>0, <2>3 DEF KeeperInv
  <2>. QED  BY <2>3, <2>6, <2>7, <2>8 DEF KeeperInv
<1>3. CASE MaintainSelect(k)
  <2>1. PICK todo : todo = Tagged(Candidates(runs, jobs[k].cutoff, Ids(k)))
    OBVIOUS
  <2>2. jobs'[k] = [jobs[k] EXCEPT !.pc = "delete", !.todo = todo]
    <3>1. PICK ids : ids = {kept[1] : kept \in jobs[k].keep}
      OBVIOUS
    <3>2. jobs' = [jobs EXCEPT ![k].pc = "delete",
                               ![k].todo = Tagged(Candidates(runs, jobs[k].cutoff, ids))]
      BY <1>3, <3>1 DEF MaintainSelect
    <3>3. ids = Ids(k)
      BY <3>1 DEF Ids
    <3>. QED  BY <2>1, <3>2, <3>3 DEF RetTypes
  <2>3. /\ jobs[k].pc = "select" /\ jobs'[k].pc = "delete" /\ jobs'[k].cutoff = jobs[k].cutoff
        /\ jobs'[k].keep = jobs[k].keep /\ jobs'[k].todo = todo
    <3>1. jobs[k].pc = "select"
      BY <1>3 DEF MaintainSelect
    <3>. QED  BY <1>0, <2>2, <3>1 DEF Job
  <2>4. \A t \in todo : /\ t[1] \in Candidates(runs, jobs[k].cutoff, Ids(k))
                        /\ runs[t[1]].born = t[2]
    <3>1. Candidates(runs, jobs[k].cutoff, Ids(k)) \subseteq Run
      BY TagTypes
    <3>. QED  BY <2>1, <3>1, TaggedRuns
  <2>5. Ids(k)' = Ids(k)
    BY <2>3 DEF Ids
  <2>6. \A t \in todo : /\ Held(t)' /\ t[1] \notin Ids(k)'
                        /\ runs'[t[1]].at < jobs'[k].cutoff
    BY <1>0, <2>3, <2>4, <2>5 DEF Candidates, Terminal, Held, Table, RunRow
  <2>7. \A t \in jobs'[k].keep : Held(t)'
    BY <1>0, <2>3 DEF KeeperInv, Held, Present
  <2>8. Intact(k)' => \A r \in Run : Old(k, r)' => Cardinality(KeptAbove(k, r)') >= KeepLast
    BY <1>0, <2>3, <2>5 DEF KeeperInv, Intact, Old, KeptAbove
  <2>9. jobs'[k].cutoff <= now'
    BY <1>0, <2>3 DEF KeeperInv
  <2>. QED  BY <2>3, <2>6, <2>7, <2>8, <2>9 DEF KeeperInv
<1>. QED  BY <1>1, <1>2, <1>3

\* A keeper that returns, or gives up on a run it does not find, starts afresh.
LEMMA KeeperReturns ==
    ASSUME NEW k \in Keeper, jobs'[k] = NoJob
    PROVE  KeeperInv(k)'
<1>1. jobs'[k].pc = "idle" /\ jobs'[k].keep = {} /\ jobs'[k].todo = {}
  BY DEF NoJob
<1>. QED  BY <1>1 DEF KeeperInv

\* Every step of everybody keeps what the keepers rely on.
LEMMA KeepersKept ==
    ASSUME RetTypes, RetTypes', FinitelyMany, \A k \in Keeper : KeeperInv(k),
           [RetentionNext]_retVars
    PROVE  \A k \in Keeper : KeeperInv(k)'
<1>. SUFFICES ASSUME NEW k \in Keeper PROVE KeeperInv(k)'
  OBVIOUS
<1>1. RowStep
  BY RowMoves
<1>2. CASE jobs'[k] = jobs[k]
  BY <1>1, <1>2, KeeperUndisturbed
<1>3. CASE KeeperStep(k)
  <2>1. CASE MaintainCutoff(k) \/ MaintainKeep(k) \/ MaintainSelect(k)
    BY <2>1, KeeperAdvances
  <2>2. CASE MaintainDelete(k)
    <3>1. PICK item \in jobs[k].todo :
               jobs' = [jobs EXCEPT ![k].todo = @ \ {item}] \/ jobs' = [jobs EXCEPT ![k] = NoJob]
      BY <2>2 DEF MaintainDelete
    <3>2. CASE jobs' = [jobs EXCEPT ![k].todo = @ \ {item}]
      <4>1. /\ jobs'[k].keep = jobs[k].keep /\ jobs'[k].cutoff = jobs[k].cutoff
            /\ jobs'[k].pc = jobs[k].pc /\ jobs'[k].todo \subseteq jobs[k].todo
        BY <3>2 DEF RetTypes, Job
      <4>. QED  BY <1>1, <4>1, KeeperUndisturbed
    <3>3. CASE jobs' = [jobs EXCEPT ![k] = NoJob]
      BY <3>3, KeeperReturns DEF RetTypes
    <3>. QED  BY <3>1, <3>2, <3>3
  <2>3. CASE MaintainReturn(k)
    BY <2>3, KeeperReturns DEF MaintainReturn, RetTypes
  <2>. QED  BY <1>3, <2>1, <2>2, <2>3 DEF KeeperStep
<1>4. CASE AppStep \/ RehearsalStep \/ UNCHANGED retVars \/ \E j \in Keeper \ {k} : KeeperStep(j)
  <2>1. jobs'[k] = jobs[k]
    BY <1>4, AppTypes, RehearsalTypes, KeeperTypes DEF retVars
  <2>. QED  BY <1>2, <2>1
<1>. QED  BY <1>3, <1>4, Steps

\* A step creates one run at most.
LEMMA FiniteKept ==
    ASSUME RetTypes, FinitelyMany, [RetentionNext]_retVars
    PROVE  FinitelyMany'
<1>. DEFINE P == {r \in Run : Present(r)}
<1>1. \E q : {r \in Run : Present(r)'} \subseteq P \cup {q}
  <2>1. CASE AppStep
    <3>1. PICK q : \A r \in Run \ {q} : runs'[r] = runs[r]
      BY <2>1 DEF AppStep, DeleteFinished, WriteRun, Checkpoint, Tick, RetTypes, Table
    <3>. QED  BY <3>1 DEF Present
  <2>2. ASSUME NEW k \in Keeper, KeeperStep(k) PROVE {r \in Run : Present(r)'} \subseteq P
    <3>1. runs' = runs \/ \E t \in jobs[k].todo : runs' = [runs EXCEPT ![t[1]].status = "absent"]
      BY <2>2 DEF KeeperStep, MaintainCutoff, MaintainKeep, MaintainSelect, MaintainDelete,
                  MaintainReturn
    <3>2. ASSUME NEW t \in jobs[k].todo, runs' = [runs EXCEPT ![t[1]].status = "absent"],
                 NEW r \in Run, Present(r)'
          PROVE  Present(r)
      BY <3>2 DEF RetTypes, Table, RunRow, Present
    <3>. QED  BY <3>1, <3>2 DEF Present
  <2>3. CASE RehearsalStep \/ UNCHANGED retVars
    <3>1. runs' = runs
      BY <2>3, RehearsalTypes DEF retVars
    <3>. QED  BY <3>1 DEF Present
  <2>. QED  BY <2>1, <2>2, <2>3, Steps
<1>2. IsFiniteSet(P)
  BY DEF FinitelyMany
<1>3. PICK q : {r \in Run : Present(r)'} \subseteq P \cup {q}
  BY <1>1
<1>. HIDE DEF P
<1>4. IsFiniteSet(P \cup {q})
  BY <1>2, FS_AddElement
<1>. QED  BY <1>3, <1>4, FS_Subset DEF FinitelyMany

-----------------------------------------------------------------------------
(* The invariant, and what it is for.                                      *)

\* There is nothing to keep, plan or delete at first.
LEMMA RetentionInitially == RetentionInit => RetInv
<1>. SUFFICES ASSUME RetentionInit PROVE RetInv
  OBVIOUS
<1>. USE DEF RetentionInit
<1>1. RetTypes
  <2>1. NoRun \in RunRow /\ NoFiles \in Measure /\ NoJob \in Job
    BY DEF NoRun, RunRow, NoFiles, Measure, NoLog, NoJob, Job
  <2>2. reh \in Rehearsal
    BY <2>1, 0 \in Int DEF NoRehearsal, Rehearsal, Table
  <2>. QED  BY <2>1, <2>2 DEF RetTypes, Table, NoDir, NoLog
<1>2. DirInv
  BY DEF DirInv, NoRehearsal, NoDir
<1>3. LiveInv
  BY DEF LiveInv, NoRehearsal
<1>4. FinitelyMany
  <2>1. {r \in Run : Present(r)} = {}
    BY DEF Present, NoRun
  <2>. QED  BY <2>1, FS_EmptySet DEF FinitelyMany
<1>5. \A k \in Keeper : KeeperInv(k)
  BY DEF KeeperInv, NoJob
<1>. QED  BY <1>1, <1>2, <1>3, <1>4, <1>5 DEF RetInv

\* Every step of the applications, the keepers and the rehearsal keeps it.
LEMMA RetentionInduction == RetInv /\ [RetentionNext]_retVars => RetInv'
<1>. SUFFICES ASSUME RetInv, [RetentionNext]_retVars PROVE RetInv'
  OBVIOUS
<1>. USE DEF RetInv
<1>1. RetTypes'
  <2>1. CASE UNCHANGED retVars
    BY <2>1 DEF retVars, RetTypes
  <2>. QED  BY <2>1, Steps, AppTypes, KeeperTypes, RehearsalTypes
<1>2. DirInv' /\ LiveInv' /\ FinitelyMany'
  BY DirKept, LiveKept, FiniteKept
<1>3. \A k \in Keeper : KeeperInv(k)'
  BY <1>1, KeepersKept
<1>. QED  BY <1>1, <1>2, <1>3

\* The invariant of retention holds in every state.
THEOREM RetentionInvariant == RetentionSpec => []RetInv
<1>. QED  BY RetentionInitially, RetentionInduction, PTL DEF RetentionSpec

\* The types of Retention.
THEOREM RetentionTypes == RetentionSpec => []RetentionTypeOK
<1>1. RetInv => RetentionTypeOK
  BY DEF RetInv, RetTypes, RetentionTypeOK, Rehearsal, Table, Job
<1>. QED  BY <1>1, RetentionInvariant, PTL

\* "identities must remain stable" (rehearsal.py): where connections keep the
\* log, a rehearsal that passes its checks planned for the live journal.
THEOREM PlanHoldsLive == ASSUME ~ Truncates PROVE RetentionSpec => []PlanIsLive
<1>1. RetInv => PlanIsLive
  BY DEF RetInv, LiveInv, PlanOf, PlanIsLive
<1>. QED  BY <1>1, RetentionInvariant, PTL

\* "Failures retain .incomplete" (rehearsal.py): a directory with a plan and no
\* marker holds the whole plan of a rehearsal that succeeded.
THEOREM PublishedIsWhole == RetentionSpec => []PublishedWhole
<1>1. RetInv => PublishedWhole
  BY DEF RetInv, RetTypes, Rehearsal, DirInv, PublishedWhole
<1>. QED  BY <1>1, RetentionInvariant, PTL

\* "nonterminal runs are never candidates" (ops_maintenance.mojo): what
\* maintenance selected, and is still the same run when it is deleted, is old
\* and finished.
THEOREM OldTerminalDeleted == RetentionSpec => DeletesOldTerminal
<1>1. RetInv /\ [RetentionNext]_retVars =>
         [\A k \in Keeper, r \in Run : DeletesSelected(k, r) =>
             runs[r].status = "terminal" /\ runs[r].at < jobs[k].cutoff]_retVars
  <2>. SUFFICES ASSUME RetInv, NEW k \in Keeper, NEW r \in Run, DeletesSelected(k, r)
                PROVE  runs[r].status = "terminal" /\ runs[r].at < jobs[k].cutoff
    OBVIOUS
  <2>1. PICK t \in jobs[k].todo : t = <<r, runs[r].born>>
    BY DEF DeletesSelected
  <2>2. t[1] = r /\ t[2] = runs[r].born
    BY <2>1
  <2>3. Present(r)
    BY DEF DeletesSelected
  <2>. QED  BY <2>2, <2>3 DEF RetInv, KeeperInv, Held
<1>. QED  BY <1>1, RetentionInvariant, PTL DEF RetentionSpec, DeletesOldTerminal

\* "preserves the newest N terminal runs" (run_retention): at each deletion N
\* finished runs are newer than the one deleted, unless somebody else deleted
\* what the call kept.
THEOREM NewestKept == RetentionSpec => KeepsNewest
<1>1. RetInv /\ [RetentionNext]_retVars =>
         [\A k \in Keeper, r \in Run :
            /\ DeletesSelected(k, r)
            /\ \A kept \in jobs[k].keep :
                  runs[kept[1]].status = "terminal" /\ runs[kept[1]].born = kept[2]
            => Cardinality({s \in Terminal(runs) : Newer(runs, s, r)}) >= KeepLast]_retVars
  <2>. SUFFICES ASSUME RetInv, NEW k \in Keeper, NEW r \in Run, DeletesSelected(k, r), Intact(k)
                PROVE  Cardinality({s \in Terminal(runs) : Newer(runs, s, r)}) >= KeepLast
    BY DEF Intact
  <2>1. PICK t \in jobs[k].todo : t = <<r, runs[r].born>>
    BY DEF DeletesSelected
  <2>2. t[1] = r /\ t[2] = runs[r].born /\ Present(r)
    BY <2>1 DEF DeletesSelected
  <2>3. Old(k, r)
    BY <2>2 DEF RetInv, KeeperInv, Held, Old, Terminal
  <2>4. jobs[k].pc = "delete"
    BY <2>1 DEF RetInv, KeeperInv
  <2>5. Cardinality(KeptAbove(k, r)) >= KeepLast
    BY <2>3, <2>4 DEF RetInv, KeeperInv
  <2>6. jobs[k].keep \subseteq Run \X Nat
    BY DEF RetInv, RetTypes, Job
  <2>7. KeptAbove(k, r) \subseteq {s \in Terminal(runs) : Newer(runs, s, r)}
    BY <2>6 DEF KeptAbove, Ids, Intact, Terminal
  <2>8. IsFiniteSet({s \in Terminal(runs) : Newer(runs, s, r)})
    <3>1. {s \in Terminal(runs) : Newer(runs, s, r)} \subseteq {q \in Run : Present(q)}
      BY DEF Terminal, Present
    <3>. QED  BY <3>1, FS_Subset DEF RetInv, FinitelyMany
  <2>9. /\ Cardinality(KeptAbove(k, r)) <= Cardinality({s \in Terminal(runs) : Newer(runs, s, r)})
        /\ Cardinality(KeptAbove(k, r)) \in Nat
        /\ Cardinality({s \in Terminal(runs) : Newer(runs, s, r)}) \in Nat
    BY <2>7, <2>8, FS_Subset, FS_CardinalityType
  <2>. QED  BY <2>5, <2>9, RetentionBoundsAssumption
<1>. QED  BY <1>1, RetentionInvariant, PTL DEF RetentionSpec, KeepsNewest

=============================================================================
