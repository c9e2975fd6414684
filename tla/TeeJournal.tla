----------------------------- MODULE TeeJournal -----------------------------
(***************************************************************************)
(* The tee of mojo/fala/tee_journal.mojo: two memory journals.  Callers    *)
(* are answered by the primary; what it accepts, a claim's batch included, *)
(* is appended to the secondary in the same call.                          *)
(***************************************************************************)
EXTENDS JournalCallers

VARIABLES primary, secondary

teeVars == <<primary, secondary>>

TeeInit == primary = EmptyIndex /\ secondary = EmptyIndex

\* Slip: the batches of claims are not mirrored.
MirrorsAppendsOnly(index, done) ==
    IF done.answer = "accepted" /\ done.batch.units[1].key \in CallerKey
    THEN AppendBatch(index, done.batch).index
    ELSE index

\* The secondary after a call of the primary.
Mirrored(index, done) ==
    IF done.answer = "accepted" THEN AppendBatch(index, done.batch).index ELSE index

TeeAppend(batch) ==
    LET done == AppendBatch(primary, batch)
    IN  primary' = done.index /\ secondary' = Mirrored(secondary, done)

TeeClaim(w, runs, at) ==
    \E chosen \in ReadyChoices(primary, runs, at) :
        LET done == ClaimNext(primary, w, runs, at, at + Lease, chosen)
        IN  primary' = done.index /\ secondary' = Mirrored(secondary, done)

\* The caller seeds each of its rows once.
TeeSeed(p) ==
    LET ready == [AbsentRecord EXCEPT !.status = "ready"]
    IN  /\ primary.processes[p].status = "absent"
        /\ primary' = Seeded(primary, p, ready)
        /\ secondary' = Seeded(secondary, p, ready)

TeeNext ==
    \/ \E batch \in Batches : TeeAppend(batch)
    \/ \E w \in Worker, runs \in {{r} : r \in Run} \cup {Run}, at \in 0..MaxTime :
        TeeClaim(w, runs, at)
    \/ \E p \in Process : TeeSeed(p)

TeeSpec == TeeInit /\ [][TeeNext]_teeVars

-----------------------------------------------------------------------------
(* Properties.                                                             *)

\* Both journals keep their shape.
TeeTypeOK == primary \in Index /\ secondary \in Index

History(index) == [seq |-> index.seq, batches |-> index.batches, commands |-> index.commands,
                   events |-> index.events, last |-> index.last]

\* "Secondaries mirror appends": after every call both journals tell the same
\* history, with the same numbers although each assigns its own.
SecondaryMirrors == History(secondary) = History(primary)

=============================================================================
