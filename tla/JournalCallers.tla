---------------------------- MODULE JournalCallers ----------------------------
(***************************************************************************)
(* What the callers of a sink hand to it: the batches they append.         *)
(***************************************************************************)
EXTENDS MemoryJournal

CONSTANT Batches \* the batches the callers of an instance append

\* Batches without units are refused before anything is looked at.
ASSUME BatchesAssumption ==
    \A batch \in Batches :
        /\ batch \in StoredBatch /\ batch.units # <<>>
        /\ \A i \in DOMAIN batch.units : batch.units[i].key \in CallerKey

=============================================================================
