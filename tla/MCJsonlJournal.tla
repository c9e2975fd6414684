--------------------------- MODULE MCJsonlJournal ---------------------------
(***************************************************************************)
(* Instances of JsonlJournal for TLC: the batches its callers append.      *)
(***************************************************************************)
EXTENDS JsonlJournal, TLC

CONSTANTS r1, r2, k1, k2

OneAttempt == [p \in Process |-> 1]

InFirstRun == [p \in Process |-> r1]

One(run, key, n) == Batch(run, <<Unit(run, key, n)>>)
Two(run, key, other) == Batch(run, <<Unit(run, key, 1), Unit(run, other, 1)>>)

\* Single commands with and without events, pairs in both orders, a batch
\* whose second unit is of another run, and one that repeats its key.
SmallBatches ==
    {One(r1, k1, 1), One(r1, k2, 2), One(r2, k1, 1),
     Two(r1, k1, k2), Two(r1, k2, k1), Two(r1, k1, k1),
     Batch(r1, <<Unit(r1, k1, 0), Unit(r2, k2, 1)>>)}
=============================================================================
