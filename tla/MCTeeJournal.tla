---------------------------- MODULE MCTeeJournal ----------------------------
(***************************************************************************)
(* Instances of TeeJournal for TLC: the batches its callers append.        *)
(***************************************************************************)
EXTENDS TeeJournal, TLC

CONSTANTS r1, r2, k1, k2, p1, p2

TwoAttempts == [p \in Process |-> 2]

InOwnRuns == (p1 :> r1) @@ (p2 :> r2)

\* A single command in either run, and a pair that spans both.
DistinctKeys ==
    {Batch(r1, <<Unit(r1, k1, 1)>>), Batch(r2, <<Unit(r2, k1, 2)>>),
     Batch(r1, <<Unit(r1, k2, 1), Unit(r2, k1, 1)>>)}
=============================================================================
