------------------------------ MODULE MCPathRun ------------------------------
(***************************************************************************)
(* Plans for the configurations of PathRun.                                *)
(***************************************************************************)
EXTENDS PathRun, TLC

\* One after the other.
Pair == <<{}, {1}>>

\* A review, a process behind it and one behind both.
Steps == <<{}, {1}, {1, 2}>>

NoCondition == [p \in {} |-> 0]

\* The second process has a condition on the first.
OnReview == [p \in {2} |-> 1]

CallerSymmetry == Permutations(Caller)

=============================================================================
