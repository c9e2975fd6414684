--------------------------- MODULE MCHostJournal ---------------------------
(***************************************************************************)
(* An instance of HostJournal for TLC.                                     *)
(***************************************************************************)
EXTENDS HostJournal, TLC

CONSTANTS a1, a2, b1, A, B

\* Two threads in one home, one in another.
ThreadHomes == (a1 :> A) @@ (a2 :> A) @@ (b1 :> B)

\* The threads of one home are alike.
Symmetry == Permutations({a1, a2})
=============================================================================
