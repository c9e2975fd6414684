--------------------------- MODULE MCNativeJournal ---------------------------
(***************************************************************************)
(* Instances of NativeJournal for TLC: per-process constants as functions. *)
(***************************************************************************)
EXTENDS NativeJournal, TLC

\* Workers are compared only for equality, and so are clients.
Symmetry == Permutations(Actor) \cup Permutations(Client)

\* Every process may be tried twice, all with the same priority.
TwoAttempts == [p \in Process |-> 2]
OneAttempt == [p \in Process |-> 1]
EqualPriority == [p \in Process |-> 0]

\* Process 2 outranks process 1.
SecondFirst == [p \in Process |-> p]
=============================================================================
