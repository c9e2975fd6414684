--------------------------- MODULE MCMemoryRuntime ---------------------------
(***************************************************************************)
(* Instances of MemoryRuntime for TLC: the path and its attempts.          *)
(***************************************************************************)
EXTENDS MemoryRuntime, TLC

CONSTANTS r1, p1, p2, p3

InFirstRun == [p \in Process |-> r1]

\* The root may be tried twice, the others once.
RootTwice == [p \in Process |-> IF p = p1 THEN 2 ELSE 1]

\* p1 conducts into p2, and both into p3.
Diamond == (p1 :> {}) @@ (p2 :> {p1}) @@ (p3 :> {p1, p2})
=============================================================================
