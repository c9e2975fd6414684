------------------------------ MODULE MCHostRun ------------------------------
(***************************************************************************)
(* An instance of HostRun for TLC.                                         *)
(***************************************************************************)
EXTENDS HostRun, TLC

CONSTANTS a, b, A, B

\* Two homes that take turns in a fresh checkout; two threads of one home in a
\* checkout whose sources were fetched before.
TwoSettings ==
    {[home |-> (a :> A) @@ (b :> B), sharing |-> {a, b}, fetched |-> FALSE],
     [home |-> (a :> A) @@ (b :> A), sharing |-> {a}, fetched |-> TRUE]}
=============================================================================
