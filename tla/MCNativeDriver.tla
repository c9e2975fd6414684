---------------------------- MODULE MCNativeDriver ----------------------------
(***************************************************************************)
(* Instances of NativeDriver for TLC.                                      *)
(***************************************************************************)
EXTENDS NativeDriver, TLC

TwoAttempts == [p \in Process |-> 2]
ThreeAttempts == [p \in Process |-> 3]
EqualPriority == [p \in Process |-> 0]
NoBackoff == [p \in Process |-> 0]
OneSecond == [p \in Process |-> 1]

\* Every driver works under a name of its own.
OwnName == [d \in Driver |-> d]

\* Drivers differ in name only.
DriverSymmetry == Permutations(Driver)

Documents == (1..3) \cup {EffectorError, ContractError, ExpiryError, CancelError}
=============================================================================
