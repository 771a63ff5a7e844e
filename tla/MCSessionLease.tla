--------------------------- MODULE MCSessionLease ---------------------------
(* SessionLease for TLC: the constants of the runs.                        *)
EXTENDS SessionLease, TLC

CONSTANTS a, b, c

Three == {a, b, c}
Perms == Permutations(Three)

AllFaults    == FaultKinds
RollbackOnly == {"rollback"}
OutsideOnly  == {"external"}
=============================================================================
