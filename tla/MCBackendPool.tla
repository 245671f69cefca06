--------------------------- MODULE MCBackendPool ----------------------------
(* Values for the CONSTANTS of BackendPool that a .cfg cannot write.       *)
EXTENDS BackendPool, TLC

\* A submitted weight of 0 is stored as 1; 2 puts a backend ahead of it.
ZeroAndTwo == {0, 2}
OnlyZero == {0}

\* The goroutines that serve requests differ only by name.
Symmetric == Permutations(Requests)
=============================================================================
