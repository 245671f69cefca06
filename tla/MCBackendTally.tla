--------------------------- MODULE MCBackendTally ---------------------------
(* Values for the CONSTANTS of BackendTally that a .cfg cannot write.      *)
EXTENDS BackendTally

OnlyOne == {1}
=============================================================================
