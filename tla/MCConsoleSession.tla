-------------------------- MODULE MCConsoleSession --------------------------
(***************************************************************************)
(* One relay of each type; the new-api one with and without check-ins.     *)
(***************************************************************************)
EXTENDS ConsoleSession, TLC

NewAPI == [type |-> "new-api", credentials |-> TRUE, checkin |-> TRUE,
           channel |-> FALSE]
Sub2API == [type |-> "sub2api", credentials |-> TRUE, checkin |-> TRUE,
            channel |-> TRUE]

Symmetry == Permutations(Handlers)

MCSetups ==
  {NewAPI, [NewAPI EXCEPT !.credentials = FALSE],
   [NewAPI EXCEPT !.checkin = FALSE],
   Sub2API, [Sub2API EXCEPT !.checkin = FALSE, !.channel = FALSE],
   [Sub2API EXCEPT !.credentials = FALSE]}
=============================================================================
