----------------------------- MODULE MCRegistry -----------------------------
(***************************************************************************)
(* Two of whatever can overlap.                                            *)
(***************************************************************************)
EXTENDS Registry, TLC

\* One field that is trimmed and checked twice, one that is parsed.
MCFields == <<"backend_console_user_agent", "request_timeout">>

\* The last is refused for both, the one before it for a duration.
MCValues == {"45s", "60s", " 60s", "60s\r\n60s"}
MCAccepted ==
  [backend_console_user_agent |-> {"45s", "60s", " 60s"},
   request_timeout |-> {"45s", "60s"}]
MCTrim ==
  [text \in MCValues \cup {Default} |->
     CASE text = " 60s" -> "60s" [] OTHER -> text]

\* As a text, the first comes last in its second and the other first.
MCAsked == {[sec |-> 0, frac |-> 0], [sec |-> 1, frac |-> 1]}

MCPathMatches == {<<"star", "m1">>, <<"star", "m2">>}

Symmetry ==
  Permutations(Backends) \cup Permutations(Writers) \cup Permutations(Passwords)
=============================================================================
