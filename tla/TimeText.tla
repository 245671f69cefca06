------------------------------ MODULE TimeText ------------------------------
(***************************************************************************)
(* The times the store keeps and how SQLite compares them.                 *)
(*                                                                         *)
(* recover_at is a TEXT column: formatTime writes an instant with          *)
(* time.RFC3339Nano, which drops the trailing zeros of the fraction and    *)
(* the "." with them, and RecoverExpiredBackends compares the column with  *)
(* the formatted current time as strings.                                  *)
(*                                                                         *)
(* An instant is a whole second and one digit of its fraction.  The date   *)
(* and time up to the seconds have a fixed width, so as strings they are   *)
(* ordered as the seconds are.  Within a second "05.1Z" < "05.2Z" < ...    *)
(* and all of them precede "05Z", because "." and the digits sort before   *)
(* "Z": the instant with no fraction is the LAST of its second as text     *)
(* and the first in time.                                                  *)
(***************************************************************************)
EXTENDS Naturals

CONSTANTS
  MaxFrac,  \* the fractions the clock takes: 0, 1, ..., MaxFrac tenths
  NoTime    \* the empty string of an unset recover_at, nil in Go

Instant == [sec : Nat, frac : 0 .. MaxFrac]

OptionalInstant == Instant \cup {NoTime}

ASSUME FracAssumption == MaxFrac \in 0 .. 9
ASSUME NoTimeAssumption == NoTime \notin Instant

\* The instant that follows t on this clock.
After(t) ==
  IF t.frac = MaxFrac THEN [sec |-> t.sec + 1, frac |-> 0]
                      ELSE [sec |-> t.sec, frac |-> t.frac + 1]

\* t.Add(n * time.Second)
AddSeconds(t, n) == [sec |-> t.sec + n, frac |-> t.frac]

\* The order of the instants in time.
NotAfter(s, t) ==
  \/ s.sec < t.sec
  \/ s.sec = t.sec /\ s.frac <= t.frac

\* Where the text after the seconds sorts: ".1Z" is 1, ..., ".9Z" is 9 and
\* the bare "Z" of a whole second is behind them all.
TextRank(frac) == IF frac = 0 THEN 10 ELSE frac

\* Mutated form: the operands of the comparison are swapped.
TextNotBefore(s, t) ==
  \/ t.sec < s.sec
  \/ s.sec = t.sec /\ TextRank(t.frac) <= TextRank(s.frac)

\* formatTime(s) <= formatTime(t), as SQLite compares two TEXT values.
TextNotAfter(s, t) ==
  \/ s.sec < t.sec
  \/ s.sec = t.sec /\ TextRank(s.frac) <= TextRank(t.frac)
=============================================================================
