---------------------------- MODULE BackendTally ----------------------------
(***************************************************************************)
(* BackendPool with a history of what docs/SCHEDULING.md section 9 counts: *)
(* the failures MarkBackendFailure recorded for a backend since its row    *)
(* was last reset.  The history watches the pool and changes nothing.      *)
(***************************************************************************)
EXTENDS BackendPool

VARIABLE streak  \* failures recorded since the last event that resets them

tallyVars == <<vars, streak>>

InitT == Init /\ streak = [b \in Ids |-> 0]

\* MarkBackendFailure wrote the row of b in this step.
Recorded(b) ==
  /\ table[b] # NoRow
  /\ \E r \in Requests :
       /\ RecordFailure(r)
       /\ \E c \in left[r] : IsFirst(c, left[r]) /\ c.id = b

\* The row of b was reset in this step: a success, a recovery, an admin.
ResetNow(b) ==
  /\ table'[b] # table[b]
  /\ table'[b] # NoRow /\ table'[b].failures = 0

NextT ==
  /\ Next
  /\ streak' = [b \in Ids |-> IF Recorded(b) THEN streak[b] + 1
                              ELSE IF ResetNow(b) THEN 0 ELSE streak[b]]

SpecT == InitT /\ [][NextT]_tallyVars

\* docs/SCHEDULING.md section 9: each failed attempt on a backend adds one to
\* its consecutive_failures.  The row has counted every failure recorded
\* since it was last reset.
EveryFailureCounts ==
  \A b \in Ids : table[b] # NoRow => table[b].failures >= streak[b]
=============================================================================
