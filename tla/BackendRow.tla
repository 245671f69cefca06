----------------------------- MODULE BackendRow -----------------------------
(***************************************************************************)
(* A row of the backends table, and what each statement that writes the    *)
(* runtime columns (status, consecutive_failures, recover_at) makes of it. *)
(* The columns no property distinguishes (name, URLs, credentials, console *)
(* metadata, ...) are left out; weight stays because it orders failover    *)
(* and because whole-row writes carry it.                                  *)
(***************************************************************************)
EXTENDS Integers, TimeText

CONSTANTS
  BackendFails,  \* TG_BACKEND_FAILS as the scheduler was given it
  Cooldown,      \* TG_BACKEND_COOLDOWN, in whole seconds
  NoRow          \* there is no row with this id

Status == {"normal", "abnormal", "disabled"}

Row == [status : Status, failures : Nat, recoverAt : OptionalInstant,
        weight : Nat \ {0}]

ASSUME BackendFailsAssumption == BackendFails \in Int
ASSUME CooldownAssumption == Cooldown \in Nat
ASSUME NoRowAssumption == NoRow \notin Row

\* scheduler.New and MarkBackendFailure both raise a threshold below 1 to 1.
Threshold == IF BackendFails < 1 THEN 1 ELSE BackendFails

\* Mutated form: the weight is stored as submitted.
SubmittedWeight(w) == w

\* A weight as normalizeWeight stores it.
NormalizedWeight(w) == IF w < 1 THEN 1 ELSE w

\* SET status = s, consecutive_failures = f, recover_at = t
WithHealth(row, s, f, t) ==
  [status |-> s, failures |-> f, recoverAt |-> t, weight |-> row.weight]

-----------------------------------------------------------------------------
\* The row CreateBackend inserts: payload.Status is not passed on.
CreatedRow(w) ==
  [status |-> "normal", failures |-> 0, recoverAt |-> NoTime,
   weight |-> NormalizedWeight(w)]

\* The row ImportBackends inserts: status and failure count are the
\* payload's, recover_at is always "".
ImportedRow(s, f, w) ==
  [status |-> s, failures |-> f, recoverAt |-> NoTime,
   weight |-> NormalizedWeight(w)]

\* MarkBackendSuccess: the UPDATE has no condition on the status.
SucceededRow(row) == WithHealth(row, "normal", 0, NoTime)

\* Mutated form: the cooldown is added to the recovery time already set.
FailedRowExtending(row, at, read) ==
  LET failures == read.failures + 1
      base == IF read.recoverAt = NoTime THEN at ELSE read.recoverAt
  IN IF read.status # "disabled" /\ failures >= Threshold
     THEN WithHealth(row, "abnormal", failures, AddSeconds(base, Cooldown))
     ELSE WithHealth(row, read.status, failures, read.recoverAt)

\* MarkBackendFailure's UPDATE of row, computed from the row read before it
\* and the time the caller took.
FailedRow(row, at, read) ==
  LET failures == read.failures + 1
  IN IF read.status # "disabled" /\ failures >= Threshold
     THEN WithHealth(row, "abnormal", failures, AddSeconds(at, Cooldown))
     ELSE WithHealth(row, read.status, failures, read.recoverAt)

\* Mutated form: the status filter of the WHERE clause is dropped and an
\* unset recover_at, the empty string, sorts before every time.
ExpiredWhateverStatus(row, now) ==
  /\ row # NoRow
  /\ row.recoverAt = NoTime \/ TextNotAfter(row.recoverAt, now)

\* The WHERE clause of RecoverExpiredBackends.
Expired(row, now) ==
  /\ row # NoRow
  /\ row.status = "abnormal"
  /\ row.recoverAt # NoTime
  /\ TextNotAfter(row.recoverAt, now)

\* Mutated form: a change of status forgets to clear recover_at.
EditedRowKeepingTimer(read, payloadStatus, w) ==
  IF payloadStatus = "" \/ payloadStatus = read.status
  THEN [read EXCEPT !.weight = NormalizedWeight(w)]
  ELSE [status |-> payloadStatus, failures |-> 0,
        recoverAt |-> read.recoverAt, weight |-> NormalizedWeight(w)]

\* The whole row HandleUpdateBackend writes, from the row it read: an empty
\* status keeps the one read, "normal" or "disabled" resets the failure
\* state only when it differs from the one read.
EditedRow(read, payloadStatus, w) ==
  IF payloadStatus = "" \/ payloadStatus = read.status
  THEN [read EXCEPT !.weight = NormalizedWeight(w)]
  ELSE [status |-> payloadStatus, failures |-> 0, recoverAt |-> NoTime,
        weight |-> NormalizedWeight(w)]
=============================================================================
