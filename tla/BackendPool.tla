---------------------------- MODULE BackendPool ----------------------------
(***************************************************************************)
(* The backends table and everything that reads and writes its runtime     *)
(* columns at the same time: proxied requests (SelectBackend, MarkSuccess, *)
(* MarkFailure), the admin handlers (create, import, update, delete) and   *)
(* the console handlers (check-in, pricing, sync), which hold a copy of a  *)
(* row across slow network calls and then write the whole row back.        *)
(*                                                                         *)
(* Every handler runs in a goroutine of its own and every SQL statement is *)
(* a transaction of its own, so the atomic step is the statement: what a   *)
(* handler read may be stale when it writes.                               *)
(***************************************************************************)
EXTENDS BackendRow

CONSTANTS
  MaxId,           \* ids handed out, at most (bound)
  PayloadWeights,  \* weights an admin may submit
  ImportFailures,  \* consecutive_failures an import may carry
  ConsoleWrites,   \* whole-row writes of one console handler, at most
  MaxTally,        \* failures counted against one backend, at most (bound)
  MaxSec,          \* where the clock stops (bound)
  Requests,        \* goroutines serving proxied requests
  Admins,          \* goroutines serving HandleUpdateBackend
  Consoles,        \* goroutines serving the console handlers
  NoCopy           \* the goroutine holds no copy of a row

Ids == 1 .. MaxId

\* A candidate in the list SelectBackend returned, with the weight it had.
Candidate == [id : Ids, weight : Nat \ {0}]

EditCopy == [id : Ids, row : Row]
ConsoleCopy == [id : Ids, row : Row, writes : Nat, fresh : BOOLEAN]

ASSUME MaxIdAssumption == MaxId \in Nat
ASSUME PayloadAssumption == PayloadWeights \subseteq Int /\ ImportFailures \subseteq Nat
ASSUME NoCopyAssumption == NoCopy \notin EditCopy \cup ConsoleCopy

VARIABLES
  clock,    \* time.Now()
  table,    \* the backends table: a row or NoRow for each id
  nextId,   \* the next id AUTOINCREMENT hands out; ids are never reused
  tally,    \* history: failures ever counted against each id
  pc,       \* where each request is
  left,     \* the candidates each request has not finished with
  read,     \* the row MarkBackendFailure read
  at,       \* the time MarkFailure was called with
  edit,     \* the row HandleUpdateBackend read
  console   \* the row a console handler holds

request == <<pc, left, read, at>>
vars == <<clock, table, nextId, tally, request, edit, console>>

TypeOK ==
  /\ clock \in Instant
  /\ table \in [Ids -> Row \cup {NoRow}]
  /\ nextId \in 1 .. MaxId + 1
  /\ tally \in [Ids -> Nat]
  /\ pc \in [Requests -> {"idle", "listing", "trying", "marking"}]
  /\ left \in [Requests -> SUBSET Candidate]
  /\ read \in [Requests -> Row \cup {NoRow}]
  /\ at \in [Requests -> OptionalInstant]
  /\ edit \in [Admins -> EditCopy \cup {NoCopy}]
  /\ console \in [Consoles -> ConsoleCopy \cup {NoCopy}]
  /\ \A r \in Requests :
       pc[r] = "marking" => read[r] # NoRow /\ at[r] # NoTime

Init ==
  /\ clock = [sec |-> 1, frac |-> 0]
  /\ table = [b \in Ids |-> NoRow]
  /\ nextId = 1
  /\ tally = [b \in Ids |-> 0]
  /\ pc = [r \in Requests |-> "idle"]
  /\ left = [r \in Requests |-> {}]
  /\ read = [r \in Requests |-> NoRow]
  /\ at = [r \in Requests |-> NoTime]
  /\ edit = [a \in Admins |-> NoCopy]
  /\ console = [c \in Consoles |-> NoCopy]

Tick ==
  /\ clock.sec < MaxSec
  /\ clock' = After(clock)
  /\ UNCHANGED <<table, nextId, tally, request, edit, console>>

-----------------------------------------------------------------------------
(* Statements.                                                             *)

\* Mutated form: the write inserts the row when the id is gone (an upsert).
UpsertRow(b, row) == table' = [table EXCEPT ![b] = row]

\* UPDATE backends SET ... WHERE id = b: nothing when the row is gone.
UpdateRow(b, row) ==
  table' = [table EXCEPT ![b] = IF @ = NoRow THEN NoRow ELSE row]

-----------------------------------------------------------------------------
(* A proxied request, as the failover loop of handleProxy drives it.       *)

\* The candidate the loop is at: the heaviest, the lowest id among equals.
IsFirst(c, candidates) ==
  /\ c \in candidates
  /\ \A d \in candidates \ {c} :
       d.weight < c.weight \/ (d.weight = c.weight /\ c.id < d.id)

\* Mutated form: the end of the list is not noticed.
GoOnPastTheEnd(r, remaining) ==
  /\ left' = [left EXCEPT ![r] = remaining]
  /\ pc' = [pc EXCEPT ![r] = "trying"]
  /\ read' = [read EXCEPT ![r] = NoRow]
  /\ at' = [at EXCEPT ![r] = NoTime]

\* The request goes on with what is left of its list, or ends.
GoOn(r, remaining) ==
  /\ left' = [left EXCEPT ![r] = remaining]
  /\ pc' = [pc EXCEPT ![r] = IF remaining = {} THEN "idle" ELSE "trying"]
  /\ read' = [read EXCEPT ![r] = NoRow]
  /\ at' = [at EXCEPT ![r] = NoTime]

\* SelectBackend, first statement: RecoverExpiredBackends.
RecoverExpired(r) ==
  /\ pc[r] = "idle"
  /\ table' = [b \in Ids |-> IF Expired(table[b], clock)
                             THEN SucceededRow(table[b]) ELSE table[b]]
  /\ pc' = [pc EXCEPT ![r] = "listing"]
  /\ UNCHANGED <<clock, nextId, tally, left, read, at, edit, console>>

\* The rows the scheduler keeps of a listing; served are the backends whose
\* models or model_mapping match the model the client asked for.
Eligible(served) ==
  { [id |-> b, weight |-> table[b].weight] :
      b \in { i \in served : table[i] # NoRow /\ table[i].status = "normal" } }

\* SelectBackend, second statement: ListBackends and the filter.  With no
\* candidate the request ends (503).
ListCandidates(r) ==
  /\ pc[r] = "listing"
  /\ \E served \in SUBSET Ids : GoOn(r, Eligible(served))
  /\ UNCHANGED <<clock, table, nextId, tally, edit, console>>

\* The upstream answered 2xx: MarkSuccess, then the request ends.
AttemptSucceeds(r) ==
  /\ pc[r] = "trying"
  /\ \E c \in left[r] :
       /\ IsFirst(c, left[r])
       /\ UpdateRow(c.id, SucceededRow(table[c.id]))
  /\ GoOn(r, {})
  /\ UNCHANGED <<clock, nextId, tally, edit, console>>

\* The attempt failed: MarkBackendFailure reads the row.
AttemptFails(r) ==
  /\ pc[r] = "trying"
  /\ clock.sec + Cooldown < MaxSec  \* bound: the clock can reach recover_at
  /\ \E c \in left[r] :
       /\ IsFirst(c, left[r])
       /\ table[c.id] # NoRow
       /\ tally[c.id] < MaxTally    \* bound
       /\ tally' = [tally EXCEPT ![c.id] = @ + 1]
       /\ read' = [read EXCEPT ![r] = table[c.id]]
  /\ at' = [at EXCEPT ![r] = clock]
  /\ pc' = [pc EXCEPT ![r] = "marking"]
  /\ UNCHANGED <<clock, table, nextId, left, edit, console>>

\* MarkBackendFailure writes, and the loop goes to the next candidate.
RecordFailure(r) ==
  /\ pc[r] = "marking"
  /\ \E c \in left[r] :
       /\ IsFirst(c, left[r])
       /\ UpdateRow(c.id, FailedRow(table[c.id], at[r], read[r]))
       /\ GoOn(r, left[r] \ {c})
  /\ UNCHANGED <<clock, nextId, tally, edit, console>>

\* The loop leaves a candidate without marking it: its request could not be
\* prepared, its row is gone, or the store returned an error, which the loop
\* ignores.
SkipCandidate(r) ==
  /\ pc[r] \in {"trying", "marking"}
  /\ \E c \in left[r] : IsFirst(c, left[r]) /\ GoOn(r, left[r] \ {c})
  /\ UNCHANGED <<clock, table, nextId, tally, edit, console>>

\* The client went away, or MarkSuccess returned an error: the request ends
\* wherever it is.
AbandonRequest(r) ==
  /\ pc[r] # "idle"
  /\ GoOn(r, {})
  /\ UNCHANGED <<clock, table, nextId, tally, edit, console>>

-----------------------------------------------------------------------------
(* The admin handlers.                                                     *)

\* Mutated form: an INTEGER PRIMARY KEY without AUTOINCREMENT, which hands
\* out the id after the largest one in use.
InsertReusingId(row, failures) ==
  LET used == { b \in Ids : table[b] # NoRow }
      id == IF used = {} THEN 1
            ELSE (CHOOSE b \in used : \A d \in used : d <= b) + 1
  IN /\ id <= MaxId
     /\ table' = [table EXCEPT ![id] = row]
     /\ tally' = [tally EXCEPT ![id] = failures]
     /\ nextId' = id + 1

\* INSERT INTO backends: the id is new.
Insert(row, failures) ==
  /\ nextId <= MaxId  \* bound
  /\ table' = [table EXCEPT ![nextId] = row]
  /\ tally' = [tally EXCEPT ![nextId] = failures]
  /\ nextId' = nextId + 1

\* HandleCreateBackend
CreateBackend ==
  /\ \E w \in PayloadWeights : Insert(CreatedRow(w), 0)
  /\ UNCHANGED <<clock, request, edit, console>>

\* HandleImportBackends, for a payload of one backend.
ImportBackend ==
  /\ \E s \in Status, f \in ImportFailures, w \in PayloadWeights :
       Insert(ImportedRow(s, f, w), f)
  /\ UNCHANGED <<clock, request, edit, console>>

\* HandleDeleteBackend
DeleteBackend(b) ==
  /\ table[b] # NoRow
  /\ table' = [table EXCEPT ![b] = NoRow]
  /\ UNCHANGED <<clock, nextId, tally, request, edit, console>>

\* HandleUpdateBackend reads the row, then decodes and validates the payload.
EditRead(a, b) ==
  /\ edit[a] = NoCopy
  /\ table[b] # NoRow
  /\ edit' = [edit EXCEPT ![a] = [id |-> b, row |-> table[b]]]
  /\ UNCHANGED <<clock, table, nextId, tally, request, console>>

\* HandleUpdateBackend writes the whole row it read, with the payload merged.
EditWrite(a, payloadStatus, w) ==
  /\ edit[a] # NoCopy
  /\ UpdateRow(edit[a].id, EditedRow(edit[a].row, payloadStatus, w))
  /\ edit' = [edit EXCEPT ![a] = NoCopy]
  /\ UNCHANGED <<clock, nextId, tally, request, console>>

\* An early return of HandleUpdateBackend: the payload is refused.
EditRefused(a) ==
  /\ edit[a] # NoCopy
  /\ edit' = [edit EXCEPT ![a] = NoCopy]
  /\ UNCHANGED <<clock, table, nextId, tally, request, console>>

PayloadStatus == {"", "normal", "disabled"}

-----------------------------------------------------------------------------
(* The console handlers: read the row, call the console, write the row     *)
(* back; UpdateBackend reads it again for the calls that follow.           *)

ConsoleRead(k, b) ==
  /\ console[k] = NoCopy
  /\ table[b] # NoRow
  /\ console' = [console EXCEPT ![k] =
                   [id |-> b, row |-> table[b], writes |-> 0, fresh |-> TRUE]]
  /\ UNCHANGED <<clock, table, nextId, tally, request, edit>>

\* UpdateBackend's UPDATE after a login, an account or a pricing answer.
ConsoleWrite(k) ==
  /\ console[k] # NoCopy
  /\ console[k].fresh
  /\ console[k].writes < ConsoleWrites
  /\ UpdateRow(console[k].id, console[k].row)
  /\ console' = [console EXCEPT ![k].writes = @ + 1, ![k].fresh = FALSE]
  /\ UNCHANGED <<clock, nextId, tally, request, edit>>

\* UpdateBackend's GetBackend; a row that is gone is an error.
ConsoleReread(k) ==
  /\ console[k] # NoCopy
  /\ ~console[k].fresh
  /\ LET row == table[console[k].id]
     IN console' = IF row = NoRow
                   THEN [console EXCEPT ![k] = NoCopy]
                   ELSE [console EXCEPT ![k].row = row, ![k].fresh = TRUE]
  /\ UNCHANGED <<clock, table, nextId, tally, request, edit>>

\* The handler ends, by an error of the console or for good.
ConsoleEnd(k) ==
  /\ console[k] # NoCopy
  /\ console' = [console EXCEPT ![k] = NoCopy]
  /\ UNCHANGED <<clock, table, nextId, tally, request, edit>>

-----------------------------------------------------------------------------
\* The process stops and starts again: the table is on disk, the goroutines
\* and their copies are gone.
Restart ==
  /\ pc' = [r \in Requests |-> "idle"]
  /\ left' = [r \in Requests |-> {}]
  /\ read' = [r \in Requests |-> NoRow]
  /\ at' = [r \in Requests |-> NoTime]
  /\ edit' = [a \in Admins |-> NoCopy]
  /\ console' = [k \in Consoles |-> NoCopy]
  /\ UNCHANGED <<clock, table, nextId, tally>>

RequestStep(r) ==
  \/ RecoverExpired(r)
  \/ ListCandidates(r)
  \/ AttemptSucceeds(r)
  \/ AttemptFails(r)
  \/ RecordFailure(r)
  \/ SkipCandidate(r)
  \/ AbandonRequest(r)

AdminStep ==
  \/ CreateBackend
  \/ ImportBackend
  \/ \E b \in Ids : DeleteBackend(b)
  \/ \E a \in Admins :
       \/ \E b \in Ids : EditRead(a, b)
       \/ \E s \in PayloadStatus, w \in PayloadWeights : EditWrite(a, s, w)
       \/ EditRefused(a)

ConsoleStep(k) ==
  \/ \E b \in Ids : ConsoleRead(k, b)
  \/ ConsoleWrite(k)
  \/ ConsoleReread(k)
  \/ ConsoleEnd(k)

Next ==
  \/ Tick
  \/ \E r \in Requests : RequestStep(r)
  \/ AdminStep
  \/ \E k \in Consoles : ConsoleStep(k)
  \/ Restart

Spec == Init /\ [][Next]_vars

\* Time passes, and a goroutine that waits for the store goes on.  Nothing is
\* assumed of clients, admins and consoles, nor of an attempt's end: the
\* proxy's client limits the wait for the response header (TG_REQUEST_TIMEOUT)
\* and not the time a body takes.
Fairness ==
  /\ WF_vars(Tick)
  /\ \A r \in Requests :
       /\ WF_vars(ListCandidates(r))
       /\ WF_vars(RecordFailure(r) \/ (pc[r] = "marking" /\ SkipCandidate(r)))

FairSpec == Spec /\ Fairness

-----------------------------------------------------------------------------
(* Properties.                                                             *)

Is(b, s) == table[b] # NoRow /\ table[b].status = s

\* Some goroutine holds a candidate or a copy of b, read earlier.
InFlight(b) ==
  \/ \E r \in Requests : \E c \in left[r] : c.id = b
  \/ \E a \in Admins : edit[a] # NoCopy /\ edit[a].id = b
  \/ \E k \in Consoles : console[k] # NoCopy /\ console[k].id = b

\* Whatever stale rows are written back, in whatever order, a recovery time
\* stands only in a row that is abnormal and whose failure count reached the
\* threshold: no row is left normal or disabled with a timer running.
TimerOnlyWhileAbnormal ==
  \A b \in Ids :
    table[b] # NoRow /\ table[b].recoverAt # NoTime =>
      table[b].status = "abnormal" /\ table[b].failures >= Threshold

\* A backend is never charged with more consecutive failures than attempts on
\* it failed (those it was imported with included): neither concurrent
\* MarkBackendFailure calls nor whole-row writes of stale copies nor the
\* reuse of a deleted backend's id can invent one.
NoInventedFailures ==
  \A b \in Ids : table[b] # NoRow => table[b].failures <= tally[b]

\* No backend is ever quarantined for longer than one cooldown from now, even
\* when failures of several requests overlap or an old row is written back.
QuarantineBounded ==
  \A b \in Ids :
    table[b] # NoRow /\ table[b].recoverAt # NoTime =>
      NotAfter(table[b].recoverAt, AddSeconds(clock, Cooldown))

\* A backend that was deleted stays deleted, whichever requests, edits and
\* console handlers still hold a copy of it and write it back later.
DeletedStaysDeleted ==
  [][\A b \in Ids :
       b < nextId /\ table[b] = NoRow => table'[b] = NoRow]_vars

\* A disabled backend of which no goroutine holds a copy stays disabled (or
\* is deleted) in the next step: no selection, restart or timer brings it
\* back, an administrator has to read it first.
DisabledHolds ==
  [][\A b \in Ids :
       Is(b, "disabled") /\ ~InFlight(b) =>
         table'[b] = NoRow \/ table'[b].status = "disabled"]_vars

\* What the store's comparison of formatted times guarantees of the cooldown:
\* a quarantined backend nobody holds a copy of comes back only by a
\* selection made in the second of its recover_at or later.
RecoveryNotEarly ==
  [][\A b \in Ids :
       Is(b, "abnormal") /\ ~InFlight(b) /\ table'[b] # NoRow
         /\ table'[b].status # "abnormal" =>
            table[b].recoverAt # NoTime /\ table[b].recoverAt.sec <= clock.sec]_vars

\* Every request the gateway accepted comes to an end, whatever happens to
\* the rows of the backends it was going to try, unless it waits for ever for
\* one backend's answer: it never hangs with nothing left to wait for.
RequestEnds ==
  \A r \in Requests :
    \/ <>[](pc[r] = "trying" /\ left[r] # {})
    \/ pc[r] # "idle" ~> pc[r] = "idle"

\* As long as requests keep being scheduled, every backend taken offline with
\* a recovery time leaves quarantine: recovery is lazy, but it happens.
QuarantineEnds ==
  []<>(\E r \in Requests : pc[r] = "listing") =>
    \A b \in Ids :
      (Is(b, "abnormal") /\ table[b].recoverAt # NoTime) ~>
        ~(Is(b, "abnormal") /\ table[b].recoverAt # NoTime)

-----------------------------------------------------------------------------
(* What the documentation promises and the code does not keep.             *)

\* docs/SCHEDULING.md: a disabled backend is only ever brought back by an
\* administrator setting it to normal.
DisabledUntilAdmin ==
  [][\A b \in Ids :
       Is(b, "disabled") /\ table'[b] # NoRow /\ table'[b].status # "disabled" =>
         \E a \in Admins, w \in PayloadWeights :
           edit[a] # NoCopy /\ edit[a].id = b /\ EditWrite(a, "normal", w)]_vars

\* docs/SCHEDULING.md: an abnormal backend is not thrown out for good, each
\* selection tries to bring it back.
AbnormalIsTemporary ==
  []<>(\E r \in Requests : pc[r] = "listing") =>
    \A b \in Ids : Is(b, "abnormal") ~> ~Is(b, "abnormal")
=============================================================================
