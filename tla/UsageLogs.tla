----------------------------- MODULE UsageLogs -----------------------------
(***************************************************************************)
(* The usage_logs table, which administrators clear, and the table of the  *)
(* hourly statistics, which keeps its counts: AppendUsageLog writes both   *)
(* in one transaction.                                                     *)
(*                                                                         *)
(* A series is a backend and a model, and NoSeries stands for a row that   *)
(* lacks one of them.  A request stores rows under the time it began and   *)
(* the backend's name it read when candidates were listed, however long    *)
(* ago that was and however the backend was renamed since.                 *)
(***************************************************************************)
EXTENDS TimeText, FiniteSets

CONSTANTS
  Series, NoSeries,
  BackendNames, NoName,
  Served,       \* requests
  HourSeconds,  \* a shorter hour
  MaxClock,     \* the last second
  MaxRows,      \* rows ever stored
  Asked         \* instants a filter may ask for

ASSUME UsageLogsAssumption ==
  /\ NoSeries \notin Series /\ NoName \notin BackendNames
  /\ BackendNames # {}
  /\ HourSeconds \in Nat \ {0} /\ MaxClock \in Nat /\ MaxRows \in Nat
  /\ Asked \subseteq Instant

VARIABLES
  clock,
  backendName,  \* the name of each series' backend
  serving,      \* what each request will store
  logs,         \* the usage_logs table
  hourly,       \* the backend_hourly_model_stats table
  history       \* every row ever stored

usageLogsVars == <<clock, backendName, serving, logs, hourly, history>>

Hour(t) == t.sec \div HourSeconds
Hours == {Hour(t) : t \in [sec : 0 .. MaxClock, frac : {0}]}

Names == [Series -> BackendNames]
NoNames == [s \in Series |-> NoName]

Serving == [busy : BOOLEAN, at : Instant, listed : Names \cup {NoNames},
            series : Series \cup {NoSeries}]
IdleServing == [busy |-> FALSE, at |-> [sec |-> 0, frac |-> 0],
                listed |-> NoNames, series |-> NoSeries]

LogRow == [n : Nat, series : Series \cup {NoSeries},
           name : BackendNames \cup {NoName}, ok : BOOLEAN, at : Instant]

Bucket == [name : BackendNames \cup {NoName}, successes : Nat, failures : Nat]
NoBucket == [name |-> NoName, successes |-> 0, failures |-> 0]

UsageLogsTypeOK ==
  /\ clock \in Instant
  /\ backendName \in Names
  /\ serving \in [Served -> Serving]
  /\ logs \subseteq history /\ history \subseteq LogRow
  /\ hourly \in [Series \X Hours -> Bucket]

UsageLogsInit ==
  /\ clock = [sec |-> 0, frac |-> 0]
  /\ backendName = [s \in Series |-> CHOOSE name \in BackendNames : TRUE]
  /\ serving = [q \in Served |-> IdleServing]
  /\ logs = {}
  /\ hourly = [k \in Series \X Hours |-> NoBucket]
  /\ history = {}

-----------------------------------------------------------------------------

\* time.Now.
ClockTicks ==
  /\ clock' = After(clock)
  /\ clock'.sec <= MaxClock
  /\ UNCHANGED <<backendName, serving, logs, hourly, history>>

\* UpdateBackend with another name.
RenameBackend ==
  /\ \E s \in Series, name \in BackendNames :
       backendName' = [backendName EXCEPT ![s] = name]
  /\ UNCHANGED <<clock, serving, logs, hourly, history>>

Serves(q, entry) ==
  /\ serving' = [serving EXCEPT ![q] = entry]
  /\ UNCHANGED <<clock, backendName>>

\* handleProxy: CreatedAt is the time the request began.
AdmitRequest(q) ==
  /\ ~serving[q].busy
  /\ Serves(q, [IdleServing EXCEPT !.busy = TRUE, !.at = clock])
  /\ UNCHANGED <<logs, hourly, history>>

\* SelectBackend reads the names.
ListNames(q) ==
  /\ serving[q].busy /\ serving[q].listed = NoNames
  /\ Serves(q, [serving[q] EXCEPT !.listed = backendName])
  /\ UNCHANGED <<logs, hourly, history>>

\* The next candidate: usageLog.BackendID and BackendName.
BeginTurn(q) ==
  /\ serving[q].busy /\ serving[q].listed # NoNames
  /\ \E s \in Series : Serves(q, [serving[q] EXCEPT !.series = s])
  /\ UNCHANGED <<logs, hourly, history>>

RowOf(q, ok) ==
  LET s == serving[q].series
  IN  [n |-> Cardinality(history) + 1, series |-> s, ok |-> ok,
       name |-> IF s = NoSeries THEN NoName ELSE serving[q].listed[s],
       at |-> serving[q].at]

\* Mutated form: the row of a conflict is replaced instead of added to.
CountedAlone(bucket, row) ==
  [name |-> row.name, successes |-> IF row.ok THEN 1 ELSE 0,
   failures |-> IF row.ok THEN 0 ELSE 1]

\* ON CONFLICT DO UPDATE SET.
Counted(bucket, row) ==
  [name |-> row.name,
   successes |-> bucket.successes + IF row.ok THEN 1 ELSE 0,
   failures |-> bucket.failures + IF row.ok THEN 0 ELSE 1]

\* upsertBackendHourlyModelStats.
Upserted(row) ==
  [k \in DOMAIN hourly |->
     IF k = <<row.series, Hour(row.at)>> THEN Counted(hourly[k], row)
     ELSE hourly[k]]

\* AppendUsageLog, for an attempt that is followed by another or at the end.
AppendRow(q) ==
  /\ serving[q].busy
  /\ Cardinality(history) < MaxRows
  /\ \E ok \in BOOLEAN, entry \in {serving[q], IdleServing} :
       /\ Serves(q, entry)
       /\ logs' = logs \cup {RowOf(q, ok)}
       /\ history' = history \cup {RowOf(q, ok)}
       /\ hourly' = Upserted(RowOf(q, ok))

\* The transaction fails and is rolled back, or nothing is to be stored; the
\* error is dropped.
EndWithoutRow(q) ==
  /\ serving[q].busy
  /\ Serves(q, IdleServing)
  /\ UNCHANGED <<logs, hourly, history>>

-----------------------------------------------------------------------------

\* usageLogFilterFromRequest: a time that does not parse is none.
Filters == [from : Asked \cup {NoTime}, to : Asked \cup {NoTime},
            name : BackendNames \cup {NoName}]

\* Mutated form: a time to end at is not looked at beside one to begin with.
MatchesFrom(row, filter) ==
  /\ filter.name = NoName \/ row.name = filter.name
  /\ filter.from = NoTime \/ TextNotAfter(filter.from, row.at)
  /\ filter.to = NoTime \/ filter.from # NoTime \/ TextNotAfter(row.at, filter.to)

\* usageLogFilterClause, whose times SQLite compares as texts.
Matches(row, filter) ==
  /\ filter.name = NoName \/ row.name = filter.name
  /\ filter.from = NoTime \/ TextNotAfter(filter.from, row.at)
  /\ filter.to = NoTime \/ TextNotAfter(row.at, filter.to)

\* The rows a clear deletes, all of them if its filter has no condition.
Cleared(filter) == {row \in logs : Matches(row, filter)}

\* HandleClearUsageLogs.
ClearLogs(filter) ==
  /\ logs' = logs \ Cleared(filter)
  /\ UNCHANGED <<clock, backendName, serving, hourly, history>>

RestartServing ==
  /\ serving' = [q \in Served |-> IdleServing]
  /\ UNCHANGED <<clock, backendName, logs, hourly, history>>

UsageLogsNext ==
  \/ ClockTicks \/ RenameBackend \/ RestartServing
  \/ \E q \in Served :
       \/ AdmitRequest(q) \/ ListNames(q) \/ BeginTurn(q) \/ AppendRow(q)
       \/ EndWithoutRow(q)
  \/ \E filter \in Filters : ClearLogs(filter)

-----------------------------------------------------------------------------

RowsIn(s, hour) ==
  {row \in history : row.series = s /\ Hour(row.at) = hour}

Counts(bucket, rows) ==
  /\ bucket.successes = Cardinality({row \in rows : row.ok})
  /\ bucket.failures = Cardinality({row \in rows : ~row.ok})
  /\ \A row \in rows :
       (\A other \in rows : other.n <= row.n) => bucket.name = row.name

\* An hour's statistics count every row ever stored of its backend and model
\* whose request began in that hour, once, rows that were cleared since
\* included, and carry the name the last of them did: not the backend's, if
\* the request that stored it had listed candidates before a renaming.
HourlyIsHistory ==
  \A s \in Series, hour \in Hours : Counts(hourly[<<s, hour>>], RowsIn(s, hour))

\* Whether an instant lies within a filter's range, by whole seconds; open
\* leaves the seconds of the range's ends out.
WithinSeconds(t, filter) ==
  /\ filter.from # NoTime => filter.from.sec <= t.sec
  /\ filter.to # NoTime => t.sec <= filter.to.sec
WellWithin(t, filter) ==
  /\ filter.from # NoTime => filter.from.sec < t.sec
  /\ filter.to # NoTime => t.sec < filter.to.sec

\* Clearing a range of time takes the rows of that range and no others, but
\* for the seconds it begins and ends in, where the order of the texts is
\* not that of the times: a row up to a second out of the range may go and
\* one within it may stay.
ClearsByTheSecond ==
  \A row \in logs : \A filter \in Filters :
    /\ row \in Cleared(filter) => WithinSeconds(row.at, filter)
    /\ filter.name \in {NoName, row.name} /\ WellWithin(row.at, filter) =>
         row \in Cleared(filter)
=============================================================================
