-------------------------- MODULE UsageLogs_proofs --------------------------
(***************************************************************************)
(* Proofs about UsageLogs.  Rows are numbered as they are stored, so that  *)
(* a new row is none of those before it and the last of its hour's; it     *)
(* adds one to the count of one bucket.                                    *)
(***************************************************************************)
EXTENDS UsageLogs, FiniteSetTheorems, TLAPS

HistorySound ==
  IsFiniteSet(history) /\ \A row \in history : row.n <= Cardinality(history)

UsageLogsInv == UsageLogsTypeOK /\ HistorySound /\ HourlyIsHistory

LEMMA UsageLogsTypes ==
  /\ \A t \in Instant : After(t) \in Instant
  /\ [sec |-> 0, frac |-> 0] \in Instant
  /\ IdleServing \in Serving
  /\ NoBucket \in Bucket
  /\ (CHOOSE name \in BackendNames : TRUE) \in BackendNames
  <1>1. [sec |-> 0, frac |-> 0] \in Instant
    BY FracAssumption DEF Instant
  <1>2. \A t \in Instant : After(t) \in Instant
    BY FracAssumption DEF Instant, After
  <1>3. (CHOOSE name \in BackendNames : TRUE) \in BackendNames
    BY UsageLogsAssumption
  <1> QED
    BY <1>1, <1>2, <1>3
    DEF IdleServing, Serving, NoBucket, Bucket

LEMMA EmptyCounts == Counts(NoBucket, {})
  <1>1. {row \in {} : row.ok} = {} /\ {row \in {} : ~row.ok} = {}
    OBVIOUS
  <1> QED
    BY <1>1, FS_EmptySet DEF Counts, NoBucket

LEMMA UsageLogsStart == UsageLogsInit => UsageLogsInv
  <1> SUFFICES ASSUME UsageLogsInit PROVE UsageLogsInv
    OBVIOUS
  <1>1. UsageLogsTypeOK
    BY UsageLogsTypes DEF UsageLogsInit, UsageLogsTypeOK, Names
  <1>2. IsFiniteSet({}) /\ Cardinality({}) = 0
    BY FS_EmptySet
  <1>3. HistorySound
    BY <1>2 DEF UsageLogsInit, HistorySound
  <1>4. ASSUME NEW s \in Series, NEW hour \in Hours
        PROVE  /\ RowsIn(s, hour) = {}
               /\ hourly[<<s, hour>>] = NoBucket
    BY DEF UsageLogsInit, RowsIn
  <1>5. HourlyIsHistory
    BY <1>2, <1>4, EmptyCounts DEF HourlyIsHistory
  <1> QED
    BY <1>1, <1>3, <1>5 DEF UsageLogsInv

\* A step that stores no row.
LEMMA NoRowKeeps ==
  ASSUME UsageLogsInv, UsageLogsTypeOK', UNCHANGED <<hourly, history>>
  PROVE  UsageLogsInv'
  <1>1. ASSUME NEW s \in Series, NEW hour \in Hours
        PROVE  /\ RowsIn(s, hour)' = RowsIn(s, hour)
               /\ hourly'[<<s, hour>>] = hourly[<<s, hour>>]
    BY DEF RowsIn
  <1>2. HourlyIsHistory'
    BY <1>1 DEF UsageLogsInv, HourlyIsHistory
  <1> QED
    BY <1>2 DEF UsageLogsInv, HistorySound

LEMMA UsageLogsStay == UsageLogsInv /\ UNCHANGED usageLogsVars => UsageLogsInv'
  BY NoRowKeeps DEF usageLogsVars, UsageLogsInv, UsageLogsTypeOK

-----------------------------------------------------------------------------

LEMMA RowOfType ==
  ASSUME UsageLogsInv, NEW q \in Served, NEW ok \in BOOLEAN
  PROVE  RowOf(q, ok) \in LogRow /\ RowOf(q, ok) \notin history
  <1>1. Cardinality(history) \in Nat
    BY FS_CardinalityType DEF UsageLogsInv, HistorySound
  <1>2. serving[q] \in Serving
    BY DEF UsageLogsInv, UsageLogsTypeOK
  <1>3. serving[q].series \in Series =>
          serving[q].listed[serving[q].series] \in BackendNames \cup {NoName}
    BY <1>2 DEF Serving, Names, NoNames
  <1>4. RowOf(q, ok) \in LogRow
    BY <1>1, <1>2, <1>3 DEF RowOf, LogRow, Serving
  <1>5. RowOf(q, ok).n = Cardinality(history) + 1
    BY DEF RowOf
  <1> QED
    BY <1>1, <1>4, <1>5
    DEF UsageLogsInv, HistorySound, UsageLogsTypeOK, LogRow

\* What one more row adds to the count of its bucket.
LEMMA OneMoreCounts ==
  ASSUME NEW bucket, NEW rows, Counts(bucket, rows), IsFiniteSet(rows),
         NEW row, row \notin rows, row.ok \in BOOLEAN,
         \A r \in rows : ~(row.n <= r.n)
  PROVE  Counts(Counted(bucket, row), rows \cup {row})
  <1> DEFINE won == {r \in rows : r.ok}
             lost == {r \in rows : ~r.ok}
  <1>1. IsFiniteSet(won) /\ IsFiniteSet(lost) /\ row \notin won /\ row \notin lost
    BY FS_Subset
  <1>2. /\ Cardinality(won \cup {row}) = Cardinality(won) + 1
        /\ Cardinality(lost \cup {row}) = Cardinality(lost) + 1
        /\ Cardinality(won) \in Nat /\ Cardinality(lost) \in Nat
    BY <1>1, FS_AddElement, FS_CardinalityType
  <1>3. bucket.successes = Cardinality(won) /\ bucket.failures = Cardinality(lost)
    BY DEF Counts
  <1>4. /\ {r \in rows \cup {row} : r.ok} =
             IF row.ok THEN won \cup {row} ELSE won
        /\ {r \in rows \cup {row} : ~r.ok} =
             IF row.ok THEN lost ELSE lost \cup {row}
    OBVIOUS
  <1>5. \A r \in rows \cup {row} :
          (\A other \in rows \cup {row} : other.n <= r.n) => r = row
    OBVIOUS
  <1> HIDE DEF won, lost
  <1>6. Counted(bucket, row).successes =
          Cardinality(IF row.ok THEN won \cup {row} ELSE won)
    BY <1>2, <1>3 DEF Counted
  <1>7. Counted(bucket, row).failures =
          Cardinality(IF row.ok THEN lost ELSE lost \cup {row})
    BY <1>2, <1>3 DEF Counted
  <1>8. Counted(bucket, row).name = row.name
    BY DEF Counted
  <1> QED
    BY <1>4, <1>5, <1>6, <1>7, <1>8 DEF Counts

LEMMA OneMoreRow ==
  ASSUME UsageLogsInv, NEW row \in LogRow, row \notin history,
         row.n = Cardinality(history) + 1,
         history' = history \cup {row}, hourly' = Upserted(row)
  PROVE  /\ HistorySound' /\ HourlyIsHistory'
         /\ hourly' \in [Series \X Hours -> Bucket]
  <1>1. PICK c : c = Cardinality(history)
    OBVIOUS
  <1>2. IsFiniteSet(history) /\ c \in Nat
    BY <1>1, FS_CardinalityType DEF UsageLogsInv, HistorySound
  <1>3. IsFiniteSet(history') /\ Cardinality(history') = c + 1
    BY <1>1, <1>2, FS_AddElement
  <1>4. \A r \in history : r.n \in Nat /\ r.n <= c
    BY <1>1 DEF UsageLogsInv, HistorySound, UsageLogsTypeOK, LogRow
  <1>5. \A r \in history' : r.n <= c + 1
    BY <1>1, <1>2, <1>4
  <1>6. HistorySound'
    BY <1>3, <1>5 DEF HistorySound
  <1>7. hourly \in [Series \X Hours -> Bucket]
    BY DEF UsageLogsInv, UsageLogsTypeOK
  <1>8. \A k \in Series \X Hours : Counted(hourly[k], row) \in Bucket
    BY <1>7 DEF Counted, Bucket, LogRow
  <1>9. hourly' \in [Series \X Hours -> Bucket]
    BY <1>7, <1>8 DEF Upserted
  <1>10. ASSUME NEW s \in Series, NEW hour \in Hours
         PROVE  Counts(hourly'[<<s, hour>>], RowsIn(s, hour)')
    <2>1. Counts(hourly[<<s, hour>>], RowsIn(s, hour))
      BY DEF UsageLogsInv, HourlyIsHistory
    <2>2. CASE row.series = s /\ Hour(row.at) = hour
      <3>1. RowsIn(s, hour)' = RowsIn(s, hour) \cup {row}
        BY <2>2 DEF RowsIn
      <3>2. hourly'[<<s, hour>>] = Counted(hourly[<<s, hour>>], row)
        BY <1>7, <2>2 DEF Upserted
      <3>3. RowsIn(s, hour) \subseteq history
        BY DEF RowsIn
      <3>4. IsFiniteSet(RowsIn(s, hour)) /\ row \notin RowsIn(s, hour)
        BY <1>2, <3>3, FS_Subset
      <3>5. \A r \in RowsIn(s, hour) : ~(row.n <= r.n)
        BY <1>1, <1>2, <1>4, <3>3
      <3>6. row.ok \in BOOLEAN
        BY DEF LogRow
      <3> QED
        BY <2>1, <3>1, <3>2, <3>4, <3>5, <3>6, OneMoreCounts
    <2>3. CASE ~(row.series = s /\ Hour(row.at) = hour)
      <3>1. RowsIn(s, hour)' = RowsIn(s, hour)
        BY <2>3 DEF RowsIn
      <3>2. hourly'[<<s, hour>>] = hourly[<<s, hour>>]
        BY <1>7, <2>3 DEF Upserted
      <3> QED
        BY <2>1, <3>1, <3>2
    <2> QED
      BY <2>2, <2>3
  <1>11. HourlyIsHistory'
    BY <1>10 DEF HourlyIsHistory
  <1> QED
    BY <1>6, <1>9, <1>11


LEMMA AppendRowKeeps ==
  ASSUME UsageLogsInv, NEW q \in Served, AppendRow(q)
  PROVE  UsageLogsInv'
  <1>1. PICK ok \in BOOLEAN, entry \in {serving[q], IdleServing} :
          /\ Serves(q, entry)
          /\ logs' = logs \cup {RowOf(q, ok)}
          /\ history' = history \cup {RowOf(q, ok)}
          /\ hourly' = Upserted(RowOf(q, ok))
    BY DEF AppendRow
  <1>2. PICK row : row = RowOf(q, ok)
    OBVIOUS
  <1>3. row \in LogRow /\ row \notin history /\ row.n = Cardinality(history) + 1
    BY <1>2, RowOfType DEF RowOf
  <1>4. HistorySound' /\ HourlyIsHistory' /\ hourly' \in [Series \X Hours -> Bucket]
    BY <1>1, <1>2, <1>3, OneMoreRow
  <1>5. entry \in Serving
    BY UsageLogsTypes DEF UsageLogsInv, UsageLogsTypeOK
  <1>6. serving' \in [Served -> Serving]
    BY <1>1, <1>5 DEF Serves, UsageLogsInv, UsageLogsTypeOK
  <1>7. /\ clock' \in Instant /\ backendName' \in Names
        /\ logs' \subseteq history' /\ history' \subseteq LogRow
    BY <1>1, <1>2, <1>3 DEF Serves, UsageLogsInv, UsageLogsTypeOK
  <1> QED
    BY <1>4, <1>6, <1>7 DEF UsageLogsInv, UsageLogsTypeOK

\* A request's other steps change what it will store.
LEMMA ServesKeeps ==
  ASSUME UsageLogsInv, NEW q \in Served, NEW entry \in Serving,
         Serves(q, entry), UNCHANGED <<logs, hourly, history>>
  PROVE  UsageLogsInv'
  <1>1. UsageLogsTypeOK'
    BY DEF Serves, UsageLogsInv, UsageLogsTypeOK
  <1> QED
    BY <1>1, NoRowKeeps

LEMMA ServingKeeps ==
  ASSUME UsageLogsInv, NEW q \in Served,
         \/ AdmitRequest(q) \/ ListNames(q) \/ BeginTurn(q) \/ EndWithoutRow(q)
  PROVE  UsageLogsInv'
  <1>1. /\ serving[q] \in Serving /\ IdleServing \in Serving
        /\ clock \in Instant /\ backendName \in Names
    BY UsageLogsTypes DEF UsageLogsInv, UsageLogsTypeOK
  <1>2. CASE AdmitRequest(q)
    <2>1. [IdleServing EXCEPT !.busy = TRUE, !.at = clock] \in Serving
      BY <1>1 DEF Serving
    <2> QED
      BY <1>2, <2>1, ServesKeeps DEF AdmitRequest
  <1>3. CASE ListNames(q)
    <2>1. [serving[q] EXCEPT !.listed = backendName] \in Serving
      BY <1>1 DEF Serving
    <2> QED
      BY <1>3, <2>1, ServesKeeps DEF ListNames
  <1>4. CASE BeginTurn(q)
    <2>1. \A s \in Series : [serving[q] EXCEPT !.series = s] \in Serving
      BY <1>1 DEF Serving
    <2> QED
      BY <1>4, <2>1, ServesKeeps DEF BeginTurn
  <1>5. CASE EndWithoutRow(q)
    BY <1>1, <1>5, ServesKeeps DEF EndWithoutRow
  <1> QED
    BY <1>2, <1>3, <1>4, <1>5

LEMMA UsageLogsKeep == UsageLogsInv /\ UsageLogsNext => UsageLogsInv'
  <1> SUFFICES ASSUME UsageLogsInv, UsageLogsNext PROVE UsageLogsInv'
    OBVIOUS
  <1>1. CASE ClockTicks
    <2>1. clock' \in Instant
      BY <1>1, UsageLogsTypes DEF ClockTicks, UsageLogsInv, UsageLogsTypeOK
    <2>2. UsageLogsTypeOK'
      BY <1>1, <2>1 DEF ClockTicks, UsageLogsInv, UsageLogsTypeOK
    <2> QED
      BY <1>1, <2>2, NoRowKeeps DEF ClockTicks
  <1>2. CASE RenameBackend
    <2>1. backendName' \in Names
      BY <1>2 DEF RenameBackend, UsageLogsInv, UsageLogsTypeOK, Names
    <2>2. UsageLogsTypeOK'
      BY <1>2, <2>1 DEF RenameBackend, UsageLogsInv, UsageLogsTypeOK
    <2> QED
      BY <1>2, <2>2, NoRowKeeps DEF RenameBackend
  <1>3. CASE RestartServing
    <2>1. UsageLogsTypeOK'
      BY <1>3, UsageLogsTypes
      DEF RestartServing, UsageLogsInv, UsageLogsTypeOK
    <2> QED
      BY <1>3, <2>1, NoRowKeeps DEF RestartServing
  <1>4. CASE \E filter \in Filters : ClearLogs(filter)
    <2>1. logs' \subseteq logs /\ UNCHANGED <<clock, backendName, serving, hourly, history>>
      BY <1>4 DEF ClearLogs
    <2>2. UsageLogsTypeOK'
      BY <2>1 DEF UsageLogsInv, UsageLogsTypeOK
    <2> QED
      BY <2>1, <2>2, NoRowKeeps
  <1> QED
    BY <1>1, <1>2, <1>3, <1>4, ServingKeeps, AppendRowKeeps DEF UsageLogsNext

-----------------------------------------------------------------------------

\* The texts of two instants are in the order of their seconds.
LEMMA TextFollowsSeconds ==
  ASSUME NEW s \in Instant, NEW t \in Instant
  PROVE  /\ TextNotAfter(s, t) => s.sec <= t.sec
         /\ s.sec < t.sec => TextNotAfter(s, t)
  BY DEF TextNotAfter, Instant

LEMMA ClearedBySeconds == UsageLogsInv => ClearsByTheSecond
  <1> SUFFICES ASSUME UsageLogsInv, NEW row \in logs, NEW filter \in Filters
               PROVE  /\ row \in Cleared(filter) => WithinSeconds(row.at, filter)
                      /\ filter.name \in {NoName, row.name} /\ WellWithin(row.at, filter) =>
                           row \in Cleared(filter)
    BY DEF ClearsByTheSecond
  <1>1. row.at \in Instant
    BY DEF UsageLogsInv, UsageLogsTypeOK, LogRow
  <1>2. /\ filter.from # NoTime => filter.from \in Instant
        /\ filter.to # NoTime => filter.to \in Instant
    BY UsageLogsAssumption DEF Filters
  <1>3. ASSUME filter.from # NoTime
        PROVE  /\ TextNotAfter(filter.from, row.at) => filter.from.sec <= row.at.sec
               /\ filter.from.sec < row.at.sec => TextNotAfter(filter.from, row.at)
    BY <1>1, <1>2, <1>3, TextFollowsSeconds
  <1>4. ASSUME filter.to # NoTime
        PROVE  /\ TextNotAfter(row.at, filter.to) => row.at.sec <= filter.to.sec
               /\ row.at.sec < filter.to.sec => TextNotAfter(row.at, filter.to)
    BY <1>1, <1>2, <1>4, TextFollowsSeconds
  <1>5. row \in Cleared(filter) => WithinSeconds(row.at, filter)
    BY <1>3, <1>4 DEF Cleared, Matches, WithinSeconds
  <1>6. filter.name \in {NoName, row.name} /\ WellWithin(row.at, filter) =>
          row \in Cleared(filter)
    BY <1>3, <1>4 DEF Cleared, Matches, WellWithin
  <1> QED
    BY <1>5, <1>6
=============================================================================
