------------------------- MODULE BackendPool_proofs -------------------------
(***************************************************************************)
(* What holds of BackendPool for any number of backends, requests, edits   *)
(* and console handlers, any threshold and cooldown.                       *)
(***************************************************************************)
EXTENDS BackendPool, WellFoundedInduction, TLAPS

-----------------------------------------------------------------------------
(* Operators on times and rows.                                            *)

\* The threshold in force is positive, whatever TG_BACKEND_FAILS is.
LEMMA ThresholdPositive == Threshold \in Nat \ {0}
  BY BackendFailsAssumption DEF Threshold

\* A later clock value and a recovery time are instants.
LEMMA TimesAreInstants ==
  ASSUME NEW t \in Instant
  PROVE  After(t) \in Instant /\ AddSeconds(t, Cooldown) \in Instant
  BY FracAssumption, CooldownAssumption DEF Instant, After, AddSeconds

\* The clock moves forward.
LEMMA ClockAdvances ==
  ASSUME NEW t \in Instant, NEW s \in Instant, NotAfter(s, t)
  PROVE  NotAfter(s, After(t))
  BY FracAssumption DEF Instant, After, NotAfter

\* A recovery time stays bounded when the clock moves forward.
LEMMA BoundAdvances ==
  ASSUME NEW t \in Instant, NEW s \in Instant,
         NotAfter(s, AddSeconds(t, Cooldown))
  PROVE  NotAfter(s, AddSeconds(After(t), Cooldown))
  BY FracAssumption, CooldownAssumption DEF Instant, After, AddSeconds, NotAfter

\* A cooldown added to an earlier time ends no later than one from now.
LEMMA CooldownMonotone ==
  ASSUME NEW s \in Instant, NEW t \in Instant, NotAfter(s, t)
  PROVE  NotAfter(AddSeconds(s, Cooldown), AddSeconds(t, Cooldown))
  BY CooldownAssumption DEF Instant, AddSeconds, NotAfter

\* Every statement stores a well-formed row.
LEMMA RowsAreRows ==
  /\ \A w \in Int : CreatedRow(w) \in Row
  /\ \A s \in Status, f \in Nat, w \in Int : ImportedRow(s, f, w) \in Row
  /\ \A row \in Row : SucceededRow(row) \in Row
  /\ \A row \in Row, t \in Instant, r \in Row : FailedRow(row, t, r) \in Row
  /\ \A r \in Row, s \in PayloadStatus, w \in Int : EditedRow(r, s, w) \in Row
  <1> USE DEF Row, Status, OptionalInstant
  <1>0. \A w \in Int : NormalizedWeight(w) \in Nat \ {0}
    BY DEF NormalizedWeight
  <1>1. \A w \in Int : CreatedRow(w) \in Row
    BY <1>0 DEF CreatedRow
  <1>2. \A s \in Status, f \in Nat, w \in Int : ImportedRow(s, f, w) \in Row
    BY <1>0 DEF ImportedRow
  <1>3. \A row \in Row : SucceededRow(row) \in Row
    BY DEF SucceededRow, WithHealth
  <1>4. \A row \in Row, t \in Instant, r \in Row : FailedRow(row, t, r) \in Row
    <2> SUFFICES ASSUME NEW row \in Row, NEW t \in Instant, NEW r \in Row
                 PROVE  FailedRow(row, t, r) \in Row
      OBVIOUS
    <2>1. AddSeconds(t, Cooldown) \in Instant
      BY TimesAreInstants
    <2> QED
      BY <2>1 DEF FailedRow, WithHealth
  <1>5. \A r \in Row, s \in PayloadStatus, w \in Int : EditedRow(r, s, w) \in Row
    <2> SUFFICES ASSUME NEW r \in Row, NEW s \in PayloadStatus, NEW w \in Int
                 PROVE  EditedRow(r, s, w) \in Row
      OBVIOUS
    <2>1. CASE s = "" \/ s = r.status
      BY <1>0, <2>1 DEF EditedRow
    <2>2. CASE ~(s = "" \/ s = r.status)
      BY <1>0, <2>2 DEF EditedRow, PayloadStatus
    <2> QED
      BY <2>1, <2>2
  <1> QED
    BY <1>1, <1>2, <1>3, <1>4, <1>5

\* The loop's candidate is unique: weight, then id, is a total order.
LEMMA FirstIsUnique ==
  ASSUME NEW S \in SUBSET Candidate, NEW c, NEW d,
         IsFirst(c, S), IsFirst(d, S)
  PROVE  c = d
  BY MaxIdAssumption DEF IsFirst, Candidate, Ids

\* A list of candidates that names no backend twice.
NamedOnce(S) == \A c \in S, d \in S : c.id = d.id => c = d

\* A first candidate stays first, or makes way for a new one: the order of
\* the list is total.
LEMMA FirstOfMore ==
  ASSUME NEW S \in SUBSET Candidate, NEW e \in Candidate, NEW c,
         \A d \in S : d.id # e.id, IsFirst(c, S)
  PROVE  IsFirst(c, S \cup {e}) \/ IsFirst(e, S \cup {e})
  <1>1. /\ c \in S /\ c.weight \in Nat /\ c.id \in Nat
        /\ e.weight \in Nat /\ e.id \in Nat /\ c.id # e.id
    BY MaxIdAssumption DEF IsFirst, Candidate, Ids
  <1>2. \A d \in S : d.weight \in Nat /\ d.id \in Nat
    BY MaxIdAssumption DEF Candidate, Ids
  <1>3. CASE e.weight < c.weight \/ (e.weight = c.weight /\ c.id < e.id)
    BY <1>1, <1>3 DEF IsFirst
  <1>4. CASE c.weight < e.weight \/ (e.weight = c.weight /\ e.id < c.id)
    BY <1>1, <1>2, <1>4 DEF IsFirst
  <1> QED
    BY <1>1, <1>3, <1>4

\* A list that is not empty has a first candidate, however many it holds.
LEMMA FirstExists ==
  ASSUME NEW S \in SUBSET Candidate, NamedOnce(S), S # {}
  PROVE  \E c \in S : IsFirst(c, S)
  <1> DEFINE Below(n) == { d \in S : d.id <= n }
             HasFirst(n) == Below(n) # {} => \E c : IsFirst(c, Below(n))
             Without == { n \in Nat : ~HasFirst(n) }
             R == { ss \in Nat \X Nat : ss[1] < ss[2] }
  <1>0. \A d \in S : d.id \in Nat \ {0} /\ d.id <= MaxId
    BY MaxIdAssumption DEF Candidate, Ids
  <1>1. SUFFICES ASSUME Without # {} PROVE FALSE
    <2>1. HasFirst(MaxId)
      BY <1>1, MaxIdAssumption
    <2>2. Below(MaxId) = S
      BY <1>0
    <2> HIDE DEF Below
    <2> QED
      BY <2>1, <2>2 DEF IsFirst
  <1>2. PICK n \in Without : \A k \in Without : <<k, n>> \notin R
    <2>1. IsWellFoundedOn(R, Nat)
      BY NatLessThanWellFounded DEF OpToRel
    <2>2. Without \subseteq Nat
      OBVIOUS
    <2> HIDE DEF Without, R
    <2> QED
      BY <1>1, <2>1, <2>2, WFMin
  <1>3. n \in Nat /\ Below(n) # {} /\ ~\E c : IsFirst(c, Below(n))
    BY <1>2
  <1>4. n # 0
    BY <1>0, <1>3
  <1>5. HasFirst(n - 1)
    <2>1. n - 1 \in Nat /\ n - 1 < n
      BY <1>3, <1>4
    <2>2. <<n - 1, n>> \in R
      BY <1>3, <2>1
    <2>3. n - 1 \notin Without
      BY <1>2, <2>2
    <2> QED
      BY <2>1, <2>3
  <1>6. PICK e \in S : e.id = n
    <2>1. SUFFICES ASSUME \A e \in S : e.id # n PROVE FALSE
      OBVIOUS
    <2>2. Below(n - 1) = Below(n)
      BY <1>0, <1>3, <2>1
    <2> HIDE DEF Below
    <2> QED
      BY <1>3, <1>5, <2>2
  <1>7. Below(n) = Below(n - 1) \cup {e}
    BY <1>0, <1>3, <1>6 DEF NamedOnce
  <1>8. CASE Below(n - 1) = {}
    <2>1. Below(n) = {e}
      BY <1>7, <1>8
    <2>2. IsFirst(e, {e})
      BY DEF IsFirst
    <2> HIDE DEF Below
    <2> QED
      BY <1>3, <2>1, <2>2
  <1>9. CASE Below(n - 1) # {}
    <2>1. PICK c : IsFirst(c, Below(n - 1))
      BY <1>5, <1>9
    <2>2. /\ Below(n - 1) \in SUBSET Candidate /\ e \in Candidate
          /\ \A d \in Below(n - 1) : d.id # e.id
      BY <1>0, <1>3, <1>6
    <2> HIDE DEF Below
    <2>3. \E f : IsFirst(f, Below(n - 1) \cup {e})
      BY <2>1, <2>2, FirstOfMore
    <2> QED
      BY <1>3, <1>7, <2>3
  <1> QED
    BY <1>8, <1>9

-----------------------------------------------------------------------------
(* Type correctness.                                                       *)

Rows == [Ids -> Row \cup {NoRow}]

\* The conjuncts of TypeOK about the goroutines of proxied requests.
RequestOK ==
  /\ pc \in [Requests -> {"idle", "listing", "trying", "marking"}]
  /\ left \in [Requests -> SUBSET Candidate]
  /\ read \in [Requests -> Row \cup {NoRow}]
  /\ at \in [Requests -> OptionalInstant]
  /\ \A r \in Requests :
       pc[r] = "marking" => read[r] # NoRow /\ at[r] # NoTime

\* An UPDATE keeps the table well formed.
LEMMA UpdateRowType ==
  ASSUME table \in Rows, NEW b \in Ids, NEW row \in Row, UpdateRow(b, row)
  PROVE  table' \in Rows
  BY DEF UpdateRow, Rows

\* An INSERT keeps the table, the next id and the tally well formed.
LEMMA InsertType ==
  ASSUME table \in Rows, nextId \in 1 .. MaxId + 1, tally \in [Ids -> Nat],
         NEW row \in Row, NEW f \in Nat, Insert(row, f)
  PROVE  table' \in Rows /\ nextId' \in 1 .. MaxId + 1 /\ tally' \in [Ids -> Nat]
  BY MaxIdAssumption DEF Insert, Rows, Ids

\* A request that goes on, or ends, keeps the requests well formed.
LEMMA GoOnType ==
  ASSUME RequestOK, NEW r \in Requests, NEW S \in SUBSET Candidate, GoOn(r, S)
  PROVE  RequestOK'
  BY DEF GoOn, RequestOK, OptionalInstant

\* The rows of a listing become candidates.
LEMMA EligibleType ==
  ASSUME table \in Rows, NEW served \in SUBSET Ids
  PROVE  Eligible(served) \in SUBSET Candidate
  BY NoRowAssumption DEF Eligible, Candidate, Rows, Row

\* One step of a request.
LEMMA RequestStepType ==
  ASSUME TypeOK, NEW r \in Requests, RequestStep(r)
  PROVE  TypeOK'
  <1> USE DEF RequestOK, Rows
  <1>0. RequestOK /\ table \in Rows
    BY DEF TypeOK
  <1>1. CASE RecoverExpired(r)
    <2>1. table' \in Rows
      BY <1>1, <1>0, RowsAreRows DEF RecoverExpired, Expired
    <2>2. RequestOK'
      BY <1>1, <1>0 DEF RecoverExpired
    <2> QED
      BY <1>1, <2>1, <2>2 DEF RecoverExpired, TypeOK
  <1>2. CASE ListCandidates(r)
    <2>1. PICK served \in SUBSET Ids : GoOn(r, Eligible(served))
      BY <1>2 DEF ListCandidates
    <2>2. RequestOK'
      BY <2>1, <1>0, EligibleType, GoOnType
    <2> QED
      BY <1>2, <2>2 DEF ListCandidates, TypeOK
  <1>3. CASE AttemptSucceeds(r)
    <2>1. PICK c \in left[r] : UpdateRow(c.id, SucceededRow(table[c.id]))
      BY <1>3 DEF AttemptSucceeds
    <2>2. c.id \in Ids
      BY <1>0 DEF Candidate
    <2>3. table' \in Rows
      <3>1. CASE table[c.id] = NoRow
        BY <2>1, <2>2, <3>1, <1>0 DEF UpdateRow
      <3>2. CASE table[c.id] # NoRow
        <4>1. SucceededRow(table[c.id]) \in Row
          BY <3>2, <2>2, <1>0, RowsAreRows
        <4> QED
          BY <4>1, <2>1, <2>2, <1>0, UpdateRowType
      <3> QED
        BY <3>1, <3>2
    <2>4. RequestOK'
      BY <1>3, <1>0, GoOnType DEF AttemptSucceeds
    <2> QED
      BY <1>3, <2>3, <2>4 DEF AttemptSucceeds, TypeOK
  <1>4. CASE AttemptFails(r)
    <2>1. PICK c \in left[r] :
            /\ table[c.id] # NoRow
            /\ tally' = [tally EXCEPT ![c.id] = @ + 1]
            /\ read' = [read EXCEPT ![r] = table[c.id]]
      BY <1>4 DEF AttemptFails
    <2>2. c.id \in Ids
      BY <1>0 DEF Candidate
    <2>3. tally' \in [Ids -> Nat]
      BY <2>1, <2>2 DEF TypeOK
    <2>4. clock # NoTime /\ clock \in OptionalInstant
      BY NoTimeAssumption DEF TypeOK, OptionalInstant
    <2>5. RequestOK'
      BY <1>4, <1>0, <2>1, <2>2, <2>4 DEF AttemptFails
    <2> QED
      BY <1>4, <2>3, <2>5 DEF AttemptFails, TypeOK
  <1>5. CASE RecordFailure(r)
    <2>1. PICK c \in left[r] :
            /\ UpdateRow(c.id, FailedRow(table[c.id], at[r], read[r]))
            /\ GoOn(r, left[r] \ {c})
      BY <1>5 DEF RecordFailure
    <2>2. c.id \in Ids
      BY <1>0 DEF Candidate
    <2>3. at[r] \in Instant /\ read[r] \in Row
      BY <1>5, <1>0 DEF RecordFailure, OptionalInstant
    <2>4. table' \in Rows
      <3>1. CASE table[c.id] = NoRow
        BY <2>1, <2>2, <3>1, <1>0 DEF UpdateRow
      <3>2. CASE table[c.id] # NoRow
        <4>1. FailedRow(table[c.id], at[r], read[r]) \in Row
          BY <3>2, <2>2, <2>3, <1>0, RowsAreRows
        <4> QED
          BY <4>1, <2>1, <2>2, <1>0, UpdateRowType
      <3> QED
        BY <3>1, <3>2
    <2>5. RequestOK'
      <3>1. left[r] \ {c} \in SUBSET Candidate
        BY <1>0
      <3> QED
        BY <3>1, <2>1, <1>0, GoOnType
    <2> QED
      BY <1>5, <2>4, <2>5 DEF RecordFailure, TypeOK
  <1>6. CASE SkipCandidate(r)
    <2>1. PICK c \in left[r] : GoOn(r, left[r] \ {c})
      BY <1>6 DEF SkipCandidate
    <2>2. left[r] \ {c} \in SUBSET Candidate
      BY <1>0
    <2>3. RequestOK'
      BY <2>1, <2>2, <1>0, GoOnType
    <2> QED
      BY <1>6, <2>3 DEF SkipCandidate, TypeOK
  <1>7. CASE AbandonRequest(r)
    <2>1. RequestOK'
      BY <1>7, <1>0, GoOnType DEF AbandonRequest
    <2> QED
      BY <1>7, <2>1 DEF AbandonRequest, TypeOK
  <1> QED
    BY <1>1, <1>2, <1>3, <1>4, <1>5, <1>6, <1>7 DEF RequestStep

\* One step of an administrator.
LEMMA AdminStepType ==
  ASSUME TypeOK, AdminStep
  PROVE  TypeOK'
  <1> USE DEF RequestOK, Rows
  <1>0. table \in Rows
    BY DEF TypeOK
  <1>1. CASE CreateBackend
    <2>1. PICK w \in PayloadWeights : Insert(CreatedRow(w), 0)
      BY <1>1 DEF CreateBackend
    <2>2. CreatedRow(w) \in Row
      BY PayloadAssumption, RowsAreRows
    <2>3. table' \in Rows /\ nextId' \in 1 .. MaxId + 1 /\ tally' \in [Ids -> Nat]
      BY <2>1, <2>2, InsertType DEF TypeOK
    <2> QED
      BY <1>1, <2>3 DEF CreateBackend, TypeOK, request
  <1>2. CASE ImportBackend
    <2>1. PICK s \in Status, f \in ImportFailures, w \in PayloadWeights :
            Insert(ImportedRow(s, f, w), f)
      BY <1>2 DEF ImportBackend
    <2>2. ImportedRow(s, f, w) \in Row /\ f \in Nat
      BY PayloadAssumption, RowsAreRows
    <2>3. table' \in Rows /\ nextId' \in 1 .. MaxId + 1 /\ tally' \in [Ids -> Nat]
      BY <2>1, <2>2, InsertType DEF TypeOK
    <2> QED
      BY <1>2, <2>3 DEF ImportBackend, TypeOK, request
  <1>3. ASSUME NEW b \in Ids, DeleteBackend(b)
        PROVE  TypeOK'
    BY <1>3 DEF DeleteBackend, TypeOK, request
  <1>4. ASSUME NEW a \in Admins, NEW b \in Ids, EditRead(a, b)
        PROVE  TypeOK'
    <2>1. [id |-> b, row |-> table[b]] \in EditCopy
      BY <1>4, <1>0 DEF EditRead, EditCopy
    <2>2. edit' \in [Admins -> EditCopy \cup {NoCopy}]
      BY <1>4, <2>1 DEF EditRead, TypeOK
    <2> QED
      BY <1>4, <2>2 DEF EditRead, TypeOK, request
  <1>5. ASSUME NEW a \in Admins, NEW s \in PayloadStatus, NEW w \in PayloadWeights,
               EditWrite(a, s, w)
        PROVE  TypeOK'
    <2>1. edit[a] \in EditCopy
      BY <1>5 DEF EditWrite, TypeOK
    <2>2. edit[a].id \in Ids /\ edit[a].row \in Row
      BY <2>1 DEF EditCopy
    <2>3. EditedRow(edit[a].row, s, w) \in Row
      BY <2>2, PayloadAssumption, RowsAreRows
    <2>4. table' \in Rows
      BY <1>5, <1>0, <2>2, <2>3, UpdateRowType DEF EditWrite
    <2> QED
      BY <1>5, <2>4 DEF EditWrite, TypeOK, request
  <1>6. ASSUME NEW a \in Admins, EditRefused(a)
        PROVE  TypeOK'
    BY <1>6 DEF EditRefused, TypeOK, request
  <1> QED
    BY <1>1, <1>2, <1>3, <1>4, <1>5, <1>6 DEF AdminStep

\* One step of a console handler.
LEMMA ConsoleStepType ==
  ASSUME TypeOK, NEW k \in Consoles, ConsoleStep(k)
  PROVE  TypeOK'
  <1> USE DEF RequestOK, Rows
  <1>0. table \in Rows
    BY DEF TypeOK
  <1>1. ASSUME NEW b \in Ids, ConsoleRead(k, b)
        PROVE  TypeOK'
    <2>1. [id |-> b, row |-> table[b], writes |-> 0, fresh |-> TRUE] \in ConsoleCopy
      BY <1>1, <1>0 DEF ConsoleRead, ConsoleCopy
    <2>2. console' \in [Consoles -> ConsoleCopy \cup {NoCopy}]
      BY <1>1, <2>1 DEF ConsoleRead, TypeOK
    <2> QED
      BY <1>1, <2>2 DEF ConsoleRead, TypeOK, request
  <1>2. CASE ConsoleWrite(k)
    <2>1. console[k] \in ConsoleCopy
      BY <1>2 DEF ConsoleWrite, TypeOK
    <2>2. table' \in Rows
      BY <1>2, <1>0, <2>1, UpdateRowType DEF ConsoleWrite, ConsoleCopy
    <2>3. [console[k] EXCEPT !.writes = @ + 1, !.fresh = FALSE] \in ConsoleCopy
      <3>1. console[k].writes + 1 \in Nat
        BY <2>1 DEF ConsoleCopy
      <3> QED
        BY <2>1, <3>1, Zenon DEF ConsoleCopy
    <2>4. console' = [console EXCEPT ![k] =
                        [console[k] EXCEPT !.writes = @ + 1, !.fresh = FALSE]]
      BY <1>2 DEF ConsoleWrite, TypeOK
    <2>5. console' \in [Consoles -> ConsoleCopy \cup {NoCopy}]
      BY <2>3, <2>4 DEF TypeOK
    <2> QED
      BY <1>2, <2>2, <2>5 DEF ConsoleWrite, TypeOK, request
  <1>3. CASE ConsoleReread(k)
    <2>1. console[k] \in ConsoleCopy
      BY <1>3 DEF ConsoleReread, TypeOK
    <2>2. CASE table[console[k].id] = NoRow
      BY <1>3, <2>2 DEF ConsoleReread, TypeOK, request
    <2>3. CASE table[console[k].id] # NoRow
      <3>1. table[console[k].id] \in Row
        BY <2>1, <2>3, <1>0 DEF ConsoleCopy
      <3>2. [console[k] EXCEPT !.row = table[console[k].id], !.fresh = TRUE]
              \in ConsoleCopy
        BY <2>1, <3>1 DEF ConsoleCopy
      <3>3. console' = [console EXCEPT ![k] =
              [console[k] EXCEPT !.row = table[console[k].id], !.fresh = TRUE]]
        BY <1>3, <2>3 DEF ConsoleReread, TypeOK
      <3>4. console' \in [Consoles -> ConsoleCopy \cup {NoCopy}]
        BY <3>2, <3>3 DEF TypeOK
      <3> QED
        BY <1>3, <3>4 DEF ConsoleReread, TypeOK, request
    <2> QED
      BY <2>2, <2>3
  <1>4. CASE ConsoleEnd(k)
    BY <1>4 DEF ConsoleEnd, TypeOK, request
  <1> QED
    BY <1>1, <1>2, <1>3, <1>4 DEF ConsoleStep

\* Type correctness: every goroutine, table row and copy of a row keeps its
\* type in every reachable state.
THEOREM TypeCorrect == Spec => []TypeOK
  <1>1. Init => TypeOK
    BY FracAssumption, MaxIdAssumption
    DEF Init, TypeOK, Instant, OptionalInstant
  <1>2. TypeOK /\ [Next]_vars => TypeOK'
    <2> SUFFICES ASSUME TypeOK, [Next]_vars
                 PROVE  TypeOK'
      OBVIOUS
    <2>1. CASE Tick
      BY <2>1, TimesAreInstants DEF Tick, TypeOK, request
    <2>2. ASSUME NEW r \in Requests, RequestStep(r)
          PROVE  TypeOK'
      BY <2>2, RequestStepType
    <2>3. CASE AdminStep
      BY <2>3, AdminStepType
    <2>4. ASSUME NEW k \in Consoles, ConsoleStep(k)
          PROVE  TypeOK'
      BY <2>4, ConsoleStepType
    <2>5. CASE Restart
      BY <2>5 DEF Restart, TypeOK, OptionalInstant
    <2>6. CASE UNCHANGED vars
      BY <2>6 DEF vars, request, TypeOK
    <2> QED
      BY <2>1, <2>2, <2>3, <2>4, <2>5, <2>6 DEF Next
  <1> QED
    BY <1>1, <1>2, PTL DEF Spec

-----------------------------------------------------------------------------
(* The inductive invariant.  A row is written back from copies read some   *)
(* steps ago, so what is true of the table must be true of every copy, of  *)
(* the row MarkBackendFailure read with one failure to spare, and the ids  *)
(* of the copies must stay behind the ids still to be handed out.          *)

\* What no written row violates: a timer only in an abnormal row that reached
\* the threshold, ending within one cooldown, and no invented failure.
Sound(row, count, now) ==
  /\ row.recoverAt # NoTime =>
       /\ row.status = "abnormal"
       /\ row.failures >= Threshold
       /\ NotAfter(row.recoverAt, AddSeconds(now, Cooldown))
  /\ row.failures <= count

\* An id that was never handed out is nowhere.
IdsHandedOut ==
  /\ \A b \in Ids : nextId <= b => table[b] = NoRow
  /\ \A r \in Requests : \A c \in left[r] : c.id < nextId
  /\ \A a \in Admins : edit[a] # NoCopy => edit[a].id < nextId
  /\ \A k \in Consoles : console[k] # NoCopy => console[k].id < nextId

TableSound ==
  \A b \in Ids : table[b] # NoRow => Sound(table[b], tally[b], clock)

CopiesSound ==
  /\ \A a \in Admins :
       edit[a] # NoCopy => Sound(edit[a].row, tally[edit[a].id], clock)
  /\ \A k \in Consoles :
       console[k] # NoCopy => Sound(console[k].row, tally[console[k].id], clock)

\* What MarkBackendFailure read leaves room for the failure it will add, and
\* its time is not in the future.
MarksSound ==
  \A r \in Requests :
    pc[r] = "marking" =>
      /\ NotAfter(at[r], clock)
      /\ \A c \in left[r] :
           IsFirst(c, left[r]) => Sound(read[r], tally[c.id] - 1, clock)

IInv == TypeOK /\ IdsHandedOut /\ TableSound /\ CopiesSound /\ MarksSound

\* A row stays sound when the clock moves forward.
LEMMA SoundLater ==
  ASSUME NEW row \in Row, NEW n \in Int, NEW now \in Instant, Sound(row, n, now)
  PROVE  Sound(row, n, After(now))
  <1>1. CASE row.recoverAt = NoTime
    BY <1>1 DEF Sound
  <1>2. CASE row.recoverAt # NoTime
    <2>1. row.recoverAt \in Instant
      BY <1>2 DEF Row, OptionalInstant
    <2>2. NotAfter(row.recoverAt, AddSeconds(After(now), Cooldown))
      BY <1>2, <2>1, BoundAdvances DEF Sound
    <2> QED
      BY <2>2 DEF Sound
  <1> QED
    BY <1>1, <1>2

\* A row stays sound when more failures are counted.
LEMMA SoundMore ==
  ASSUME NEW row \in Row, NEW n \in Int, NEW m \in Int, n <= m, NEW now,
         Sound(row, n, now)
  PROVE  Sound(row, m, now)
  BY DEF Sound, Row

\* What the statements write without a failure is sound.
LEMMA WrittenSound ==
  ASSUME NEW now \in Instant
  PROVE  /\ \A w : Sound(CreatedRow(w), 0, now)
         /\ \A s, w : \A f \in Nat : Sound(ImportedRow(s, f, w), f, now)
         /\ \A row : \A n \in Nat : Sound(SucceededRow(row), n, now)
  BY DEF Sound, CreatedRow, ImportedRow, SucceededRow, WithHealth

\* An edit of a sound copy is sound.
LEMMA EditedSound ==
  ASSUME NEW row \in Row, NEW n \in Nat, NEW now, NEW s, NEW w, Sound(row, n, now)
  PROVE  Sound(EditedRow(row, s, w), n, now)
  <1>1. CASE s = "" \/ s = row.status
    BY <1>1 DEF EditedRow, Sound, Row
  <1>2. CASE ~(s = "" \/ s = row.status)
    <2>1. EditedRow(row, s, w) =
            [status |-> s, failures |-> 0, recoverAt |-> NoTime,
             weight |-> NormalizedWeight(w)]
      BY <1>2, Zenon DEF EditedRow
    <2> QED
      BY <2>1 DEF Sound
  <1> QED
    BY <1>1, <1>2

\* What MarkBackendFailure writes is sound when what it read leaves room.
LEMMA FailedSound ==
  ASSUME NEW row, NEW r \in Row, NEW n \in Int, NEW t \in Instant,
         NEW now \in Instant, NotAfter(t, now), Sound(r, n - 1, now)
  PROVE  Sound(FailedRow(row, t, r), n, now)
  <1>1. r.failures + 1 <= n /\ r.failures \in Nat
    BY DEF Sound, Row
  <1>2. NotAfter(AddSeconds(t, Cooldown), AddSeconds(now, Cooldown))
    BY CooldownMonotone
  <1>3. CASE r.status # "disabled" /\ r.failures + 1 >= Threshold
    <2>1. FailedRow(row, t, r) =
            [status |-> "abnormal", failures |-> r.failures + 1,
             recoverAt |-> AddSeconds(t, Cooldown), weight |-> row.weight]
      BY <1>3 DEF FailedRow, WithHealth
    <2> QED
      BY <1>1, <1>2, <1>3, <2>1 DEF Sound
  <1>4. CASE ~(r.status # "disabled" /\ r.failures + 1 >= Threshold)
    <2>1. FailedRow(row, t, r) =
            [status |-> r.status, failures |-> r.failures + 1,
             recoverAt |-> r.recoverAt, weight |-> row.weight]
      BY <1>4 DEF FailedRow, WithHealth
    <2>2. r.failures >= Threshold => r.failures + 1 >= Threshold
      BY <1>1, ThresholdPositive
    <2> QED
      BY <1>1, <2>1, <2>2 DEF Sound
  <1> QED
    BY <1>3, <1>4

\* An UPDATE with a sound row keeps the table sound and invents no id.
LEMMA UpdateSound ==
  ASSUME IInv, NEW b \in Ids, NEW row, Sound(row, tally[b], clock),
         UpdateRow(b, row), UNCHANGED <<clock, nextId, tally>>
  PROVE  /\ TableSound'
         /\ \A d \in Ids : nextId' <= d => table'[d] = NoRow
  <1>1. \A d \in Ids : table'[d] = IF d = b /\ table[d] # NoRow THEN row ELSE table[d]
    BY DEF IInv, TypeOK, UpdateRow
  <1> QED
    BY <1>1 DEF IInv, TableSound, IdsHandedOut

\* A request that goes on, or ends, holds no mark and no new candidate.
LEMMA GoOnSound ==
  ASSUME IInv, NEW r \in Requests, NEW S \in SUBSET Candidate, GoOn(r, S),
         \A c \in S : c.id < nextId, UNCHANGED <<clock, nextId, tally>>
  PROVE  /\ MarksSound'
         /\ \A q \in Requests : \A c \in left'[q] : c.id < nextId'
  <1>1. \A q \in Requests :
          /\ left'[q] = IF q = r THEN S ELSE left[q]
          /\ q = r => pc'[q] # "marking"
          /\ q # r => pc'[q] = pc[q] /\ at'[q] = at[q] /\ read'[q] = read[q]
    BY DEF GoOn, IInv, TypeOK
  <1>2. MarksSound'
    BY <1>1 DEF IInv, MarksSound
  <1> QED
    BY <1>1, <1>2 DEF IInv, IdsHandedOut

\* Copies held by admins and console handlers stay sound while the counts
\* and the clock they are compared with stay.
LEMMA CopiesKept ==
  ASSUME IInv, UNCHANGED <<clock, nextId, tally, edit, console>>
  PROVE  /\ CopiesSound'
         /\ \A a \in Admins : edit'[a] # NoCopy => edit'[a].id < nextId'
         /\ \A k \in Consoles : console'[k] # NoCopy => console'[k].id < nextId'
  BY DEF IInv, CopiesSound, IdsHandedOut

\* One step of a request keeps the invariant.
LEMMA RequestStepSound ==
  ASSUME IInv, NEW r \in Requests, RequestStep(r)
  PROVE  IInv'
  <1>0. TypeOK /\ TypeOK'
    BY RequestStepType DEF IInv
  <1> SUFFICES IdsHandedOut' /\ TableSound' /\ CopiesSound' /\ MarksSound'
    BY <1>0 DEF IInv
  <1> USE DEF IInv
  <1>a. /\ left[r] \in SUBSET Candidate
        /\ \A c \in left[r] : c.id \in Ids /\ c.id < nextId
    BY <1>0 DEF TypeOK, IdsHandedOut, Candidate
  <1>b. clock \in Instant /\ (\A b \in Ids : tally[b] \in Nat)
    BY <1>0 DEF TypeOK
  <1>1. CASE RecoverExpired(r)
    <2>1. \A b \in Ids :
            \/ table'[b] = table[b]
            \/ table[b] # NoRow /\ table'[b] = SucceededRow(table[b])
      <3> SUFFICES ASSUME NEW b \in Ids
                   PROVE  \/ table'[b] = table[b]
                          \/ table[b] # NoRow /\ table'[b] = SucceededRow(table[b])
        OBVIOUS
      <3>1. table'[b] = IF Expired(table[b], clock) THEN SucceededRow(table[b])
                                                    ELSE table[b]
        BY <1>1 DEF RecoverExpired
      <3>2. Expired(table[b], clock) => table[b] # NoRow
        BY DEF Expired
      <3> QED
        BY <3>1, <3>2
    <2>2. TableSound'
      BY <1>1, <1>b, <2>1, WrittenSound DEF RecoverExpired, TableSound
    <2>3. MarksSound'
      BY <1>1, <1>0 DEF RecoverExpired, MarksSound, TypeOK
    <2>4. IdsHandedOut'
      BY <1>1, <2>1 DEF RecoverExpired, IdsHandedOut
    <2> QED
      BY <1>1, <2>2, <2>3, <2>4, CopiesKept DEF RecoverExpired
  <1>2. CASE ListCandidates(r)
    <2>1. PICK served \in SUBSET Ids : GoOn(r, Eligible(served))
      BY <1>2 DEF ListCandidates
    <2>2. /\ Eligible(served) \in SUBSET Candidate
          /\ \A c \in Eligible(served) : table[c.id] # NoRow /\ c.id \in Ids
      BY <1>0, EligibleType DEF TypeOK, Rows, Eligible
    <2>3. \A c \in Eligible(served) : c.id < nextId
      BY <2>2, <1>0, MaxIdAssumption DEF IdsHandedOut, TypeOK, Ids
    <2>4. /\ MarksSound'
          /\ \A q \in Requests : \A c \in left'[q] : c.id < nextId'
      BY <1>2, <2>1, <2>2, <2>3, GoOnSound DEF ListCandidates
    <2>5. TableSound' /\ (\A b \in Ids : nextId' <= b => table'[b] = NoRow)
      BY <1>2 DEF ListCandidates, TableSound, IdsHandedOut
    <2> QED
      BY <1>2, <2>4, <2>5, CopiesKept DEF ListCandidates, IdsHandedOut
  <1>3. CASE AttemptSucceeds(r)
    <2>1. PICK c \in left[r] : UpdateRow(c.id, SucceededRow(table[c.id]))
      BY <1>3 DEF AttemptSucceeds
    <2>2. Sound(SucceededRow(table[c.id]), tally[c.id], clock)
      BY <1>a, <1>b, WrittenSound
    <2>3. TableSound' /\ (\A b \in Ids : nextId' <= b => table'[b] = NoRow)
      BY <1>3, <1>a, <2>1, <2>2, UpdateSound DEF AttemptSucceeds
    <2>4. /\ MarksSound'
          /\ \A q \in Requests : \A d \in left'[q] : d.id < nextId'
      BY <1>3, GoOnSound DEF AttemptSucceeds
    <2> QED
      BY <1>3, <2>3, <2>4, CopiesKept DEF AttemptSucceeds, IdsHandedOut
  <1>4. CASE AttemptFails(r)
    <2>1. PICK c \in left[r] :
            /\ IsFirst(c, left[r])
            /\ table[c.id] # NoRow
            /\ tally' = [tally EXCEPT ![c.id] = @ + 1]
            /\ read' = [read EXCEPT ![r] = table[c.id]]
      BY <1>4 DEF AttemptFails
    <2>2. \A b \in Ids : tally'[b] \in Nat /\ tally[b] <= tally'[b]
      BY <1>0, <1>a, <2>1 DEF TypeOK
    <2>3. TableSound'
      <3> SUFFICES ASSUME NEW b \in Ids, table[b] # NoRow
                   PROVE  Sound(table[b], tally'[b], clock)
        BY <1>4 DEF AttemptFails, TableSound
      <3>1. table[b] \in Row /\ Sound(table[b], tally[b], clock)
        BY <1>0 DEF TypeOK, TableSound
      <3> QED
        BY <1>b, <2>2, <3>1, SoundMore
    <2>4. CopiesSound'
      <3>1. ASSUME NEW a \in Admins, edit[a] # NoCopy
            PROVE  Sound(edit[a].row, tally'[edit[a].id], clock)
        <4>1. edit[a].id \in Ids /\ edit[a].row \in Row
          BY <1>0, <3>1 DEF TypeOK, EditCopy
        <4>2. Sound(edit[a].row, tally[edit[a].id], clock)
          BY <3>1 DEF CopiesSound
        <4> QED
          BY <1>b, <2>2, <4>1, <4>2, SoundMore
      <3>2. ASSUME NEW k \in Consoles, console[k] # NoCopy
            PROVE  Sound(console[k].row, tally'[console[k].id], clock)
        <4>1. console[k].id \in Ids /\ console[k].row \in Row
          BY <1>0, <3>2 DEF TypeOK, ConsoleCopy
        <4>2. Sound(console[k].row, tally[console[k].id], clock)
          BY <3>2 DEF CopiesSound
        <4> QED
          BY <1>b, <2>2, <4>1, <4>2, SoundMore
      <3> QED
        BY <1>4, <3>1, <3>2 DEF AttemptFails, CopiesSound
    <2>5. MarksSound'
      <3> SUFFICES ASSUME NEW q \in Requests, pc'[q] = "marking"
                   PROVE  /\ NotAfter(at'[q], clock)
                          /\ \A d \in left[q] :
                               IsFirst(d, left[q]) =>
                                 Sound(read'[q], tally'[d.id] - 1, clock)
        BY <1>4 DEF AttemptFails, MarksSound
      <3>1. CASE q = r
        <4>1. at'[r] = clock /\ read'[r] = table[c.id]
          BY <1>4, <1>0, <2>1 DEF AttemptFails, TypeOK
        <4>2. NotAfter(clock, clock)
          BY <1>b DEF NotAfter, Instant
        <4>3. tally'[c.id] - 1 = tally[c.id]
          BY <1>0, <1>a, <1>b, <2>1 DEF TypeOK
        <4>4. Sound(table[c.id], tally[c.id], clock)
          BY <1>a, <2>1 DEF TableSound
        <4>5. \A d \in left[r] : IsFirst(d, left[r]) => d = c
          BY <1>a, <2>1, FirstIsUnique
        <4> QED
          BY <3>1, <4>1, <4>2, <4>3, <4>4, <4>5
      <3>2. CASE q # r
        <4>1. pc[q] = "marking" /\ at'[q] = at[q] /\ read'[q] = read[q]
          BY <1>4, <1>0, <2>1, <3>2 DEF AttemptFails, TypeOK
        <4>2. NotAfter(at'[q], clock)
          BY <4>1 DEF MarksSound
        <4>3. ASSUME NEW d \in left[q], IsFirst(d, left[q])
              PROVE  Sound(read'[q], tally'[d.id] - 1, clock)
          <5>1. d.id \in Ids
            BY <1>0 DEF TypeOK, Candidate
          <5>2. read[q] \in Row
            BY <1>0, <4>1 DEF TypeOK
          <5>3. Sound(read[q], tally[d.id] - 1, clock)
            BY <4>1, <4>3 DEF MarksSound
          <5>4. /\ tally[d.id] - 1 \in Int /\ tally'[d.id] - 1 \in Int
                /\ tally[d.id] - 1 <= tally'[d.id] - 1
            BY <1>b, <2>2, <5>1
          <5> QED
            BY <4>1, <5>2, <5>3, <5>4, SoundMore
        <4> QED
          BY <4>2, <4>3
      <3> QED
        BY <3>1, <3>2
    <2>6. IdsHandedOut'
      BY <1>4 DEF AttemptFails, IdsHandedOut
    <2> QED
      BY <2>3, <2>4, <2>5, <2>6
  <1>5. CASE RecordFailure(r)
    <2>1. PICK c \in left[r] :
            /\ IsFirst(c, left[r])
            /\ UpdateRow(c.id, FailedRow(table[c.id], at[r], read[r]))
            /\ GoOn(r, left[r] \ {c})
      BY <1>5 DEF RecordFailure
    <2>2. at[r] \in Instant /\ read[r] \in Row /\ tally[c.id] \in Int
      BY <1>5, <1>0, <1>a, <1>b DEF RecordFailure, TypeOK, OptionalInstant
    <2>3. NotAfter(at[r], clock) /\ Sound(read[r], tally[c.id] - 1, clock)
      BY <1>5, <2>1 DEF RecordFailure, MarksSound
    <2>4. Sound(FailedRow(table[c.id], at[r], read[r]), tally[c.id], clock)
      BY <1>b, <2>2, <2>3, FailedSound
    <2>5. TableSound' /\ (\A b \in Ids : nextId' <= b => table'[b] = NoRow)
      BY <1>5, <1>a, <2>1, <2>4, UpdateSound DEF RecordFailure
    <2>6. /\ MarksSound'
          /\ \A q \in Requests : \A d \in left'[q] : d.id < nextId'
      BY <1>5, <1>a, <2>1, GoOnSound DEF RecordFailure
    <2> QED
      BY <1>5, <2>5, <2>6, CopiesKept DEF RecordFailure, IdsHandedOut
  <1>6. CASE SkipCandidate(r) \/ AbandonRequest(r)
    <2>1. PICK S \in SUBSET left[r] : GoOn(r, S)
      BY <1>6 DEF SkipCandidate, AbandonRequest
    <2>2. UNCHANGED <<clock, table, nextId, tally, edit, console>>
      BY <1>6 DEF SkipCandidate, AbandonRequest
    <2>3. /\ MarksSound'
          /\ \A q \in Requests : \A d \in left'[q] : d.id < nextId'
      BY <1>a, <2>1, <2>2, GoOnSound
    <2>4. TableSound' /\ (\A b \in Ids : nextId' <= b => table'[b] = NoRow)
      BY <2>2 DEF TableSound, IdsHandedOut
    <2> QED
      BY <2>2, <2>3, <2>4, CopiesKept DEF IdsHandedOut
  <1> QED
    BY <1>1, <1>2, <1>3, <1>4, <1>5, <1>6 DEF RequestStep

\* An INSERT of a sound row under a new id keeps the invariant: no request,
\* edit or console handler can hold the id it hands out.
LEMMA InsertSound ==
  ASSUME IInv, TypeOK', NEW row, NEW f \in Nat, Sound(row, f, clock),
         Insert(row, f), UNCHANGED <<clock, request, edit, console>>
  PROVE  IInv'
  <1> USE DEF IInv
  <1>1. nextId \in Ids /\ nextId' = nextId + 1
    BY MaxIdAssumption DEF Insert, TypeOK, Ids
  <1>2. \A b \in Ids : /\ table'[b] = IF b = nextId THEN row ELSE table[b]
                       /\ tally'[b] = IF b = nextId THEN f ELSE tally[b]
    BY DEF Insert, TypeOK
  <1>3. TableSound'
    BY <1>1, <1>2 DEF TableSound
  <1>4. IdsHandedOut'
    <2>1. \A b \in Ids : nextId' <= b => nextId <= b /\ b # nextId
      BY <1>1, MaxIdAssumption DEF Ids
    <2>2. \A b \in Ids : nextId' <= b => table'[b] = NoRow
      BY <1>2, <2>1 DEF IdsHandedOut
    <2>3. \A r \in Requests : \A c \in left'[r] : c.id < nextId'
      BY <1>1, MaxIdAssumption DEF IdsHandedOut, TypeOK, Candidate, Ids, request
    <2>4. \A a \in Admins : edit'[a] # NoCopy => edit'[a].id < nextId'
      BY <1>1, MaxIdAssumption DEF IdsHandedOut, TypeOK, EditCopy, Ids
    <2>5. \A k \in Consoles : console'[k] # NoCopy => console'[k].id < nextId'
      BY <1>1, MaxIdAssumption DEF IdsHandedOut, TypeOK, ConsoleCopy, Ids
    <2> QED
      BY <2>2, <2>3, <2>4, <2>5 DEF IdsHandedOut
  <1>5. \A b \in Ids : b < nextId => tally'[b] = tally[b]
    BY <1>1, <1>2, MaxIdAssumption DEF Ids
  <1>6. CopiesSound'
    <2>1. \A a \in Admins :
            edit[a] # NoCopy => edit[a].id \in Ids /\ edit[a].id < nextId
      BY DEF TypeOK, EditCopy, IdsHandedOut
    <2>2. \A k \in Consoles :
            console[k] # NoCopy => console[k].id \in Ids /\ console[k].id < nextId
      BY DEF TypeOK, ConsoleCopy, IdsHandedOut
    <2> QED
      BY <1>5, <2>1, <2>2 DEF CopiesSound
  <1>7. MarksSound'
    <2>1. \A r \in Requests : \A c \in left[r] : c.id \in Ids /\ c.id < nextId
      BY DEF TypeOK, Candidate, IdsHandedOut
    <2> QED
      BY <1>5, <2>1 DEF MarksSound, request
  <1> QED
    BY <1>3, <1>4, <1>6, <1>7

\* One step of an administrator keeps the invariant.
LEMMA AdminStepSound ==
  ASSUME IInv, AdminStep
  PROVE  IInv'
  <1>0. TypeOK /\ TypeOK' /\ clock \in Instant
    BY AdminStepType DEF IInv, TypeOK
  <1>1. CASE CreateBackend
    BY <1>0, <1>1, WrittenSound, InsertSound DEF CreateBackend
  <1>2. CASE ImportBackend
    <2>1. PICK s \in Status, f \in ImportFailures, w \in PayloadWeights :
            Insert(ImportedRow(s, f, w), f)
      BY <1>2 DEF ImportBackend
    <2>2. f \in Nat /\ Sound(ImportedRow(s, f, w), f, clock)
      BY <1>0, PayloadAssumption, WrittenSound
    <2> QED
      BY <1>0, <1>2, <2>1, <2>2, InsertSound DEF ImportBackend
  <1>3. ASSUME NEW b \in Ids, DeleteBackend(b)
        PROVE  IInv'
    <2>1. \A d \in Ids : table'[d] = IF d = b THEN NoRow ELSE table[d]
      BY <1>0, <1>3 DEF DeleteBackend, TypeOK
    <2>2. TableSound' /\ (\A d \in Ids : nextId' <= d => table'[d] = NoRow)
      BY <1>3, <2>1 DEF DeleteBackend, IInv, TableSound, IdsHandedOut
    <2>3. MarksSound' /\ (\A r \in Requests : \A c \in left'[r] : c.id < nextId')
      BY <1>3 DEF DeleteBackend, IInv, MarksSound, IdsHandedOut, request
    <2> QED
      BY <1>0, <1>3, <2>2, <2>3, CopiesKept DEF DeleteBackend, IInv, IdsHandedOut
  <1>4. ASSUME NEW a \in Admins, NEW b \in Ids, EditRead(a, b)
        PROVE  IInv'
    <2>1. \A d \in Admins :
            edit'[d] = IF d = a THEN [id |-> b, row |-> table[b]] ELSE edit[d]
      BY <1>0, <1>4 DEF EditRead, TypeOK
    <2>2. b < nextId /\ Sound(table[b], tally[b], clock)
      BY <1>0, <1>4, MaxIdAssumption
      DEF EditRead, IInv, IdsHandedOut, TableSound, TypeOK, Ids
    <2>3. CopiesSound'
      BY <1>4, <2>1, <2>2 DEF EditRead, IInv, CopiesSound
    <2>4. IdsHandedOut'
      BY <1>4, <2>1, <2>2 DEF EditRead, IInv, IdsHandedOut, request
    <2>5. TableSound' /\ MarksSound'
      BY <1>4 DEF EditRead, IInv, TableSound, MarksSound, request
    <2> QED
      BY <1>0, <2>3, <2>4, <2>5 DEF IInv
  <1>5. ASSUME NEW a \in Admins, NEW s \in PayloadStatus, NEW w \in PayloadWeights,
               EditWrite(a, s, w)
        PROVE  IInv'
    <2>1. edit[a].id \in Ids /\ edit[a].row \in Row /\ tally[edit[a].id] \in Nat
      BY <1>0, <1>5 DEF EditWrite, TypeOK, EditCopy
    <2>2. Sound(EditedRow(edit[a].row, s, w), tally[edit[a].id], clock)
      BY <1>5, <2>1, EditedSound DEF EditWrite, IInv, CopiesSound
    <2>3. TableSound' /\ (\A b \in Ids : nextId' <= b => table'[b] = NoRow)
      BY <1>5, <2>1, <2>2, UpdateSound DEF EditWrite
    <2>4. \A d \in Admins : edit'[d] = IF d = a THEN NoCopy ELSE edit[d]
      BY <1>0, <1>5 DEF EditWrite, TypeOK
    <2>5. CopiesSound' /\ MarksSound'
      BY <1>5, <2>4 DEF EditWrite, IInv, CopiesSound, MarksSound, request
    <2>6. IdsHandedOut'
      BY <1>5, <2>3, <2>4 DEF EditWrite, IInv, IdsHandedOut, request
    <2> QED
      BY <1>0, <2>3, <2>5, <2>6 DEF IInv
  <1>6. ASSUME NEW a \in Admins, EditRefused(a)
        PROVE  IInv'
    <2>1. \A d \in Admins : edit'[d] = IF d = a THEN NoCopy ELSE edit[d]
      BY <1>0, <1>6 DEF EditRefused, TypeOK
    <2>2. CopiesSound' /\ MarksSound' /\ TableSound'
      BY <1>6, <2>1
      DEF EditRefused, IInv, CopiesSound, MarksSound, TableSound, request
    <2>3. IdsHandedOut'
      BY <1>6, <2>1 DEF EditRefused, IInv, IdsHandedOut, request
    <2> QED
      BY <1>0, <2>2, <2>3 DEF IInv
  <1> QED
    BY <1>1, <1>2, <1>3, <1>4, <1>5, <1>6 DEF AdminStep

\* One step of a console handler keeps the invariant.
LEMMA ConsoleStepSound ==
  ASSUME IInv, NEW k \in Consoles, ConsoleStep(k)
  PROVE  IInv'
  <1>0. TypeOK /\ TypeOK'
    BY ConsoleStepType DEF IInv
  <1>a. SUFFICES ASSUME UNCHANGED <<clock, nextId, tally, request, edit>>,
                        \A j \in Consoles : j # k => console'[j] = console[j]
                 PROVE  IInv'
    <2>1. UNCHANGED <<clock, nextId, tally, request, edit>>
      BY DEF ConsoleStep, ConsoleRead, ConsoleWrite, ConsoleReread, ConsoleEnd
    <2>2. \A j \in Consoles : j # k => console'[j] = console[j]
      BY <1>0 DEF TypeOK, ConsoleStep, ConsoleRead, ConsoleWrite, ConsoleReread,
                  ConsoleEnd
    <2> QED
      BY <2>1, <2>2
  <1> DEFINE Kept ==
        /\ TableSound'
        /\ \A b \in Ids : nextId' <= b => table'[b] = NoRow
        /\ console'[k] # NoCopy =>
             /\ Sound(console'[k].row, tally[console'[k].id], clock)
             /\ console'[k].id < nextId
  <1>b. SUFFICES Kept
    <2>1. MarksSound'
      BY <1>a DEF IInv, MarksSound, request
    <2>2. ASSUME Kept
          PROVE  CopiesSound' /\ IdsHandedOut'
      BY <1>a, <2>2 DEF IInv, CopiesSound, IdsHandedOut, request
    <2> QED
      BY <1>0, <2>1, <2>2 DEF IInv
  <1> USE DEF IInv
  <1>1. ASSUME NEW b \in Ids, ConsoleRead(k, b)
        PROVE  /\ table' = table
               /\ Sound(console'[k].row, tally[console'[k].id], clock)
               /\ console'[k].id < nextId
    <2>1. console'[k] = [id |-> b, row |-> table[b], writes |-> 0, fresh |-> TRUE]
      BY <1>0, <1>1 DEF ConsoleRead, TypeOK
    <2>2. b < nextId /\ Sound(table[b], tally[b], clock)
      BY <1>0, <1>1, MaxIdAssumption
      DEF ConsoleRead, IdsHandedOut, TableSound, TypeOK, Ids
    <2> QED
      BY <1>1, <2>1, <2>2 DEF ConsoleRead
  <1>2. CASE ConsoleWrite(k)
    <2>1. console[k] \in ConsoleCopy /\ console[k] # NoCopy
      BY <1>0, <1>2 DEF ConsoleWrite, TypeOK
    <2>2. /\ Sound(console[k].row, tally[console[k].id], clock)
          /\ console[k].id \in Ids /\ console[k].id < nextId
      BY <2>1 DEF CopiesSound, IdsHandedOut, ConsoleCopy
    <2>3. TableSound' /\ (\A b \in Ids : nextId' <= b => table'[b] = NoRow)
      BY <1>2, <1>a, <2>2, UpdateSound DEF ConsoleWrite
    <2>4. console'[k].row = console[k].row /\ console'[k].id = console[k].id
      BY <1>0, <1>2, <2>1 DEF ConsoleWrite, TypeOK, ConsoleCopy
    <2> QED
      BY <1>a, <2>2, <2>3, <2>4
  <1>3. CASE ConsoleReread(k)
    <2>1. console[k] \in ConsoleCopy /\ console[k] # NoCopy
      BY <1>0, <1>3 DEF ConsoleReread, TypeOK
    <2>2. console[k].id \in Ids /\ console[k].id < nextId
      BY <2>1 DEF IdsHandedOut, ConsoleCopy
    <2>3. table' = table
      BY <1>3 DEF ConsoleReread
    <2>4. CASE table[console[k].id] = NoRow
      <3>1. console'[k] = NoCopy
        BY <1>0, <1>3, <2>4 DEF ConsoleReread, TypeOK
      <3> QED
        BY <1>a, <2>3, <3>1 DEF TableSound, IdsHandedOut
    <2>5. CASE table[console[k].id] # NoRow
      <3>1. /\ console'[k].row = table[console[k].id]
            /\ console'[k].id = console[k].id
        BY <1>0, <1>3, <2>1, <2>5 DEF ConsoleReread, TypeOK, ConsoleCopy
      <3>2. Sound(table[console[k].id], tally[console[k].id], clock)
        BY <2>2, <2>5 DEF TableSound
      <3> QED
        BY <1>a, <2>2, <2>3, <3>1, <3>2 DEF TableSound, IdsHandedOut
    <2> QED
      BY <2>4, <2>5
  <1>4. CASE ConsoleEnd(k)
    <2>1. console'[k] = NoCopy /\ table' = table
      BY <1>0, <1>4 DEF ConsoleEnd, TypeOK
    <2> QED
      BY <1>a, <2>1 DEF TableSound, IdsHandedOut
  <1>5. ASSUME NEW b \in Ids, ConsoleRead(k, b)
        PROVE  Kept
    BY <1>a, <1>1, <1>5 DEF TableSound, IdsHandedOut
  <1> QED
    BY <1>2, <1>3, <1>4, <1>5 DEF ConsoleStep

\* The passing of time keeps the invariant.
LEMMA TickSound ==
  ASSUME IInv, TypeOK', Tick
  PROVE  IInv'
  <1> USE DEF IInv, Tick
  <1>0. clock \in Instant /\ clock' = After(clock)
    BY DEF TypeOK
  <1>1. TableSound'
    <2> SUFFICES ASSUME NEW b \in Ids, table[b] # NoRow
                 PROVE  Sound(table[b], tally[b], After(clock))
      BY <1>0 DEF TableSound
    <2>1. table[b] \in Row /\ tally[b] \in Int /\ Sound(table[b], tally[b], clock)
      BY DEF TypeOK, TableSound
    <2> QED
      BY <1>0, <2>1, SoundLater
  <1>2. ASSUME NEW a \in Admins, edit[a] # NoCopy
        PROVE  Sound(edit[a].row, tally[edit[a].id], After(clock))
    <2>1. edit[a].row \in Row /\ tally[edit[a].id] \in Int
      BY <1>2 DEF TypeOK, EditCopy
    <2> QED
      BY <1>0, <1>2, <2>1, SoundLater DEF CopiesSound
  <1>3. ASSUME NEW k \in Consoles, console[k] # NoCopy
        PROVE  Sound(console[k].row, tally[console[k].id], After(clock))
    <2>1. console[k].row \in Row /\ tally[console[k].id] \in Int
      BY <1>3 DEF TypeOK, ConsoleCopy
    <2> QED
      BY <1>0, <1>3, <2>1, SoundLater DEF CopiesSound
  <1>4. CopiesSound'
    BY <1>0, <1>2, <1>3 DEF CopiesSound
  <1>5. MarksSound'
    <2> SUFFICES ASSUME NEW r \in Requests, pc[r] = "marking"
                 PROVE  /\ NotAfter(at[r], After(clock))
                        /\ \A c \in left[r] :
                             IsFirst(c, left[r]) =>
                               Sound(read[r], tally[c.id] - 1, After(clock))
      BY <1>0 DEF MarksSound, request
    <2>1. at[r] \in Instant /\ read[r] \in Row
      BY DEF TypeOK, OptionalInstant
    <2>2. \A c \in left[r] : tally[c.id] - 1 \in Int
      BY DEF TypeOK, Candidate
    <2>3. NotAfter(at[r], After(clock))
      BY <1>0, <2>1, ClockAdvances DEF MarksSound
    <2> QED
      BY <1>0, <2>1, <2>2, <2>3, SoundLater DEF MarksSound
  <1>6. IdsHandedOut'
    BY DEF IdsHandedOut, request
  <1> QED
    BY <1>1, <1>4, <1>5, <1>6

\* IInv is inductive.
THEOREM Inductive == Spec => []IInv
  <1>1. Init => IInv
    <2> SUFFICES ASSUME Init
                 PROVE  IInv
      OBVIOUS
    <2>1. TypeOK
      BY FracAssumption, MaxIdAssumption
      DEF Init, TypeOK, Instant, OptionalInstant
    <2> QED
      BY <2>1 DEF Init, IInv, IdsHandedOut, TableSound, CopiesSound, MarksSound
  <1>2. IInv /\ [Next]_vars => IInv'
    <2> SUFFICES ASSUME IInv, [Next]_vars
                 PROVE  IInv'
      OBVIOUS
    <2>1. CASE Tick
      <3>1. TypeOK'
        BY <2>1, TimesAreInstants DEF Tick, IInv, TypeOK, request
      <3> QED
        BY <2>1, <3>1, TickSound
    <2>2. ASSUME NEW r \in Requests, RequestStep(r)
          PROVE  IInv'
      BY <2>2, RequestStepSound
    <2>3. CASE AdminStep
      BY <2>3, AdminStepSound
    <2>4. ASSUME NEW k \in Consoles, ConsoleStep(k)
          PROVE  IInv'
      BY <2>4, ConsoleStepSound
    <2>5. CASE Restart
      <3>1. TypeOK'
        BY <2>5 DEF Restart, IInv, TypeOK, OptionalInstant
      <3> QED
        BY <2>5, <3>1
        DEF Restart, IInv, IdsHandedOut, TableSound, CopiesSound, MarksSound
    <2>6. CASE UNCHANGED vars
      BY <2>6 DEF vars, request, IInv, TypeOK, IdsHandedOut, TableSound,
                  CopiesSound, MarksSound
    <2> QED
      BY <2>1, <2>2, <2>3, <2>4, <2>5, <2>6 DEF Next
  <1> QED
    BY <1>1, <1>2, PTL DEF Spec

-----------------------------------------------------------------------------
(* The properties of the runs.                                             *)

\* No row is left normal or disabled with a recovery timer running.
THEOREM NoStrayTimer == Spec => []TimerOnlyWhileAbnormal
  <1>1. IInv => TimerOnlyWhileAbnormal
    BY DEF IInv, TableSound, Sound, TimerOnlyWhileAbnormal
  <1> QED
    BY <1>1, Inductive, PTL

\* No interleaving of requests, edits and console handlers charges a backend
\* with more consecutive failures than attempts on it failed.
THEOREM FailuresAreReal == Spec => []NoInventedFailures
  <1>1. IInv => NoInventedFailures
    BY DEF IInv, TableSound, Sound, NoInventedFailures
  <1> QED
    BY <1>1, Inductive, PTL

\* No backend is quarantined for longer than one cooldown from now.
THEOREM QuarantineIsBounded == Spec => []QuarantineBounded
  <1>1. IInv => QuarantineBounded
    BY DEF IInv, TableSound, Sound, QuarantineBounded
  <1> QED
    BY <1>1, Inductive, PTL

\* The row of a backend changes only by one of these.
LEMMA RowChanges ==
  ASSUME IInv, [Next]_vars, NEW b \in Ids, table'[b] # table[b]
  PROVE  \/ b = nextId
         \/ table'[b] = NoRow
         \/ table[b] # NoRow /\ InFlight(b)
         \/ Expired(table[b], clock)
  <1>0. TypeOK
    BY DEF IInv
  <1>1. ASSUME NEW d \in Ids, NEW row, UpdateRow(d, row)
        PROVE  table[b] # NoRow /\ b = d
    BY <1>0, <1>1 DEF UpdateRow, TypeOK
  <1>2. ASSUME NEW row, NEW f, Insert(row, f)
        PROVE  b = nextId
    BY <1>0, <1>2 DEF Insert, TypeOK
  <1>3. CASE Tick \/ Restart \/ UNCHANGED vars
    BY <1>3 DEF Tick, Restart, vars
  <1>4. ASSUME NEW r \in Requests, RequestStep(r)
        PROVE  (table[b] # NoRow /\ InFlight(b)) \/ Expired(table[b], clock)
    <2>1. CASE RecoverExpired(r)
      BY <2>1 DEF RecoverExpired
    <2>2. CASE ListCandidates(r) \/ AttemptFails(r) \/ SkipCandidate(r)
                 \/ AbandonRequest(r)
      BY <2>2 DEF ListCandidates, AttemptFails, SkipCandidate, AbandonRequest
    <2>3. CASE AttemptSucceeds(r) \/ RecordFailure(r)
      <3>1. PICK c \in left[r] : \E row : UpdateRow(c.id, row)
        BY <2>3 DEF AttemptSucceeds, RecordFailure
      <3>2. c.id \in Ids
        BY <1>0, <3>1 DEF TypeOK, Candidate
      <3> QED
        BY <1>1, <3>1, <3>2 DEF InFlight
    <2> QED
      BY <1>4, <2>1, <2>2, <2>3 DEF RequestStep
  <1>5. CASE AdminStep
    <2>1. CASE CreateBackend \/ ImportBackend
      BY <1>2, <2>1 DEF CreateBackend, ImportBackend
    <2>2. ASSUME NEW d \in Ids, DeleteBackend(d)
          PROVE  table'[b] = NoRow
      BY <1>0, <2>2 DEF DeleteBackend, TypeOK
    <2>3. ASSUME NEW a \in Admins, NEW s \in PayloadStatus,
                 NEW w \in PayloadWeights, EditWrite(a, s, w)
          PROVE  table[b] # NoRow /\ InFlight(b)
      <3>1. edit[a] # NoCopy /\ edit[a].id \in Ids
        BY <1>0, <2>3 DEF EditWrite, TypeOK, EditCopy
      <3> QED
        BY <1>1, <2>3, <3>1 DEF EditWrite, InFlight
    <2>4. ASSUME NEW a \in Admins, NEW d \in Ids, EditRead(a, d)
          PROVE  FALSE
      BY <2>4 DEF EditRead
    <2>5. ASSUME NEW a \in Admins, EditRefused(a)
          PROVE  FALSE
      BY <2>5 DEF EditRefused
    <2> QED
      BY <1>5, <2>1, <2>2, <2>3, <2>4, <2>5 DEF AdminStep
  <1>6. ASSUME NEW k \in Consoles, ConsoleStep(k)
        PROVE  table[b] # NoRow /\ InFlight(b)
    <2>1. ConsoleWrite(k)
      BY <1>6 DEF ConsoleStep, ConsoleRead, ConsoleReread, ConsoleEnd
    <2>2. console[k] # NoCopy /\ console[k].id \in Ids
      BY <1>0, <2>1 DEF ConsoleWrite, TypeOK, ConsoleCopy
    <2> QED
      BY <1>1, <2>1, <2>2 DEF ConsoleWrite, InFlight
  <1> QED
    BY <1>3, <1>4, <1>5, <1>6 DEF Next

\* A deleted backend is never written back into the table.
THEOREM DeletionIsFinal == Spec => DeletedStaysDeleted
  <1>1. ASSUME IInv, [Next]_vars
        PROVE  \A b \in Ids : b < nextId /\ table[b] = NoRow => table'[b] = NoRow
    <2> SUFFICES ASSUME NEW b \in Ids, b < nextId, table[b] = NoRow,
                        table'[b] # NoRow
                 PROVE  FALSE
      OBVIOUS
    <2>1. b # nextId
      BY <1>1, MaxIdAssumption DEF IInv, TypeOK, Ids
    <2> QED
      BY <1>1, <2>1, RowChanges DEF Expired
  <1> QED
    BY <1>1, Inductive, PTL DEF Spec, DeletedStaysDeleted

\* Only a goroutine that holds a copy of a disabled backend can change that.
THEOREM DisabledIsHeld == Spec => DisabledHolds
  <1>1. ASSUME IInv, [Next]_vars
        PROVE  \A b \in Ids :
                 Is(b, "disabled") /\ ~InFlight(b) =>
                   table'[b] = NoRow \/ table'[b].status = "disabled"
    <2> SUFFICES ASSUME NEW b \in Ids, Is(b, "disabled"), ~InFlight(b),
                        table'[b] # table[b]
                 PROVE  table'[b] = NoRow
      BY DEF Is
    <2>1. b # nextId
      BY <1>1, MaxIdAssumption DEF IInv, IdsHandedOut, TypeOK, Ids, Is
    <2>2. ~Expired(table[b], clock)
      BY DEF Expired, Is
    <2> QED
      BY <1>1, <2>1, <2>2, RowChanges
  <1> QED
    BY <1>1, Inductive, PTL DEF Spec, DisabledHolds

\* A quarantined backend nobody holds comes back only by a selection in the
\* second of its recovery time or later.
THEOREM RecoveryIsNotEarly == Spec => RecoveryNotEarly
  <1>1. ASSUME IInv, [Next]_vars
        PROVE  \A b \in Ids :
                 Is(b, "abnormal") /\ ~InFlight(b) /\ table'[b] # NoRow
                   /\ table'[b].status # "abnormal" =>
                      table[b].recoverAt # NoTime
                        /\ table[b].recoverAt.sec <= clock.sec
    <2> SUFFICES ASSUME NEW b \in Ids, Is(b, "abnormal"), ~InFlight(b),
                        table'[b] # NoRow, table'[b] # table[b]
                 PROVE  /\ table[b].recoverAt # NoTime
                        /\ table[b].recoverAt.sec <= clock.sec
      BY DEF Is
    <2>1. b # nextId
      BY <1>1, MaxIdAssumption DEF IInv, IdsHandedOut, TypeOK, Ids, Is
    <2>2. Expired(table[b], clock)
      BY <1>1, <2>1, RowChanges
    <2>3. table[b] \in Row /\ clock \in Instant
      BY <1>1 DEF IInv, TypeOK, Is
    <2>4. table[b].recoverAt \in Instant
      BY <2>2, <2>3 DEF Expired, Row, OptionalInstant
    <2> QED
      BY <2>2, <2>3, <2>4 DEF Expired, TextNotAfter, Instant
  <1> QED
    BY <1>1, Inductive, PTL DEF Spec, RecoveryNotEarly

-----------------------------------------------------------------------------
(* What RequestEnds needs besides fairness.                                *)

\* A request that has not ended has something to go on with: there is one
\* candidate it is at, although the list was read long ago and the backends
\* in it may have been deleted or changed since; a list that is used up ends
\* the request in the same step.
NobodyStranded ==
  \A r \in Requests :
    pc[r] \in {"trying", "marking"} => \E c \in left[r] : IsFirst(c, left[r])

\* The list of a request that has not ended is not empty and names no
\* backend twice.
ListsSound ==
  \A r \in Requests :
    /\ NamedOnce(left[r])
    /\ pc[r] \in {"trying", "marking"} => left[r] # {}

\* A request that goes on, or ends, keeps its list sound.
LEMMA GoOnLists ==
  ASSUME TypeOK, ListsSound, NEW r \in Requests, NEW S, NamedOnce(S), GoOn(r, S)
  PROVE  ListsSound'
  BY DEF GoOn, TypeOK, ListsSound, NamedOnce

\* Every step keeps the lists sound.
LEMMA ListsStaySound ==
  ASSUME TypeOK, ListsSound, [Next]_vars
  PROVE  ListsSound'
  <1>0. NamedOnce({})
    BY DEF NamedOnce
  <1>1. ASSUME NEW r \in Requests, RequestStep(r)
        PROVE  ListsSound'
    <2>1. CASE RecoverExpired(r) \/ AttemptFails(r)
      BY <2>1 DEF RecoverExpired, AttemptFails, ListsSound, NamedOnce, TypeOK
    <2>2. CASE ListCandidates(r)
      <3>1. PICK served \in SUBSET Ids : GoOn(r, Eligible(served))
        BY <2>2 DEF ListCandidates
      <3>2. NamedOnce(Eligible(served))
        BY DEF NamedOnce, Eligible
      <3> QED
        BY <3>1, <3>2, GoOnLists
    <2>3. CASE AttemptSucceeds(r) \/ AbandonRequest(r)
      BY <1>0, <2>3, GoOnLists DEF AttemptSucceeds, AbandonRequest
    <2>4. CASE RecordFailure(r) \/ SkipCandidate(r)
      <3>1. PICK c \in left[r] : GoOn(r, left[r] \ {c})
        BY <2>4 DEF RecordFailure, SkipCandidate
      <3>2. NamedOnce(left[r] \ {c})
        BY DEF ListsSound, NamedOnce
      <3> QED
        BY <3>1, <3>2, GoOnLists
    <2> QED
      BY <1>1, <2>1, <2>2, <2>3, <2>4 DEF RequestStep
  <1>2. CASE UNCHANGED <<pc, left>>
    BY <1>2 DEF ListsSound, NamedOnce
  <1>3. CASE Restart
    BY <1>3 DEF Restart, ListsSound, NamedOnce
  <1>4. CASE Tick \/ AdminStep \/ UNCHANGED vars
    BY <1>2, <1>4
    DEF Tick, AdminStep, CreateBackend, ImportBackend, DeleteBackend, EditRead,
        EditWrite, EditRefused, request, vars
  <1>5. ASSUME NEW k \in Consoles, ConsoleStep(k)
        PROVE  ListsSound'
    BY <1>2, <1>5 DEF ConsoleStep, ConsoleRead, ConsoleWrite, ConsoleReread,
                      ConsoleEnd, request
  <1> QED
    BY <1>1, <1>3, <1>4, <1>5 DEF Next

\* A request that has not ended is at some candidate of its list.
THEOREM SomebodyIsNext == Spec => []NobodyStranded
  <1>1. Init => ListsSound
    BY DEF Init, ListsSound, NamedOnce
  <1>2. TypeOK /\ ListsSound /\ [Next]_vars => ListsSound'
    BY ListsStaySound
  <1>3. TypeOK /\ ListsSound => NobodyStranded
    <2> SUFFICES ASSUME TypeOK, ListsSound, NEW r \in Requests,
                        pc[r] \in {"trying", "marking"}
                 PROVE  \E c \in left[r] : IsFirst(c, left[r])
      BY DEF NobodyStranded
    <2>1. left[r] \in SUBSET Candidate
      BY DEF TypeOK
    <2> QED
      BY <2>1, FirstExists DEF ListsSound
  <1> QED
    BY <1>1, <1>2, <1>3, TypeCorrect, PTL DEF Spec
=============================================================================
