------------------------ MODULE ProxyRequest_proofs ------------------------
(***************************************************************************)
(* What holds of ProxyRequest for any number of backends and any set of    *)
(* upstream statuses, and that it implements Failover.                     *)
(***************************************************************************)
EXTENDS ProxyRequest, TLAPS

\* An attempt is under way and has not been recorded.
InTurn == stage \in {"calling", "reading", "failing", "succeeding", "relaying"}

\* The turns come in the order of the backends, so an attempt's number never
\* exceeds its backend's place, and the row of the attempt under way is the
\* first that names its backend.
TurnsInOrder ==
  /\ usageLog.attempts <= usageLog.backend
  /\ \A b \in rest : usageLog.backend < b
  /\ InTurn => usageLog.backend # 0
  /\ stage = "received" =>
       usageLog.backend = 0 /\ rest = {} /\ usageLogs = <<>>

\* The status in usageLog is the one the stage calls for, and the client has
\* an answer if and only if the handler has returned.
StatusFits ==
  /\ stage \in {"received", "looping", "failing"} => ~IsSuccessStatus(usageLog.status)
  /\ stage \in {"succeeding", "relaying"} => Is2xx(usageLog.status)
  /\ stage \notin {"returned", "ended", "crashed"} => reply = NoAnswer
  /\ stage \in {"returned", "ended"} =>
       /\ reply # NoAnswer
       /\ IsSuccessStatus(usageLog.status) <=> reply.kind = "served"
       /\ reply.kind = "cancelled" => usageLog.status = 499
       /\ reply.kind = "served" =>
            reply.by = usageLog.backend /\ Is2xx(reply.status)

\* The row usageLog holds has not been stored, and no earlier one names its
\* backend.
NotYetCounted(b) ==
  /\ b = usageLog.backend
  /\ \/ InTurn
     \/ stage = "looping" /\ rest = {}
     \/ stage = "returned" /\ (~gone \/ marks[b] = "success")

\* What is stored before the handler returned: failures only, at most one row
\* for each turn that is over, none for the one under way.
RowsFit ==
  /\ skipLog => /\ usageLog.backend = 0 /\ usageLogs = <<>>
                /\ stage \in {"returned", "ended", "crashed"}
  /\ Running => Len(usageLogs) <= usageLog.attempts
  /\ Len(usageLogs) <= usageLog.attempts + 1
  /\ InTurn => Len(usageLogs) < usageLog.attempts
  /\ Running => \A b \in Backends :
       /\ hourly[b].successes = 0
       /\ hourly[b].failures <= 1
       /\ usageLog.backend < b \/ NotYetCounted(b) => hourly[b].failures = 0
  /\ ~gone => \A b \in Backends : Rows(b) <= 1

\* A failure that was marked is counted, or is the one usageLog holds until
\* the deferred call; a success is the one usageLog holds.
MarksFit ==
  \A b \in Backends :
    /\ marks[b] # "none" => b <= usageLog.backend
    /\ Running /\ marks[b] = "success" =>
         b = usageLog.backend /\ stage \in {"relaying", "returned"}
    /\ Running /\ ~lost /\ marks[b] = "failure" =>
         \/ hourly[b].failures >= 1
         \/ /\ b = usageLog.backend /\ rest = {}
            /\ stage \in {"looping", "returned"}
            /\ ~IsSuccessStatus(usageLog.status)

-----------------------------------------------------------------------------
(* What the operators of the steps do, field by field.                     *)

\* Backends are positive numbers.
LEMMA BackendsArePlaces ==
  /\ Backends \subseteq Nat \ {0}
  /\ \A n \in Backends \cup {0} : n \in Nat
  BY MaxBackendsAssumption DEF Backends

\* Storing a row, or not, keeps the ledger well formed, and counts the row
\* for the backend it names and for no other.
LEMMA AppendFacts ==
  ASSUME TypeOK, NEW log \in UsageLogs, AppendUsageLog(log)
  PROVE  /\ usageLogs' \in Seq(UsageLogs)
         /\ hourly' \in [Backends -> [successes : Nat, failures : Nat]]
         /\ lost' \in BOOLEAN
         /\ Len(usageLogs') <= Len(usageLogs) + 1
         /\ \A b \in Backends : b # log.backend => hourly'[b] = hourly[b]
         /\ \A b \in Backends :
              /\ hourly'[b].failures >= hourly[b].failures
              /\ hourly'[b].failures <= hourly[b].failures + 1
              /\ hourly'[b].successes <= hourly[b].successes + 1
              /\ Rows(b)' <= Rows(b) + 1
              /\ IsSuccessStatus(log.status) =>
                   hourly'[b].failures = hourly[b].failures
              /\ ~IsSuccessStatus(log.status) =>
                   hourly'[b].successes = hourly[b].successes
         /\ ~lost' =>
              /\ ~lost
              /\ usageLogs' = Append(usageLogs, log)
              /\ \A b \in Backends : b = log.backend =>
                   IF IsSuccessStatus(log.status)
                   THEN hourly'[b].successes = hourly[b].successes + 1
                   ELSE hourly'[b].failures = hourly[b].failures + 1
  <1> DEFINE ok == IsSuccessStatus(log.status)
  <1> USE DEF Rows
  <1>1. /\ usageLogs \in Seq(UsageLogs) /\ lost \in BOOLEAN
        /\ hourly \in [Backends -> [successes : Nat, failures : Nat]]
    BY DEF TypeOK
  <1>2. Counted(log) = [b \in Backends |->
          IF b # log.backend THEN hourly[b]
          ELSE IF ok THEN [hourly[b] EXCEPT !.successes = @ + 1]
               ELSE [hourly[b] EXCEPT !.failures = @ + 1]]
    BY DEF Counted
  <1>3. ok \in BOOLEAN
    BY DEF IsSuccessStatus
  <1> HIDE DEF ok
  <1>4. CASE /\ usageLogs' = Append(usageLogs, log)
             /\ hourly' = Counted(log)
             /\ lost' = lost
    <2>1. /\ usageLogs' \in Seq(UsageLogs)
          /\ Len(usageLogs') = Len(usageLogs) + 1
      BY <1>1, <1>4
    <2>2. hourly' \in [Backends -> [successes : Nat, failures : Nat]]
      BY <1>1, <1>2, <1>4
    <2>3. \A b \in Backends :
            /\ b # log.backend => hourly'[b] = hourly[b]
            /\ b = log.backend /\ ok =>
                 /\ hourly'[b].successes = hourly[b].successes + 1
                 /\ hourly'[b].failures = hourly[b].failures
            /\ b = log.backend /\ ~ok =>
                 /\ hourly'[b].successes = hourly[b].successes
                 /\ hourly'[b].failures = hourly[b].failures + 1
      BY <1>1, <1>2, <1>4
    <2>4. \A b \in Backends :
            hourly[b].successes \in Nat /\ hourly[b].failures \in Nat
      BY <1>1
    <2>5. ASSUME NEW b \in Backends
          PROVE  /\ hourly'[b].failures >= hourly[b].failures
                 /\ hourly'[b].failures <= hourly[b].failures + 1
                 /\ hourly'[b].successes <= hourly[b].successes + 1
                 /\ Rows(b)' <= Rows(b) + 1
                 /\ ok => hourly'[b].failures = hourly[b].failures
                 /\ ~ok => hourly'[b].successes = hourly[b].successes
      BY <2>3, <2>4, <1>3
    <2>6. ~lost' => ~lost
      BY <1>4
    <2>7. Len(usageLogs') <= Len(usageLogs) + 1
      BY <2>1, <1>1
    <2>8. lost' \in BOOLEAN
      BY <1>1, <1>4
    <2> QED
      BY <1>4, <2>1, <2>2, <2>3, <2>5, <2>6, <2>7, <2>8, Zenon DEF ok
  <1>5. CASE lost' = TRUE /\ usageLogs' = usageLogs /\ hourly' = hourly
    <2>1. \A b \in Backends :
            hourly[b].successes \in Nat /\ hourly[b].failures \in Nat
      BY <1>1
    <2>2. Len(usageLogs) \in Nat
      BY <1>1
    <2> QED
      BY <1>1, <1>5, <2>1, <2>2
  <1> QED
    BY <1>4, <1>5, Zenon DEF AppendUsageLog

\* The fields of a usage log.
LEMMA LogFields ==
  ASSUME NEW log \in UsageLogs
  PROVE  /\ log.backend \in Backends \cup {0} /\ log.status \in Nat
         /\ log.attempts \in 0 .. MaxBackends
  BY DEF UsageLogs

\* Filling the response fields changes nothing the invariants look at.
LEMMA FilledFacts ==
  ASSUME TypeOK
  PROVE  /\ Filled \in UsageLogs
         /\ Filled.attempts = usageLog.attempts
         /\ Filled.backend = usageLog.backend
         /\ Filled.status = usageLog.status
  <1>1. usageLog \in UsageLogs
    BY DEF TypeOK
  <1> QED
    BY <1>1 DEF Filled, UsageLogs

\* Marking a backend, or failing to.
LEMMA MarkFacts ==
  ASSUME TypeOK, NEW b \in Backends,
         NEW outcome \in {"success", "failure"}, Mark(b, outcome)
  PROVE  /\ marks' \in [Backends -> {"none", "success", "failure"}]
         /\ \A d \in Backends : d # b => marks'[d] = marks[d]
         /\ marks'[b] \in {marks[b], outcome}
         /\ gone => marks' = marks
  <1>1. marks \in [Backends -> {"none", "success", "failure"}]
    BY DEF TypeOK
  <1> QED
    BY <1>1 DEF Mark

\* The turn of a backend beyond the one usageLog names can be entered.
LEMMA EnteredFacts ==
  ASSUME TypeOK, TurnsInOrder, NEW b \in rest
  PROVE  /\ Entered(b) \in UsageLogs
         /\ Entered(b).attempts = usageLog.attempts + 1
         /\ Entered(b).backend = b
         /\ Entered(b).status = usageLog.status
         /\ b \in Backends /\ usageLog.backend < b
  <1>1. b \in 1 .. MaxBackends /\ usageLog.backend < b
    BY DEF TypeOK, TurnsInOrder, Backends
  <1>2. usageLog \in UsageLogs /\ usageLog.attempts <= usageLog.backend
    BY DEF TypeOK, TurnsInOrder
  <1>3. usageLog.attempts + 1 \in 0 .. MaxBackends
    BY <1>1, <1>2, MaxBackendsAssumption DEF UsageLogs, Backends
  <1> QED
    BY <1>1, <1>2, <1>3 DEF Entered, UsageLogs, Backends

\* The gateway answers by itself: the answer, and the stage.
LEMMA ReturnFacts ==
  ASSUME NEW log \in UsageLogs, NEW kind \in {"refused", "cancelled"},
         NEW status \in Nat, Return(log, kind, status)
  PROVE  /\ usageLog' = log /\ stage' = "returned"
         /\ reply' \in Replies
         /\ reply'.kind = kind /\ reply'.by = 0
  BY DEF Return, Replies

-----------------------------------------------------------------------------
(* What the actions do, as far as the invariants can tell: the answers of  *)
(* the gateway come to one form, and so do the outcomes of an exchange.    *)

\* Nothing a request leaves behind is touched.
LeavesNoTrace == UNCHANGED <<rest, failed, gone, marks, usageLogs, hourly, lost>>

\* The gateway ends the request with an answer of its own.
GatewayAnswers ==
  /\ \/ stage = "received"
     \/ stage = "looping" /\ rest = {}
     \/ stage \in {"looping", "calling", "reading"} /\ gone
  /\ stage' = "returned"
  /\ usageLog' \in UsageLogs
  /\ usageLog'.attempts = usageLog.attempts
  /\ usageLog'.backend = usageLog.backend
  /\ ~IsSuccessStatus(usageLog'.status)
  /\ reply' \in Replies
  /\ reply'.by = 0
  /\ \/ reply'.kind = "refused"
     \/ reply'.kind = "cancelled" /\ usageLog'.status = 499
  /\ skipLog' = skipLog \/ (stage = "received" /\ skipLog' \in BOOLEAN)
  /\ LeavesNoTrace

\* The exchange with a backend is over: it failed, or a 2xx is complete.
ExchangeEnds ==
  /\ stage \in {"calling", "reading"}
  /\ \/ stage' = "failing" /\ ~IsSuccessStatus(usageLog'.status)
     \/ stage' = "succeeding" /\ Is2xx(usageLog'.status)
  /\ usageLog' \in UsageLogs
  /\ usageLog'.attempts = usageLog.attempts
  /\ usageLog'.backend = usageLog.backend
  /\ UNCHANGED <<reply, skipLog>>
  /\ LeavesNoTrace

\* The client has the backend's answer, whole or not.
AnswerRelayed ==
  /\ stage = "relaying" /\ stage' = "returned"
  /\ usageLog' \in UsageLogs
  /\ usageLog'.attempts = usageLog.attempts
  /\ usageLog'.backend = usageLog.backend
  /\ reply' \in Replies
  /\ reply'.by = usageLog.backend
  /\ reply'.kind # "cancelled"
  /\ IsSuccessStatus(usageLog'.status) <=> reply'.kind = "served"
  /\ reply'.kind = "served" => Is2xx(reply'.status)
  /\ UNCHANGED skipLog
  /\ LeavesNoTrace

\* The next backend's turn begins.
TurnBegins(b) ==
  /\ stage = "looping"
  /\ b \in rest /\ b \in Backends /\ usageLog.backend < b
  /\ rest' = rest \ {b}
  /\ \A d \in rest' : b < d
  /\ usageLog' \in UsageLogs
  /\ usageLog'.attempts = usageLog.attempts + 1
  /\ usageLog'.backend = b
  /\ UNCHANGED <<skipLog, gone, reply, marks>>

\* A client found gone ends the request with a 499.
LEMMA CancelAnswers ==
  ASSUME TypeOK, FinishCanceled
  PROVE  /\ gone
         /\ usageLog' \in UsageLogs
         /\ usageLog'.attempts = usageLog.attempts
         /\ usageLog'.backend = usageLog.backend /\ usageLog'.status = 499
         /\ stage' = "returned"
         /\ reply' \in Replies
         /\ reply'.kind = "cancelled" /\ reply'.by = 0
  <1> DEFINE log == [usageLog EXCEPT !.status = 499]
  <1>1. gone /\ Return(log, "cancelled", 499)
    BY DEF FinishCanceled
  <1>2. usageLog \in UsageLogs
    BY DEF TypeOK
  <1>3. /\ log \in UsageLogs /\ log.attempts = usageLog.attempts
        /\ log.backend = usageLog.backend /\ log.status = 499
    BY <1>2 DEF UsageLogs
  <1> HIDE DEF log
  <1> QED
    BY <1>1, <1>3, ReturnFacts

\* Every early return is the gateway's own answer, never recorded as a success.
LEMMA EarlyReturns ==
  ASSUME TypeOK, StatusFits,
         \/ Reject \/ SelectFails \/ CancelAtHead \/ GiveUp
         \/ ExchangeFails /\ FinishCanceled
  PROVE  GatewayAnswers
  <1>0. usageLog \in UsageLogs
    BY DEF TypeOK
  <1> USE DEF GatewayAnswers, LeavesNoTrace, ledger
  <1>1. ASSUME NEW status \in {400, 404, 503},
               Return([usageLog EXCEPT !.status = status], "refused", status)
        PROVE  /\ stage' = "returned" /\ usageLog' \in UsageLogs
               /\ usageLog'.attempts = usageLog.attempts
               /\ usageLog'.backend = usageLog.backend
               /\ ~IsSuccessStatus(usageLog'.status)
               /\ reply' \in Replies /\ reply'.by = 0
               /\ reply'.kind = "refused"
    <2> DEFINE log == [usageLog EXCEPT !.status = status]
    <2>1. /\ log \in UsageLogs /\ log.attempts = usageLog.attempts
          /\ log.backend = usageLog.backend /\ log.status = status
      BY <1>0 DEF UsageLogs
    <2>2. Return(log, "refused", status)
      BY <1>1
    <2>3. ~IsSuccessStatus(status)
      BY DEF IsSuccessStatus
    <2> HIDE DEF log
    <2> QED
      BY <2>1, <2>2, <2>3, ReturnFacts
  <1>2. ~IsSuccessStatus(499)
    BY DEF IsSuccessStatus
  <1>3. CASE Reject
    BY <1>1, <1>3 DEF Reject
  <1>4. CASE SelectFails
    <2>1. CASE FinishCanceled
      BY <1>2, <1>4, <2>1, CancelAnswers DEF SelectFails
    <2>2. CASE ~gone
      <3>1. Return([usageLog EXCEPT !.status = 503], "refused", 503)
        BY <1>4, <2>2 DEF SelectFails, FinishCanceled
      <3>2. stage = "received" /\ skipLog' \in BOOLEAN
        BY <1>4, <2>2 DEF SelectFails, FinishCanceled
      <3> QED
        BY <1>1, <1>4, <3>1, <3>2 DEF SelectFails
    <2> QED
      BY <1>4, <2>1, <2>2 DEF SelectFails
  <1>5. CASE CancelAtHead
    BY <1>2, <1>5, CancelAnswers DEF CancelAtHead
  <1>6. CASE GiveUp
    <2>1. CASE FinishCanceled
      BY <1>2, <1>6, <2>1, CancelAnswers DEF GiveUp
    <2>2. CASE Return(usageLog, "refused", 503)
      BY <1>0, <1>6, <2>2, ReturnFacts DEF GiveUp, StatusFits
    <2> QED
      BY <1>6, <2>1, <2>2 DEF GiveUp
  <1>7. CASE ExchangeFails /\ FinishCanceled
    BY <1>2, <1>7, CancelAnswers DEF ExchangeFails
  <1> QED
    BY <1>3, <1>4, <1>5, <1>6, <1>7

\* A failed or complete exchange leaves a status that fits its outcome.
LEMMA ExchangeOutcomes ==
  ASSUME TypeOK, (ExchangeFails /\ ~FinishCanceled) \/ BodyArrives
  PROVE  ExchangeEnds
  <1>0. usageLog \in UsageLogs
    BY DEF TypeOK
  <1> USE DEF ExchangeEnds, LeavesNoTrace, ledger
  <1>1. CASE ExchangeFails /\ ~FinishCanceled
    <2>1. /\ usageLog' = [usageLog EXCEPT !.status = 503]
          /\ stage' = "failing" /\ reply' = reply
      BY <1>1 DEF ExchangeFails
    <2>2. /\ usageLog' \in UsageLogs /\ usageLog'.status = 503
          /\ usageLog'.attempts = usageLog.attempts
          /\ usageLog'.backend = usageLog.backend
      BY <1>0, <2>1 DEF UsageLogs
    <2>3. ~IsSuccessStatus(503)
      BY DEF IsSuccessStatus
    <2> QED
      BY <1>1, <2>1, <2>2, <2>3 DEF ExchangeFails
  <1>2. CASE BodyArrives
    <2>1. PICK status \in Statuses :
            IF Is2xx(status)
            THEN /\ usageLog' = [usageLog EXCEPT !.status = status]
                 /\ stage' = "succeeding"
            ELSE /\ usageLog' = [Filled EXCEPT !.status = status]
                 /\ stage' = "failing"
      BY <1>2 DEF BodyArrives
    <2>2. status \in Nat
      BY StatusesAssumption
    <2>3. Is2xx(status) <=> IsSuccessStatus(status)
      BY <2>2 DEF Is2xx, IsSuccessStatus
    <2>4. /\ usageLog' \in UsageLogs /\ usageLog'.status = status
          /\ usageLog'.attempts = usageLog.attempts
          /\ usageLog'.backend = usageLog.backend
      BY <1>0, <2>1, <2>2, FilledFacts DEF UsageLogs
    <2> QED
      BY <1>2, <2>1, <2>3, <2>4 DEF BodyArrives
  <1> QED
    BY <1>1, <1>2

\* Passing an answer on: the status in usageLog is a success exactly when the
\* client has it whole.
LEMMA RelayAnswers ==
  ASSUME TypeOK, StatusFits, Relay
  PROVE  AnswerRelayed
  <1>0. usageLog \in UsageLogs /\ stage = "relaying" /\ Is2xx(usageLog.status)
    BY DEF TypeOK, StatusFits, Relay
  <1> USE DEF AnswerRelayed, LeavesNoTrace, ledger
  <1>1. ASSUME NEW kind \in {"served", "cut"}, NEW status \in Nat,
               Answer(kind, status)
        PROVE  /\ reply' \in Replies /\ reply'.by = usageLog.backend
               /\ reply'.kind = kind /\ reply'.status = status
    BY <1>0, <1>1 DEF Answer, Replies, UsageLogs
  <1>2. usageLog.status \in Nat /\ IsSuccessStatus(usageLog.status)
    BY <1>0 DEF UsageLogs, Is2xx, IsSuccessStatus
  <1>3. ~IsSuccessStatus(503)
    BY DEF IsSuccessStatus
  <1>4. CASE AdaptFails
    <2>1. /\ usageLog' \in UsageLogs /\ usageLog'.status = 503
          /\ usageLog'.attempts = usageLog.attempts
          /\ usageLog'.backend = usageLog.backend
      BY <1>0, <1>4 DEF AdaptFails, UsageLogs
    <2>2. Answer("cut", 200)
      BY <1>4 DEF AdaptFails
    <2> QED
      BY <1>0, <1>1, <1>3, <2>1, <2>2 DEF Relay
  <1>5. CASE WriteFails
    <2>1. /\ usageLog' \in UsageLogs /\ usageLog'.status = 503
          /\ usageLog'.attempts = usageLog.attempts
          /\ usageLog'.backend = usageLog.backend
      BY <1>5, FilledFacts DEF WriteFails, UsageLogs
    <2>2. Answer("cut", usageLog.status)
      BY <1>5 DEF WriteFails
    <2> QED
      BY <1>0, <1>1, <1>2, <1>3, <2>1, <2>2 DEF Relay
  <1>6. CASE WriteSucceeds
    <2>1. /\ usageLog' \in UsageLogs /\ usageLog'.status = usageLog.status
          /\ usageLog'.attempts = usageLog.attempts
          /\ usageLog'.backend = usageLog.backend
      BY <1>6, FilledFacts DEF WriteSucceeds
    <2>2. Answer("served", usageLog.status)
      BY <1>6 DEF WriteSucceeds
    <2> QED
      BY <1>0, <1>1, <1>2, <2>1, <2>2 DEF Relay
  <1> QED
    BY <1>4, <1>5, <1>6 DEF Relay

\* The two actions that begin a turn take the first backend of the rest.
LEMMA TurnsBegin ==
  ASSUME TypeOK, TurnsInOrder, PrepareFails \/ Call
  PROVE  \E b \in Backends :
           /\ TurnBegins(b)
           /\ PrepareFails => ~IsSuccessStatus(usageLog'.status)
  <1>1. PICK b \in Backends :
          /\ IsNext(b) /\ rest' = rest \ {b}
          /\ usageLog' = IF PrepareFails
                         THEN [Entered(b) EXCEPT !.status = 503]
                         ELSE Entered(b)
    BY DEF PrepareFails, Call
  <1> DEFINE log == Entered(b)
  <1>2. b \in rest /\ \A d \in rest : b <= d
    BY <1>1 DEF IsNext
  <1>3. /\ log \in UsageLogs /\ log.attempts = usageLog.attempts + 1
        /\ log.backend = b /\ usageLog.backend < b
    BY <1>2, EnteredFacts
  <1>4. \A d \in rest' : b < d
    <2>1. rest \subseteq Nat /\ b \in Nat
      BY BackendsArePlaces, <1>2 DEF TypeOK
    <2> QED
      BY <1>1, <1>2, <2>1
  <1> HIDE DEF log
  <1>5. /\ usageLog' \in UsageLogs
        /\ usageLog'.attempts = usageLog.attempts + 1
        /\ usageLog'.backend = b
        /\ PrepareFails => usageLog'.status = 503
    <2>1. usageLog' = log \/ usageLog' = [log EXCEPT !.status = 503]
      BY <1>1 DEF log
    <2>2. PrepareFails => usageLog' = [log EXCEPT !.status = 503]
      BY <1>1 DEF log
    <2> QED
      BY <1>3, <2>1, <2>2 DEF UsageLogs
  <1>6. ~IsSuccessStatus(503)
    BY DEF IsSuccessStatus
  <1>7. stage = "looping" /\ UNCHANGED <<skipLog, gone, reply, marks>>
    BY DEF PrepareFails, Call
  <1> QED
    BY <1>1, <1>2, <1>3, <1>4, <1>5, <1>6, <1>7 DEF TurnBegins

-----------------------------------------------------------------------------
(* Each part of the invariant is kept by every step.                       *)

\* Recording an attempt keeps the types of the ledger.
LEMMA RecordType ==
  ASSUME TypeOK, NEW log \in UsageLogs, NEW more, RecordAttempt(log, more)
  PROVE  /\ usageLogs' \in Seq(UsageLogs)
         /\ hourly' \in [Backends -> [successes : Nat, failures : Nat]]
         /\ lost' \in BOOLEAN
  <1>1. CASE AppendUsageLog(log)
    BY <1>1, AppendFacts
  <1>2. CASE UNCHANGED ledger
    BY <1>2 DEF ledger, TypeOK
  <1> QED
    BY <1>1, <1>2 DEF RecordAttempt

\* Every step keeps the types; the number of attempts stays below the number
\* of backends because the turns come in order.
LEMMA StepType ==
  ASSUME TypeOK, TurnsInOrder, StatusFits, Next
  PROVE  TypeOK'
  <1>1. CASE Reject \/ SelectFails \/ CancelAtHead \/ GiveUp
             \/ (ExchangeFails /\ FinishCanceled)
    BY <1>1, EarlyReturns DEF GatewayAnswers, LeavesNoTrace, TypeOK, Stages
  <1>2. CASE (ExchangeFails /\ ~FinishCanceled) \/ BodyArrives
    BY <1>2, ExchangeOutcomes DEF ExchangeEnds, LeavesNoTrace, TypeOK, Stages
  <1>3. CASE Relay
    BY <1>3, RelayAnswers DEF AnswerRelayed, LeavesNoTrace, TypeOK, Stages
  <1>4. CASE SelectBackend
    BY <1>4 DEF SelectBackend, ledger, TypeOK, Stages
  <1>5. CASE PrepareFails
    <2>1. usageLog' \in UsageLogs /\ rest' \subseteq Backends
      BY <1>5, TurnsBegin DEF TurnBegins, TypeOK
    <2>2. RecordAttempt(usageLog', rest')
      BY <1>5 DEF PrepareFails
    <2>3. /\ usageLogs' \in Seq(UsageLogs)
          /\ hourly' \in [Backends -> [successes : Nat, failures : Nat]]
          /\ lost' \in BOOLEAN
      BY <2>1, <2>2, RecordType
    <2> QED
      BY <1>5, <2>1, <2>3 DEF PrepareFails, TypeOK
  <1>6. CASE Call
    <2>1. usageLog' \in UsageLogs /\ rest' \subseteq Backends
      BY <1>6, TurnsBegin DEF TurnBegins, TypeOK
    <2> QED
      BY <1>6, <2>1 DEF Call, ledger, TypeOK, Stages
  <1>7. CASE HeaderArrives
    BY <1>7 DEF HeaderArrives, ledger, TypeOK, Stages
  <1>8. CASE FailOver
    <2>1. usageLog \in UsageLogs /\ usageLog.backend \in Backends
      BY <1>8, LogFields DEF FailOver, TypeOK, TurnsInOrder, InTurn
    <2>2. marks' \in [Backends -> {"none", "success", "failure"}]
      BY <1>8, <2>1, MarkFacts DEF FailOver
    <2>3. RecordAttempt(usageLog, rest)
      BY <1>8 DEF FailOver
    <2>4. /\ usageLogs' \in Seq(UsageLogs)
          /\ hourly' \in [Backends -> [successes : Nat, failures : Nat]]
          /\ lost' \in BOOLEAN
      BY <2>1, <2>3, RecordType
    <2> QED
      BY <1>8, <2>2, <2>4 DEF FailOver, TypeOK, Stages
  <1>9. CASE MarkSuccess
    <2>1. usageLog \in UsageLogs /\ usageLog.backend \in Backends
      BY <1>9, LogFields DEF MarkSuccess, TypeOK, TurnsInOrder, InTurn
    <2>2. marks' \in [Backends -> {"none", "success", "failure"}]
      BY <1>9, <2>1, MarkFacts DEF MarkSuccess
    <2> QED
      BY <1>9, <2>2 DEF MarkSuccess, ledger, TypeOK, Stages
  <1>10. CASE Finish
    <2>1. usageLog \in UsageLogs
      BY DEF TypeOK
    <2>2. /\ usageLogs' \in Seq(UsageLogs)
          /\ hourly' \in [Backends -> [successes : Nat, failures : Nat]]
          /\ lost' \in BOOLEAN
      <3>1. CASE AppendUsageLog(usageLog)
        BY <2>1, <3>1, AppendFacts
      <3>2. CASE UNCHANGED ledger
        BY <3>2 DEF ledger, TypeOK
      <3> QED
        BY <1>10, <3>1, <3>2 DEF Finish
    <2> QED
      BY <1>10, <2>2 DEF Finish, TypeOK, Stages
  <1>11. CASE ClientLeaves
    BY <1>11 DEF ClientLeaves, ledger, TypeOK
  <1>12. CASE Crash
    BY <1>12 DEF Crash, ledger, TypeOK, Stages
  <1> QED
    BY <1>1, <1>2, <1>3, <1>4, <1>5, <1>6, <1>7, <1>8, <1>9, <1>10, <1>11,
       <1>12 DEF Next

\* The turns stay in order.
LEMMA StepTurns ==
  ASSUME TypeOK, TurnsInOrder, StatusFits, Next
  PROVE  TurnsInOrder'
  <1> USE DEF InTurn
  <1>0. /\ usageLog.backend \in Nat /\ usageLog.attempts \in Nat
        /\ rest \subseteq Nat
    <2>1. usageLog \in UsageLogs /\ rest \subseteq Backends
      BY DEF TypeOK
    <2>2. usageLog.backend \in Backends \cup {0} /\ usageLog.attempts \in Nat
      BY <2>1 DEF UsageLogs
    <2>3. usageLog.backend \in Nat
      BY <2>2, BackendsArePlaces
    <2>4. rest \subseteq Nat
      BY <2>1, BackendsArePlaces
    <2> QED
      BY <2>2, <2>3, <2>4
  <1>1. CASE Reject \/ SelectFails \/ CancelAtHead \/ GiveUp
             \/ (ExchangeFails /\ FinishCanceled)
    BY <1>1, EarlyReturns DEF GatewayAnswers, LeavesNoTrace, TurnsInOrder
  <1>2. CASE (ExchangeFails /\ ~FinishCanceled) \/ BodyArrives
    BY <1>2, ExchangeOutcomes DEF ExchangeEnds, LeavesNoTrace, TurnsInOrder
  <1>3. CASE Relay
    BY <1>3, RelayAnswers DEF AnswerRelayed, LeavesNoTrace, TurnsInOrder
  <1>4. CASE SelectBackend
    <2>1. \A b \in rest' : 0 < b
      BY <1>4, BackendsArePlaces DEF SelectBackend
    <2> QED
      BY <1>4, <2>1 DEF SelectBackend, ledger, TurnsInOrder
  <1>5. CASE PrepareFails \/ Call
    <2>1. PICK b \in Backends : TurnBegins(b)
      BY <1>5, TurnsBegin
    <2>2. b \in Nat \ {0}
      BY BackendsArePlaces
    <2>3. stage' \in {"looping", "calling"}
      BY <1>5 DEF PrepareFails, Call, TurnBegins
    <2>4. usageLog.attempts + 1 <= b
      BY <1>0, <2>1, <2>2 DEF TurnBegins, TurnsInOrder
    <2> QED
      BY <2>1, <2>2, <2>3, <2>4 DEF TurnBegins, TurnsInOrder
  <1>6. CASE HeaderArrives
    BY <1>6 DEF HeaderArrives, ledger, TurnsInOrder
  <1>7. CASE FailOver
    BY <1>7 DEF FailOver, TurnsInOrder
  <1>8. CASE MarkSuccess
    BY <1>8 DEF MarkSuccess, ledger, TurnsInOrder
  <1>9. CASE Finish
    BY <1>9 DEF Finish, TurnsInOrder
  <1>10. CASE ClientLeaves
    BY <1>10 DEF ClientLeaves, ledger, TurnsInOrder
  <1>11. CASE Crash
    BY <1>11 DEF Crash, ledger, TurnsInOrder
  <1> QED
    BY <1>1, <1>2, <1>3, <1>4, <1>5, <1>6, <1>7, <1>8, <1>9, <1>10, <1>11
    DEF Next

\* The status in usageLog stays the one the stage calls for.
LEMMA StepStatus ==
  ASSUME TypeOK, TurnsInOrder, StatusFits, Next
  PROVE  StatusFits'
  <1>0. NoAnswer \notin Replies
    BY NoAnswerAssumption
  <1>1. CASE Reject \/ SelectFails \/ CancelAtHead \/ GiveUp
             \/ (ExchangeFails /\ FinishCanceled)
    BY <1>0, <1>1, EarlyReturns DEF GatewayAnswers, StatusFits
  <1>2. CASE (ExchangeFails /\ ~FinishCanceled) \/ BodyArrives
    BY <1>2, ExchangeOutcomes DEF ExchangeEnds, StatusFits
  <1>3. CASE Relay
    BY <1>0, <1>3, RelayAnswers DEF AnswerRelayed, StatusFits
  <1>4. CASE SelectBackend
    BY <1>4 DEF SelectBackend, StatusFits
  <1>5. CASE PrepareFails
    <2>1. /\ ~IsSuccessStatus(usageLog'.status)
          /\ UNCHANGED reply /\ stage = "looping"
      BY <1>5, TurnsBegin DEF TurnBegins
    <2>2. stage' = "looping"
      BY <1>5 DEF PrepareFails
    <2> QED
      BY <2>1, <2>2 DEF StatusFits
  <1>6. CASE Call
    BY <1>6 DEF Call, StatusFits
  <1>7. CASE HeaderArrives
    BY <1>7 DEF HeaderArrives, StatusFits
  <1>8. CASE FailOver
    BY <1>8 DEF FailOver, StatusFits
  <1>9. CASE MarkSuccess
    BY <1>9 DEF MarkSuccess, StatusFits
  <1>10. CASE Finish
    BY <1>10 DEF Finish, StatusFits
  <1>11. CASE ClientLeaves
    BY <1>11 DEF ClientLeaves, StatusFits
  <1>12. CASE Crash
    BY <1>12 DEF Crash, StatusFits
  <1> QED
    BY <1>1, <1>2, <1>3, <1>4, <1>5, <1>6, <1>7, <1>8, <1>9, <1>10, <1>11,
       <1>12 DEF Next

\* What is stored before the handler returned stays at most one failure for
\* each turn that is over.
LEMMA StepRows ==
  ASSUME TypeOK, TurnsInOrder, StatusFits, RowsFit, MarksFit, Next
  PROVE  RowsFit'
  <1> USE DEF InTurn, Running, Rows
  <1>0. /\ usageLog.backend \in Nat /\ usageLog.attempts \in Nat
        /\ rest \subseteq Nat /\ Backends \subseteq Nat
        /\ \A b \in Backends : b # 0
        /\ Len(usageLogs) \in Nat
        /\ \A b \in Backends :
             hourly[b].successes \in Nat /\ hourly[b].failures \in Nat
    <2>1. /\ usageLog \in UsageLogs /\ rest \subseteq Backends
          /\ usageLogs \in Seq(UsageLogs)
          /\ hourly \in [Backends -> [successes : Nat, failures : Nat]]
      BY DEF TypeOK
    <2>2. usageLog.backend \in Backends \cup {0} /\ usageLog.attempts \in Nat
      BY <2>1 DEF UsageLogs
    <2>3. usageLog.backend \in Nat
      BY <2>2, BackendsArePlaces
    <2>4. rest \subseteq Nat /\ Backends \subseteq Nat
      BY <2>1, BackendsArePlaces
    <2>5. \A b \in Backends : b # 0
      BY BackendsArePlaces
    <2>6. Len(usageLogs) \in Nat
      BY <2>1
    <2>7. \A b \in Backends :
             hourly[b].successes \in Nat /\ hourly[b].failures \in Nat
      BY <2>1
    <2> QED
      BY <2>2, <2>3, <2>4, <2>5, <2>6, <2>7
  <1>1. CASE Reject \/ SelectFails \/ CancelAtHead \/ GiveUp
             \/ (ExchangeFails /\ FinishCanceled)
    <2>1. GatewayAnswers
      BY <1>1, EarlyReturns
    <2>2. \A b \in Backends : NotYetCounted(b)' => NotYetCounted(b)
      <3>1. \A b \in Backends : marks[b] # "success"
        BY <2>1 DEF GatewayAnswers, MarksFit
      <3>2. stage = "received" => usageLog.backend = 0
        BY DEF TurnsInOrder
      <3> QED
        BY <1>0, <2>1, <3>1, <3>2
        DEF GatewayAnswers, LeavesNoTrace, NotYetCounted
    <2>3. skipLog' => /\ usageLog'.backend = 0 /\ usageLogs' = <<>>
                      /\ stage' = "returned"
      <3>1. ~skipLog
        <4>1. skipLog => stage \in {"returned", "ended", "crashed"}
          BY DEF RowsFit
        <4>2. stage \in {"received", "looping", "calling", "reading"}
          BY <2>1 DEF GatewayAnswers
        <4> QED
          BY <4>1, <4>2
      <3>2. skipLog' => stage = "received"
        BY <2>1, <3>1 DEF GatewayAnswers
      <3>3. stage = "received" => usageLog.backend = 0 /\ usageLogs = <<>>
        BY DEF TurnsInOrder
      <3>4. /\ usageLog'.backend = usageLog.backend /\ stage' = "returned"
            /\ usageLogs' = usageLogs
        BY <2>1 DEF GatewayAnswers, LeavesNoTrace
      <3> QED
        BY <3>2, <3>3, <3>4
    <2>4. /\ UNCHANGED <<gone, usageLogs, hourly>>
          /\ usageLog'.backend = usageLog.backend
          /\ usageLog'.attempts = usageLog.attempts
          /\ stage' = "returned" /\ stage \notin {"ended", "crashed"}
      BY <2>1 DEF GatewayAnswers, LeavesNoTrace
    <2>5. /\ Len(usageLogs) <= usageLog.attempts
          /\ Len(usageLogs) <= usageLog.attempts + 1
          /\ \A b \in Backends :
               /\ hourly[b].successes = 0 /\ hourly[b].failures <= 1
               /\ usageLog.backend < b \/ NotYetCounted(b) =>
                    hourly[b].failures = 0
               /\ ~gone => Rows(b) <= 1
      BY <2>4 DEF RowsFit
    <2> HIDE DEF Rows
    <2>6. \A b \in Backends : Rows(b)' = Rows(b)
      BY <2>4 DEF Rows
    <2>7. \A b \in Backends :
            /\ hourly'[b].successes = 0 /\ hourly'[b].failures <= 1
            /\ usageLog'.backend < b \/ NotYetCounted(b)' =>
                 hourly'[b].failures = 0
            /\ ~gone' => Rows(b)' <= 1
      BY <2>2, <2>4, <2>5, <2>6
    <2>8. /\ Len(usageLogs') <= usageLog'.attempts
          /\ Len(usageLogs') <= usageLog'.attempts + 1
      BY <2>4, <2>5
    <2> QED
      BY <2>3, <2>4, <2>7, <2>8 DEF RowsFit
  <1>2. CASE (ExchangeFails /\ ~FinishCanceled) \/ BodyArrives
    BY <1>0, <1>2, ExchangeOutcomes
    DEF ExchangeEnds, LeavesNoTrace, RowsFit, NotYetCounted
  <1>3. CASE Relay
    BY <1>0, <1>3, RelayAnswers
    DEF AnswerRelayed, LeavesNoTrace, RowsFit, NotYetCounted
  <1>4. CASE SelectBackend
    BY <1>0, <1>4 DEF SelectBackend, ledger, RowsFit, NotYetCounted
  <1>5. CASE PrepareFails
    <2>1. PICK c \in Backends :
            TurnBegins(c) /\ ~IsSuccessStatus(usageLog'.status)
      BY <1>5, TurnsBegin
    <2>2. hourly[c].failures = 0
      BY <2>1 DEF TurnBegins, RowsFit
    <2>3. stage' = "looping"
      BY <1>5 DEF PrepareFails, TurnBegins
    <2>4. \/ rest' # {} /\ AppendUsageLog(usageLog')
          \/ rest' = {} /\ UNCHANGED ledger
      BY <1>5 DEF PrepareFails, RecordAttempt
    <2>5. CASE rest' = {} /\ UNCHANGED ledger
      BY <1>0, <2>1, <2>2, <2>3, <2>5
      DEF TurnBegins, RowsFit, NotYetCounted, ledger
    <2>6. CASE rest' # {} /\ AppendUsageLog(usageLog')
      <3>1. /\ Len(usageLogs') <= Len(usageLogs) + 1
            /\ usageLogs' \in Seq(UsageLogs)
            /\ \A b \in Backends : b # c => hourly'[b] = hourly[b]
            /\ hourly'[c].failures <= 1
            /\ hourly'[c].successes = hourly[c].successes
        BY <2>1, <2>2, <2>6, AppendFacts DEF TurnBegins
      <3>2. Len(usageLogs') \in Nat
        BY <3>1
      <3>3. \A b \in Backends :
              hourly'[b].successes = 0 /\ hourly'[b].failures <= 1
        BY <1>0, <2>1, <3>1 DEF TurnBegins, RowsFit
      <3>4. ASSUME NEW b \in Backends, c < b
            PROVE  hourly'[b].failures = 0
        <4>1. b # c /\ usageLog.backend < b
          BY <1>0, <2>1, <3>4 DEF TurnBegins
        <4>2. hourly[b].failures = 0
          BY <2>1, <4>1 DEF TurnBegins, RowsFit
        <4> QED
          BY <3>1, <4>1, <4>2
      <3>5. \A b \in Backends : ~NotYetCounted(b)'
        BY <2>3, <2>6 DEF NotYetCounted
      <3>6. \A b \in Backends : hourly'[b].failures \in Nat
        BY <1>5, StepType DEF TypeOK
      <3>7. \A b \in Backends : Rows(b)' <= 1
        BY <3>3, <3>6
      <3> QED
        BY <1>0, <2>1, <2>3, <3>1, <3>2, <3>3, <3>4, <3>5, <3>7
        DEF TurnBegins, RowsFit
    <2> QED
      BY <2>4, <2>5, <2>6
  <1>6. CASE Call
    <2>1. PICK c \in Backends : TurnBegins(c)
      BY <1>6, TurnsBegin
    <2>2. stage' = "calling" /\ UNCHANGED ledger
      BY <1>6 DEF Call
    <2>3. ASSUME NEW b \in Backends, c < b \/ b = c
          PROVE  hourly'[b].failures = 0
      <3>1. usageLog.backend < b
        BY <1>0, <2>1, <2>3 DEF TurnBegins
      <3> QED
        BY <2>1, <2>2, <3>1 DEF TurnBegins, RowsFit, ledger
    <2>4. Len(usageLogs') < usageLog'.attempts
      BY <1>0, <2>1, <2>2 DEF TurnBegins, RowsFit, ledger
    <2>5. \A b \in Backends :
            /\ hourly'[b].successes = 0 /\ hourly'[b].failures <= 1
            /\ NotYetCounted(b)' => b = c
            /\ ~gone => Rows(b)' <= 1
      BY <2>1, <2>2 DEF TurnBegins, RowsFit, NotYetCounted, ledger
    <2>6. ~skipLog' /\ gone' = gone
      BY <2>1 DEF TurnBegins, RowsFit
    <2>7. Len(usageLogs') \in Nat /\ usageLog'.attempts \in Nat
      BY <1>0, <2>1, <2>2 DEF TurnBegins, ledger
    <2> QED
      BY <2>1, <2>2, <2>3, <2>4, <2>5, <2>6, <2>7 DEF TurnBegins, RowsFit
  <1>7. CASE HeaderArrives
    BY <1>0, <1>7 DEF HeaderArrives, ledger, RowsFit, NotYetCounted
  <1>8. CASE FailOver
    <2> DEFINE c == usageLog.backend
    <2>1. /\ usageLog \in UsageLogs /\ c \in Backends
          /\ ~IsSuccessStatus(usageLog.status)
          /\ stage = "failing" /\ stage' = "looping"
          /\ UNCHANGED <<rest, usageLog, skipLog, gone>>
      BY <1>8, LogFields DEF FailOver, TypeOK, TurnsInOrder, StatusFits
    <2>2. hourly[c].failures = 0 /\ Len(usageLogs) < usageLog.attempts
      BY <2>1 DEF RowsFit, NotYetCounted
    <2>3. \/ rest # {} /\ AppendUsageLog(usageLog)
          \/ rest = {} /\ UNCHANGED ledger
      BY <1>8 DEF FailOver, RecordAttempt
    <2>4. CASE rest = {} /\ UNCHANGED ledger
      BY <1>0, <2>1, <2>2, <2>4 DEF RowsFit, NotYetCounted, ledger
    <2>5. CASE rest # {} /\ AppendUsageLog(usageLog)
      <3>1. /\ Len(usageLogs') <= Len(usageLogs) + 1
            /\ usageLogs' \in Seq(UsageLogs)
            /\ \A b \in Backends : b # c => hourly'[b] = hourly[b]
            /\ hourly'[c].failures <= 1
            /\ hourly'[c].successes = hourly[c].successes
        BY <2>1, <2>2, <2>5, AppendFacts
      <3>2. Len(usageLogs') \in Nat
        BY <3>1
      <3>3. \A b \in Backends :
              hourly'[b].successes = 0 /\ hourly'[b].failures <= 1
        BY <1>0, <2>1, <3>1 DEF RowsFit
      <3>4. \A b \in Backends : c < b => hourly'[b].failures = 0
        BY <1>0, <2>1, <3>1 DEF RowsFit
      <3>5. \A b \in Backends : ~NotYetCounted(b)'
        BY <2>1, <2>5 DEF NotYetCounted
      <3>6. \A b \in Backends : hourly'[b].failures \in Nat
        BY <1>8, StepType DEF TypeOK
      <3>7. \A b \in Backends : Rows(b)' <= 1
        BY <3>3, <3>6
      <3> QED
        BY <1>0, <2>1, <2>2, <3>1, <3>2, <3>3, <3>4, <3>5, <3>7 DEF RowsFit
    <2> QED
      BY <2>3, <2>4, <2>5
  <1>9. CASE MarkSuccess
    BY <1>0, <1>9 DEF MarkSuccess, ledger, RowsFit, NotYetCounted
  <1>10. CASE Finish
    <2>1. /\ stage = "returned" /\ stage' = "ended"
          /\ UNCHANGED <<usageLog, skipLog, gone>>
          /\ usageLog \in UsageLogs
      BY <1>10 DEF Finish, TypeOK
    <2>2. CASE UNCHANGED ledger
      BY <1>0, <2>1, <2>2 DEF RowsFit, ledger
    <2>3. CASE ~skipLog /\ AppendUsageLog(usageLog)
      <3>1. /\ Len(usageLogs') <= Len(usageLogs) + 1
            /\ usageLogs' \in Seq(UsageLogs)
            /\ \A b \in Backends : b # usageLog.backend => hourly'[b] = hourly[b]
            /\ \A b \in Backends : Rows(b)' <= Rows(b) + 1
        BY <2>1, <2>3, AppendFacts
      <3>2. Len(usageLogs') \in Nat
        BY <3>1
      <3>3. ASSUME ~gone, NEW b \in Backends
            PROVE  Rows(b)' <= 1
        <4>1. CASE b = usageLog.backend
          <5>1. NotYetCounted(b)
            BY <2>1, <3>3, <4>1 DEF NotYetCounted
          <5>2. Rows(b) = 0
            BY <1>0, <2>1, <5>1 DEF RowsFit
          <5>3. Rows(b)' <= Rows(b) + 1
            BY <3>1
          <5> QED
            BY <5>2, <5>3
        <4>2. CASE b # usageLog.backend
          <5>1. hourly'[b] = hourly[b]
            BY <3>1, <4>2
          <5>2. Rows(b) <= 1
            BY <3>3 DEF RowsFit
          <5> QED
            BY <5>1, <5>2
        <4> QED
          BY <4>1, <4>2
      <3>4. Len(usageLogs') <= usageLog.attempts + 1
        BY <1>0, <2>1, <3>1, <3>2 DEF RowsFit
      <3> QED
        BY <2>1, <2>3, <3>3, <3>4 DEF RowsFit
    <2> QED
      BY <1>10, <2>2, <2>3 DEF Finish
  <1>11. CASE ClientLeaves
    BY <1>0, <1>11 DEF ClientLeaves, ledger, RowsFit, NotYetCounted
  <1>12. CASE Crash
    BY <1>0, <1>12 DEF Crash, ledger, RowsFit, NotYetCounted
  <1> QED
    BY <1>1, <1>2, <1>3, <1>4, <1>5, <1>6, <1>7, <1>8, <1>9, <1>10, <1>11,
       <1>12 DEF Next

\* A marked backend stays accounted for.
LEMMA StepMarks ==
  ASSUME TypeOK, TurnsInOrder, StatusFits, RowsFit, MarksFit, Next
  PROVE  MarksFit'
  <1> USE DEF InTurn, Running
  <1>0. /\ usageLog.backend \in Nat /\ rest \subseteq Backends
        /\ Backends \subseteq Nat
        /\ \A b \in Backends : hourly[b].failures \in Nat
    <2>1. usageLog \in UsageLogs
      BY DEF TypeOK
    <2>2. usageLog.backend \in Nat
      BY <2>1, LogFields, BackendsArePlaces
    <2>3. rest \subseteq Backends /\ Backends \subseteq Nat
      BY BackendsArePlaces DEF TypeOK
    <2>4. \A b \in Backends : hourly[b].failures \in Nat
      BY DEF TypeOK
    <2> QED
      BY <2>2, <2>3, <2>4
  <1>1. CASE Reject \/ SelectFails \/ CancelAtHead \/ GiveUp
             \/ (ExchangeFails /\ FinishCanceled)
    BY <1>1, EarlyReturns DEF GatewayAnswers, LeavesNoTrace, MarksFit
  <1>2. CASE (ExchangeFails /\ ~FinishCanceled) \/ BodyArrives
    BY <1>2, ExchangeOutcomes DEF ExchangeEnds, LeavesNoTrace, MarksFit
  <1>3. CASE Relay
    BY <1>3, RelayAnswers DEF AnswerRelayed, LeavesNoTrace, MarksFit
  <1>4. CASE SelectBackend
    BY <1>4 DEF SelectBackend, ledger, MarksFit
  <1>5. CASE PrepareFails \/ Call
    <2>1. PICK c \in Backends : TurnBegins(c)
      BY <1>5, TurnsBegin
    <2>2. usageLog' \in UsageLogs /\ stage' \in {"looping", "calling"}
      BY <1>5, <2>1 DEF TurnBegins, PrepareFails, Call
    <2>3. \/ RecordAttempt(usageLog', rest')
          \/ UNCHANGED ledger
      BY <1>5 DEF PrepareFails, Call
    <2>4. /\ ~lost' => ~lost
          /\ \A b \in Backends :
               hourly'[b].failures \in Nat
               /\ hourly'[b].failures >= hourly[b].failures
      <3>1. CASE AppendUsageLog(usageLog')
        BY <2>2, <3>1, AppendFacts
      <3>2. CASE UNCHANGED ledger
        BY <1>0, <3>2 DEF ledger
      <3> QED
        BY <2>3, <3>1, <3>2 DEF RecordAttempt
    <2>5. ASSUME NEW b \in Backends
          PROVE  /\ marks'[b] # "none" => b <= usageLog'.backend
                 /\ marks'[b] # "success"
                 /\ ~lost' /\ marks'[b] = "failure" => hourly'[b].failures >= 1
      <3>1. marks' = marks /\ usageLog'.backend = c /\ usageLog.backend < c
        BY <2>1 DEF TurnBegins
      <3>2. marks[b] # "none" => b <= c
        BY <1>0, <3>1 DEF MarksFit
      <3>3. marks[b] # "success"
        BY <2>1 DEF TurnBegins, MarksFit
      <3>4. rest # {}
        BY <2>1 DEF TurnBegins
      <3>5. ~lost /\ marks[b] = "failure" => hourly[b].failures >= 1
        BY <2>1, <3>4 DEF TurnBegins, MarksFit
      <3>6. hourly[b].failures \in Nat /\ hourly'[b].failures \in Nat
        BY <1>0, <2>4
      <3> QED
        BY <2>4, <3>1, <3>2, <3>3, <3>5, <3>6
    <2> QED
      BY <2>5 DEF MarksFit
  <1>6. CASE HeaderArrives
    BY <1>6 DEF HeaderArrives, ledger, MarksFit
  <1>7. CASE FailOver
    <2> DEFINE c == usageLog.backend
    <2>1. /\ usageLog \in UsageLogs /\ c \in Backends
          /\ ~IsSuccessStatus(usageLog.status)
          /\ stage = "failing" /\ stage' = "looping"
          /\ UNCHANGED <<rest, usageLog>>
      BY <1>7, LogFields DEF FailOver, TypeOK, TurnsInOrder, StatusFits
    <2>2. /\ \A b \in Backends : b # c => marks'[b] = marks[b]
          /\ marks'[c] \in {marks[c], "failure"}
      BY <1>7, <2>1, MarkFacts DEF FailOver
    <2>3. \/ rest # {} /\ AppendUsageLog(usageLog)
          \/ rest = {} /\ UNCHANGED ledger
      BY <1>7 DEF FailOver, RecordAttempt
    <2>4. /\ ~lost' => ~lost
          /\ \A b \in Backends :
               /\ hourly'[b].failures \in Nat
               /\ hourly'[b].failures >= hourly[b].failures
          /\ rest # {} /\ ~lost' => hourly'[c].failures >= 1
      <3>1. CASE rest # {} /\ AppendUsageLog(usageLog)
        <4>1. \A b \in Backends :
               /\ hourly'[b].failures \in Nat
               /\ hourly'[b].failures >= hourly[b].failures
          BY <2>1, <3>1, AppendFacts
        <4>2. ~lost' =>
                ~lost /\ hourly'[c].failures = hourly[c].failures + 1
          BY <2>1, <3>1, AppendFacts
        <4> QED
          BY <1>0, <2>1, <4>1, <4>2
      <3>2. CASE rest = {} /\ UNCHANGED ledger
        BY <1>0, <3>2 DEF ledger
      <3> QED
        BY <2>3, <3>1, <3>2
    <2>5. ASSUME NEW b \in Backends
          PROVE  /\ marks'[b] # "none" => b <= usageLog'.backend
                 /\ marks'[b] # "success"
                 /\ ~lost' /\ marks'[b] = "failure" =>
                      hourly'[b].failures >= 1 \/ (b = c /\ rest' = {})
      <3>1. CASE b = c
        <4>1. marks[c] # "success"
          BY <2>1 DEF MarksFit
        <4> QED
          BY <1>0, <2>1, <2>2, <2>4, <3>1, <4>1
      <3>2. CASE b # c
        <4>1. /\ marks[b] # "none" => b <= c
              /\ marks[b] # "success"
              /\ ~lost /\ marks[b] = "failure" => hourly[b].failures >= 1
          BY <2>1, <3>2 DEF MarksFit
        <4>2. /\ marks'[b] = marks[b] /\ ~lost' => ~lost
              /\ hourly'[b].failures >= hourly[b].failures
              /\ hourly[b].failures \in Nat /\ hourly'[b].failures \in Nat
          BY <1>0, <2>2, <2>4, <3>2
        <4>3. marks'[b] = marks[b] /\ usageLog' = usageLog
          BY <2>1, <2>2, <3>2
        <4> QED
          BY <2>4, <4>1, <4>2, <4>3
      <3> QED
        BY <3>1, <3>2
    <2> QED
      BY <2>1, <2>5 DEF MarksFit
  <1>8. CASE MarkSuccess
    <2> DEFINE c == usageLog.backend
    <2>1. /\ c \in Backends /\ stage = "succeeding" /\ stage' = "relaying"
          /\ UNCHANGED <<rest, usageLog, ledger>>
      BY <1>8, LogFields DEF MarkSuccess, TypeOK, TurnsInOrder
    <2>2. /\ \A b \in Backends : b # c => marks'[b] = marks[b]
          /\ marks'[c] \in {marks[c], "success"}
      BY <1>8, <2>1, MarkFacts DEF MarkSuccess
    <2>3. ASSUME NEW b \in Backends
          PROVE  /\ marks'[b] # "none" => b <= usageLog'.backend
                 /\ marks'[b] = "success" => b = usageLog'.backend
                 /\ ~lost' /\ marks'[b] = "failure" => hourly'[b].failures >= 1
      <3>1. /\ marks[b] # "none" => b <= c
            /\ marks[b] # "success"
            /\ ~lost /\ marks[b] = "failure" => hourly[b].failures >= 1
        BY <2>1 DEF MarksFit
      <3>2. lost' = lost /\ hourly' = hourly /\ usageLog' = usageLog
        BY <2>1 DEF ledger
      <3>3. c <= c
        BY <1>0
      <3>4. \/ marks'[b] = marks[b]
            \/ b = c /\ marks'[b] = "success"
        BY <2>2
      <3> QED
        BY <3>1, <3>2, <3>3, <3>4
    <2> QED
      BY <2>1, <2>3 DEF MarksFit
  <1>9. CASE Finish
    BY <1>9 DEF Finish, MarksFit
  <1>10. CASE ClientLeaves
    BY <1>10 DEF ClientLeaves, ledger, MarksFit
  <1>11. CASE Crash
    BY <1>11 DEF Crash, ledger, MarksFit
  <1> QED
    BY <1>1, <1>2, <1>3, <1>4, <1>5, <1>6, <1>7, <1>8, <1>9, <1>10, <1>11
    DEF Next

-----------------------------------------------------------------------------
(* The properties.                                                         *)

\* The inductive invariant.
IInv ==
  /\ TypeOK
  /\ TurnsInOrder
  /\ StatusFits
  /\ RowsFit
  /\ MarksFit
  /\ SuccessIsServed
  /\ MarkedIsCounted
  /\ LastRowTells

\* Only the deferred call may end a request, and only while it runs.
LEMMA OnlyFinishEnds ==
  ASSUME TypeOK, StatusFits, TurnsInOrder, Next
  PROVE  /\ Running
         /\ Finish \/ Running' \/ (stage' = "crashed" /\ Crash)
  <1> USE DEF Running
  <1>1. CASE Reject \/ SelectFails \/ CancelAtHead \/ GiveUp
             \/ (ExchangeFails /\ FinishCanceled)
    BY <1>1, EarlyReturns DEF GatewayAnswers
  <1>2. CASE (ExchangeFails /\ ~FinishCanceled) \/ BodyArrives
    BY <1>2, ExchangeOutcomes DEF ExchangeEnds
  <1>3. CASE \/ SelectBackend \/ PrepareFails \/ Call \/ HeaderArrives
             \/ FailOver \/ MarkSuccess \/ Relay \/ ClientLeaves
    BY <1>3 DEF SelectBackend, PrepareFails, Call, HeaderArrives, FailOver,
                MarkSuccess, Relay, ClientLeaves
  <1>4. CASE Finish
    BY <1>4 DEF Finish
  <1>5. CASE Crash
    BY <1>5 DEF Crash
  <1> QED
    BY <1>1, <1>2, <1>3, <1>4, <1>5 DEF Next

\* A success is counted by the deferred call alone, for a served answer.
LEMMA StepSuccess ==
  ASSUME IInv, Next, RowsFit'
  PROVE  SuccessIsServed'
  <1>1. CASE Running'
    BY <1>1 DEF RowsFit, SuccessIsServed
  <1>2. CASE Crash
    BY <1>2 DEF IInv, RowsFit, Crash, ledger, Running, SuccessIsServed
  <1>3. CASE Finish
    <2>1. /\ usageLog \in UsageLogs /\ stage = "returned"
          /\ UNCHANGED <<usageLog, reply>>
          /\ \A b \in Backends : hourly[b].successes = 0
      BY <1>3 DEF IInv, TypeOK, Finish, RowsFit, Running
    <2>2. CASE UNCHANGED ledger
      BY <2>1, <2>2 DEF ledger, SuccessIsServed
    <2>3. CASE AppendUsageLog(usageLog)
      <3>1. /\ \A b \in Backends : b # usageLog.backend => hourly'[b] = hourly[b]
            /\ \A b \in Backends :
                 /\ hourly'[b].successes <= hourly[b].successes + 1
                 /\ ~IsSuccessStatus(usageLog.status) =>
                      hourly'[b].successes = hourly[b].successes
            /\ hourly' \in [Backends -> [successes : Nat, failures : Nat]]
        BY <2>1, <2>3, AppendFacts DEF IInv
      <3>2. ASSUME NEW b \in Backends, hourly'[b].successes > 0
            PROVE  /\ hourly'[b].successes = 1
                   /\ reply' # NoAnswer /\ reply'.kind = "served"
                   /\ reply'.by = b /\ Is2xx(reply'.status)
        <4>1. b = usageLog.backend /\ IsSuccessStatus(usageLog.status)
          BY <2>1, <3>1, <3>2
        <4>2. hourly'[b].successes \in Nat
          BY <3>1
        <4>3. hourly'[b].successes = 1
          BY <2>1, <3>1, <3>2, <4>2
        <4> QED
          BY <2>1, <4>1, <4>3 DEF IInv, StatusFits
      <3> QED
        BY <3>2 DEF SuccessIsServed
    <2> QED
      BY <1>3, <2>2, <2>3 DEF Finish
  <1> QED
    BY <1>1, <1>2, <1>3, OnlyFinishEnds DEF IInv

\* The deferred call counts what is marked and not yet counted.
LEMMA StepMarked ==
  ASSUME IInv, Next
  PROVE  MarkedIsCounted'
  <1>1. CASE Running' \/ stage' = "crashed"
    BY <1>1 DEF Running, MarkedIsCounted
  <1>2. CASE Finish
    <2> SUFFICES ASSUME ~lost', NEW b \in Backends
                 PROVE  /\ marks[b] = "failure" => hourly'[b].failures >= 1
                        /\ marks[b] = "success" => Rows(b)' = 1
      BY <1>2 DEF MarkedIsCounted, Finish
    <2>1. /\ usageLog \in UsageLogs /\ stage = "returned" /\ Running
          /\ hourly[b].failures \in Nat /\ hourly[b].successes = 0
          /\ b # 0
      BY <1>2, BackendsArePlaces DEF IInv, TypeOK, Finish, RowsFit, Running
    <2>2. CASE UNCHANGED ledger /\ skipLog
      <3>1. usageLog.backend = 0 /\ lost' = lost /\ hourly' = hourly
        BY <2>2 DEF IInv, RowsFit, ledger
      <3>2. marks[b] # "success"
        BY <2>1, <3>1 DEF IInv, MarksFit
      <3>3. marks[b] = "failure" => hourly[b].failures >= 1
        BY <2>1, <3>1 DEF IInv, MarksFit
      <3> QED
        BY <3>1, <3>2, <3>3
    <2>3. CASE AppendUsageLog(usageLog)
      <3>1. /\ hourly' \in [Backends -> [successes : Nat, failures : Nat]]
            /\ ~lost
            /\ hourly'[b].failures >= hourly[b].failures
            /\ b = usageLog.backend =>
                 IF IsSuccessStatus(usageLog.status)
                 THEN /\ hourly'[b].successes = hourly[b].successes + 1
                      /\ hourly'[b].failures = hourly[b].failures
                 ELSE /\ hourly'[b].failures = hourly[b].failures + 1
                      /\ hourly'[b].successes = hourly[b].successes
        BY <2>1, <2>3, AppendFacts DEF IInv
      <3>2. hourly'[b].failures \in Nat /\ hourly'[b].successes \in Nat
        BY <3>1
      <3>3. ASSUME marks[b] = "failure"
            PROVE  hourly'[b].failures >= 1
        <4>1. \/ hourly[b].failures >= 1
              \/ b = usageLog.backend /\ ~IsSuccessStatus(usageLog.status)
          BY <2>1, <3>1, <3>3 DEF IInv, MarksFit
        <4> QED
          BY <2>1, <3>1, <3>2, <4>1
      <3>4. ASSUME marks[b] = "success"
            PROVE  Rows(b)' = 1
        <4>1. b = usageLog.backend
          BY <2>1, <3>4 DEF IInv, MarksFit
        <4>2. NotYetCounted(b)
          BY <2>1, <3>4, <4>1 DEF NotYetCounted
        <4>3. hourly[b].failures = 0
          BY <2>1, <4>2 DEF IInv, RowsFit
        <4>4. hourly'[b].successes + hourly'[b].failures = 1
          BY <2>1, <3>1, <3>2, <4>1, <4>3
        <4> QED
          BY <4>4 DEF Rows
      <3> QED
        BY <3>3, <3>4
    <2> QED
      BY <1>2, <2>2, <2>3 DEF Finish
  <1> QED
    BY <1>1, <1>2, OnlyFinishEnds DEF IInv

\* The row the deferred call stores is usageLog, which fits the answer.
LEMMA StepLastRow ==
  ASSUME IInv, Next
  PROVE  LastRowTells'
  <1>1. CASE Running' \/ stage' = "crashed"
    BY <1>1 DEF Running, LastRowTells
  <1>2. CASE Finish
    <2>1. /\ usageLog \in UsageLogs /\ stage = "returned"
          /\ usageLogs \in Seq(UsageLogs)
          /\ reply' = reply
          /\ IsSuccessStatus(usageLog.status) <=> reply.kind = "served"
          /\ reply.kind = "cancelled" => usageLog.status = 499
      BY <1>2 DEF IInv, TypeOK, Finish, StatusFits
    <2>2. CASE UNCHANGED ledger /\ skipLog
      BY <2>2 DEF IInv, RowsFit, ledger, LastRowTells
    <2>3. CASE AppendUsageLog(usageLog)
      <3>1. ~lost' => usageLogs' = Append(usageLogs, usageLog)
        BY <2>1, <2>3, AppendFacts DEF IInv
      <3>2. ~lost' => usageLogs'[Len(usageLogs')] = usageLog
        BY <2>1, <3>1
      <3> QED
        BY <2>1, <3>2 DEF LastRowTells
    <2> QED
      BY <1>2, <2>2, <2>3 DEF Finish
  <1> QED
    BY <1>1, <1>2, OnlyFinishEnds DEF IInv

\* The initial state has the inductive invariant.
LEMMA InitInvariant == Init => IInv
  <1> SUFFICES ASSUME Init PROVE IInv
    OBVIOUS
  <1>1. TypeOK
    <2>1. usageLog \in UsageLogs
      BY MaxBackendsAssumption DEF Init, UsageLogs
    <2>2. /\ marks \in [Backends -> {"none", "success", "failure"}]
          /\ hourly \in [Backends -> [successes : Nat, failures : Nat]]
          /\ usageLogs \in Seq(UsageLogs)
      BY DEF Init
    <2> QED
      BY <2>1, <2>2 DEF Init, TypeOK, Stages
  <1>2. TurnsInOrder /\ StatusFits
    BY DEF Init, TurnsInOrder, StatusFits, InTurn, IsSuccessStatus
  <1>3. RowsFit
    BY DEF Init, RowsFit, NotYetCounted, InTurn, Running, Rows
  <1>4. MarksFit
    BY DEF Init, MarksFit
  <1>5. SuccessIsServed /\ MarkedIsCounted /\ LastRowTells
    BY DEF Init, SuccessIsServed, MarkedIsCounted, LastRowTells
  <1> QED
    BY <1>1, <1>2, <1>3, <1>4, <1>5 DEF IInv

\* Every step keeps the inductive invariant.
LEMMA StepInvariant == IInv /\ [Next]_vars => IInv'
  <1> SUFFICES ASSUME IInv, [Next]_vars PROVE IInv'
    OBVIOUS
  <1>1. CASE Next
    <2>1. TypeOK' /\ TurnsInOrder' /\ StatusFits'
      BY <1>1, StepType, StepTurns, StepStatus DEF IInv
    <2>2. RowsFit' /\ MarksFit'
      BY <1>1, StepRows, StepMarks DEF IInv
    <2>3. SuccessIsServed' /\ MarkedIsCounted' /\ LastRowTells'
      BY <1>1, <2>2, StepSuccess, StepMarked, StepLastRow
    <2> QED
      BY <2>1, <2>2, <2>3 DEF IInv
  <1>2. CASE UNCHANGED vars
    <2> USE <1>2 DEF vars, ledger
    <2>1. TypeOK' /\ TurnsInOrder' /\ StatusFits'
      BY DEF IInv, TypeOK, TurnsInOrder, StatusFits, InTurn
    <2>2. RowsFit' /\ MarksFit'
      BY DEF IInv, RowsFit, MarksFit, NotYetCounted, InTurn, Running, Rows
    <2>3. SuccessIsServed' /\ MarkedIsCounted' /\ LastRowTells'
      BY DEF IInv, SuccessIsServed, MarkedIsCounted, LastRowTells, Rows
    <2> QED
      BY <2>1, <2>2, <2>3 DEF IInv
  <1> QED
    BY <1>1, <1>2

\* The inductive invariant holds of every behaviour.
LEMMA Invariant == Spec => []IInv
  BY InitInvariant, StepInvariant, PTL DEF Spec

\* Every variable keeps its type, however many backends are listed.
THEOREM TypeCorrect == Spec => []TypeOK
  <1>1. IInv => TypeOK
    BY DEF IInv
  <1> QED
    BY <1>1, Invariant, PTL

\* The hourly counts call a request a success only for the one backend whose
\* 2xx reached the client whole.
THEOREM SuccessesAreServed == Spec => []SuccessIsServed
  <1>1. IInv => SuccessIsServed
    BY DEF IInv
  <1> QED
    BY <1>1, Invariant, PTL

\* What a finished request did to a backend's health is in its hourly counts.
THEOREM MarksAreCounted == Spec => []MarkedIsCounted
  <1>1. IInv => MarkedIsCounted
    BY DEF IInv
  <1> QED
    BY <1>1, Invariant, PTL

\* No backend is counted twice while the client stays, and no request stores
\* more than one row over its attempts.
THEOREM CountsAreBounded == Spec => []CountedAtMostOnce
  <1>1. IInv => CountedAtMostOnce
    BY DEF IInv, RowsFit, CountedAtMostOnce
  <1> QED
    BY <1>1, Invariant, PTL

\* The last row of a finished request tells what its client got.
THEOREM LastRowIsTrue == Spec => []LastRowTells
  <1>1. IInv => LastRowTells
    BY DEF IInv
  <1> QED
    BY <1>1, Invariant, PTL

\* A request whose client left leaves the health of every backend alone.
THEOREM LeavingIsBlameless == Spec => CancelBlamesNobody
  <1>1. IInv /\ [Next]_vars => [gone => UNCHANGED marks]_vars
    <2> SUFFICES ASSUME IInv, Next, gone
                 PROVE  UNCHANGED marks
      OBVIOUS
    <2>1. CASE FailOver \/ MarkSuccess
      BY <2>1 DEF FailOver, MarkSuccess, Mark
    <2>2. CASE Reject \/ SelectFails \/ SelectBackend \/ CancelAtHead
               \/ PrepareFails \/ Call \/ HeaderArrives \/ ExchangeFails
               \/ BodyArrives \/ Relay \/ GiveUp \/ Finish \/ ClientLeaves
               \/ Crash
      BY <2>2
      DEF Reject, SelectFails, SelectBackend, CancelAtHead, PrepareFails, Call,
          HeaderArrives, ExchangeFails, BodyArrives, Relay, GiveUp, Finish,
          ClientLeaves, Crash
    <2> QED
      BY <2>1, <2>2 DEF Next
  <1> QED
    BY <1>1, Invariant, PTL DEF Spec, CancelBlamesNobody

-----------------------------------------------------------------------------
(* What RequestEnds needs besides fairness.                                *)

\* A loop that came to the end of its list knows why: the client is gone or
\* an attempt left its error in lastErr, so the handler's last return, which
\* answers without an error ("all candidate backends failed"), is never
\* reached and GiveUp leaves it out.
LoopEndsForAReason == stage = "looping" /\ rest = {} => gone \/ failed

\* The loop keeps the reason it went on for until its list is used up.
THEOREM LoopEndsWithAReason == Spec => []LoopEndsForAReason
  <1>1. Init => LoopEndsForAReason
    BY DEF Init, LoopEndsForAReason
  <1>2. LoopEndsForAReason /\ [Next]_vars => LoopEndsForAReason'
    <2> SUFFICES ASSUME LoopEndsForAReason, [Next]_vars
                 PROVE  LoopEndsForAReason'
      OBVIOUS
    <2> USE DEF LoopEndsForAReason
    <2>1. CASE Reject \/ SelectFails \/ CancelAtHead \/ GiveUp
      BY <2>1 DEF Reject, SelectFails, CancelAtHead, GiveUp, FinishCanceled,
                  Return
    <2>2. CASE SelectBackend
      BY <2>2 DEF SelectBackend
    <2>3. CASE PrepareFails \/ FailOver
      BY <2>3 DEF PrepareFails, FailOver
    <2>4. CASE Call \/ HeaderArrives \/ BodyArrives \/ MarkSuccess \/ Relay
               \/ Finish \/ Crash
      BY <2>4 DEF Call, HeaderArrives, BodyArrives, MarkSuccess, Relay, Finish,
                  Crash
    <2>5. CASE ExchangeFails
      BY <2>5 DEF ExchangeFails, FinishCanceled, Return
    <2>6. CASE ClientLeaves
      BY <2>6 DEF ClientLeaves
    <2>7. CASE UNCHANGED vars
      BY <2>7 DEF vars
    <2> QED
      BY <2>1, <2>2, <2>3, <2>4, <2>5, <2>6, <2>7 DEF Next
  <1> QED
    BY <1>1, <1>2, PTL DEF Spec

\* The steps a stage is from the end of the handler, when no other backend
\* gets its turn.
StepsIn ==
  [received |-> 3, looping |-> 2, calling |-> 5, reading |-> 4, failing |-> 3,
   succeeding |-> 3, relaying |-> 2, returned |-> 1, ended |-> 0, crashed |-> 0]

\* The steps a request has left: at most four for each backend that may still
\* get its turn, and the client may leave once.
StepsLeft ==
  StepsIn[stage] + 4 * (MaxBackends - usageLog.backend) + IF gone THEN 0 ELSE 1

\* A request never goes round in circles: whatever the upstreams, the store
\* and the client do, every step brings the handler nearer to its end, and
\* four steps for each backend are the most it takes.
StepsRunOut == [][StepsLeft' \in 0 .. StepsLeft - 1]_vars

\* Every step brings the handler nearer to its end: inside a turn by the
\* stage, from one turn to the next by the backends left behind, which come
\* in order and are at most MaxBackends.
THEOREM StepsAreBounded == Spec => StepsRunOut
  <1>1. ASSUME IInv, Next
        PROVE  StepsLeft' \in 0 .. StepsLeft - 1
    <2> DEFINE here == StepsIn[stage]
               there == StepsIn[stage']
               at == usageLog.backend
               next == usageLog'.backend
               stay == IF gone THEN 0 ELSE 1
               stay2 == IF gone' THEN 0 ELSE 1
    <2>0. TypeOK /\ TurnsInOrder /\ StatusFits /\ TypeOK'
      BY <1>1, StepType DEF IInv
    <2>1. /\ at \in 0 .. MaxBackends /\ next \in 0 .. MaxBackends
          /\ stay \in {0, 1} /\ stay2 \in {0, 1}
      <3>1. usageLog \in UsageLogs /\ usageLog' \in UsageLogs
        BY <2>0 DEF TypeOK
      <3>2. at \in Backends \cup {0} /\ next \in Backends \cup {0}
        BY <3>1, LogFields
      <3> QED
        BY <3>2, MaxBackendsAssumption DEF Backends
    <2>2. /\ StepsLeft = here + 4 * (MaxBackends - at) + stay
          /\ StepsLeft' = there + 4 * (MaxBackends - next) + stay2
      BY DEF StepsLeft
    <2>3. there \in Nat /\ here \in Nat
      BY <2>0 DEF TypeOK, Stages, StepsIn
    <2>4. \/ there < here /\ next = at /\ stay2 = stay
          \/ there <= here + 3 /\ next > at /\ stay2 = stay
          \/ there = here /\ next = at /\ stay2 < stay
      <3> USE DEF StepsIn, ledger
      <3>1. CASE Reject \/ SelectFails \/ CancelAtHead \/ GiveUp
                 \/ (ExchangeFails /\ FinishCanceled)
        BY <2>0, <3>1, EarlyReturns DEF GatewayAnswers, LeavesNoTrace
      <3>2. CASE (ExchangeFails /\ ~FinishCanceled) \/ BodyArrives
        BY <2>0, <3>2, ExchangeOutcomes DEF ExchangeEnds, LeavesNoTrace
      <3>3. CASE Relay
        BY <2>0, <3>3, RelayAnswers DEF AnswerRelayed, LeavesNoTrace
      <3>4. CASE PrepareFails \/ Call
        <4>1. PICK b \in Backends : TurnBegins(b)
          BY <2>0, <3>4, TurnsBegin
        <4>2. stage' \in {"looping", "calling"}
          BY <3>4 DEF PrepareFails, Call
        <4> QED
          BY <4>1, <4>2 DEF TurnBegins
      <3>5. CASE SelectBackend \/ HeaderArrives
        BY <3>5 DEF SelectBackend, HeaderArrives
      <3>6. CASE FailOver \/ MarkSuccess \/ Finish
        BY <3>6 DEF FailOver, MarkSuccess, Finish
      <3>7. CASE ClientLeaves
        BY <3>7 DEF ClientLeaves
      <3>8. CASE Crash
        BY <2>0, <3>8 DEF Crash, Running, TypeOK, Stages
      <3> QED
        BY <1>1, <3>1, <3>2, <3>3, <3>4, <3>5, <3>6, <3>7, <3>8 DEF Next
    <2> HIDE DEF here, there, at, next, stay, stay2
    <2> QED
      BY <2>1, <2>2, <2>3, <2>4, MaxBackendsAssumption
  <1>2. IInv /\ [Next]_vars => [StepsLeft' \in 0 .. StepsLeft - 1]_vars
    BY <1>1
  <1> QED
    BY <1>2, Invariant, PTL DEF Spec, StepsRunOut

-----------------------------------------------------------------------------
(* ProxyRequest implements Failover.                                       *)

\* A request that is still open has no answer, and the backend whose turn it
\* is comes before the rest.
LEMMA OpenRequest ==
  ASSUME IInv, Running, stage # "returned"
  PROVE  /\ reply = NoAnswer
         /\ TurnNotOver = IF InTurn THEN rest \cup {usageLog.backend} ELSE rest
         /\ InTurn => /\ F!Front(usageLog.backend)
                      /\ usageLog.backend \in Backends
                      /\ usageLog.backend \notin rest
                      /\ usageLog.attempts > 0
  <1>1. reply = NoAnswer
    BY DEF IInv, StatusFits, Running
  <1>2. TurnNotOver = IF InTurn THEN rest \cup {usageLog.backend} ELSE rest
    BY <1>1 DEF TurnNotOver, InTurn
  <1>3. ASSUME InTurn
        PROVE  /\ F!Front(usageLog.backend)
               /\ usageLog.backend \in Backends
               /\ usageLog.backend \notin rest
               /\ usageLog.attempts > 0
    <2>1. /\ usageLog \in UsageLogs /\ usageLogs \in Seq(UsageLogs)
          /\ usageLog.backend # 0
          /\ Len(usageLogs) < usageLog.attempts
          /\ \A d \in rest : usageLog.backend < d
      BY <1>3 DEF IInv, TypeOK, TurnsInOrder, RowsFit
    <2>2. usageLog.backend \in Backends /\ usageLog.attempts \in Nat
      BY <2>1, LogFields
    <2>3. usageLog.backend \in Nat
      BY <2>2, BackendsArePlaces
    <2>4. usageLog.backend \notin rest
      BY <2>1, <2>3
    <2>5. \A d \in rest \cup {usageLog.backend} : usageLog.backend <= d
      <3>1. rest \subseteq Nat
        BY BackendsArePlaces DEF IInv, TypeOK
      <3> QED
        BY <2>1, <2>3, <3>1
    <2>6. F!Front(usageLog.backend)
      BY <1>2, <1>3, <2>5 DEF F!Front
    <2>7. usageLog.attempts > 0
      <3>1. Len(usageLogs) \in Nat
        BY <2>1
      <3> QED
        BY <2>1, <2>2, <3>1
    <2> QED
      BY <2>2, <2>4, <2>6, <2>7
  <1> QED
    BY <1>1, <1>2, <1>3

\* The request is listed from the first selection on.
LEMMA Listed ==
  ASSUME IInv
  PROVE  /\ stage = "received" => rest = {} /\ ~(usageLog.attempts > 0)
         /\ usageLog.attempts \in Nat
  <1>1. usageLog \in UsageLogs
    BY DEF IInv, TypeOK
  <1>2. usageLog.attempts \in Nat
    BY <1>1, LogFields
  <1> QED
    BY <1>2 DEF IInv, TurnsInOrder

\* Every step is a step of Failover, or one that Failover does not see.
LEMMA StepRefines ==
  ASSUME IInv, Next
  PROVE  F!Next \/ UNCHANGED F!vars
  <1> USE DEF F!vars
  <1> DEFINE listed == rest # {} \/ usageLog.attempts > 0
  <1>0. usageLog \in UsageLogs /\ usageLog.attempts \in Nat
    BY Listed DEF IInv, TypeOK
  <1>1. CASE Reject
    <2>1. stage = "received" /\ reply = NoAnswer /\ TurnNotOver = {}
          /\ rest = {} /\ ~(usageLog.attempts > 0)
      BY <1>1, OpenRequest, Listed DEF Reject, Running, InTurn
    <2>2. PICK status \in {400, 404} :
            Return([usageLog EXCEPT !.status = status], "refused", status)
      BY <1>1 DEF Reject
    <2>3. /\ reply' = [kind |-> "refused", status |-> status, by |-> 0]
          /\ stage' = "returned" /\ rest' = rest
          /\ usageLog' = [usageLog EXCEPT !.status = status]
      BY <1>1, <2>2 DEF Reject, Return
    <2>4. usageLog'.attempts = usageLog.attempts
      BY <1>0, <2>3 DEF UsageLogs
    <2>5. TurnNotOver' = rest'
      BY <2>3 DEF TurnNotOver
    <2>6. F!Refuse
      BY <2>1, <2>3, <2>4, <2>5 DEF F!Refuse, F!Open, F!Answer
    <2> QED
      BY <2>6 DEF F!Next
  <1>2. ASSUME FinishCanceled, UNCHANGED rest, Running, stage # "returned"
        PROVE  F!Cancel
    <2>1. /\ reply' = [kind |-> "cancelled", status |-> 499, by |-> 0]
          /\ stage' = "returned"
          /\ usageLog' = [usageLog EXCEPT !.status = 499]
      BY <1>2 DEF FinishCanceled, Return
    <2>2. usageLog'.attempts = usageLog.attempts
      BY <1>0, <2>1 DEF UsageLogs
    <2>3. TurnNotOver' = rest
      BY <1>2, <2>1 DEF TurnNotOver
    <2>4. reply = NoAnswer
      BY <1>2, OpenRequest
    <2>5. TurnNotOver' \in {TurnNotOver} \cup
            { TurnNotOver \ {b} : b \in { d \in TurnNotOver : F!Front(d) } }
      <3>1. CASE ~InTurn
        BY <1>2, <2>3, <3>1, OpenRequest
      <3>2. CASE InTurn
        <4>1. /\ TurnNotOver = rest \cup {usageLog.backend}
              /\ usageLog.backend \notin rest
              /\ F!Front(usageLog.backend)
          BY <1>2, <3>2, OpenRequest
        <4>2. TurnNotOver \ {usageLog.backend} = rest
          BY <4>1
        <4> QED
          BY <2>3, <4>1, <4>2
      <3> QED
        BY <3>1, <3>2
    <2> QED
      BY <1>2, <2>1, <2>2, <2>4, <2>5 DEF F!Cancel, F!Open, F!Answer
  <1>3. ASSUME Return(usageLog', "refused", 503), UNCHANGED rest, rest = {},
               stage \in {"received", "looping"},
               usageLog'.attempts = usageLog.attempts
        PROVE  F!Refuse
    <2>1. reply = NoAnswer /\ TurnNotOver = {}
      BY <1>3, OpenRequest DEF Running, InTurn
    <2>2. /\ reply' = [kind |-> "refused", status |-> 503, by |-> 0]
          /\ stage' = "returned"
      BY <1>3 DEF Return
    <2>3. TurnNotOver' = {}
      BY <1>3, <2>2 DEF TurnNotOver
    <2> QED
      BY <1>3, <2>1, <2>2, <2>3 DEF F!Refuse, F!Open, F!Answer
  <1>4. CASE SelectFails
    <2>1. CASE FinishCanceled
      BY <1>2, <1>4, <2>1 DEF SelectFails, Running, F!Next
    <2>2. CASE Return([usageLog EXCEPT !.status = 503], "refused", 503)
      <3>1. usageLog' = [usageLog EXCEPT !.status = 503]
        BY <2>2 DEF Return
      <3>2. usageLog'.attempts = usageLog.attempts
        BY <1>0, <3>1 DEF UsageLogs
      <3>3. stage = "received" /\ rest = {} /\ rest' = rest
        BY <1>4, Listed DEF SelectFails
      <3> QED
        BY <1>3, <2>2, <3>1, <3>2, <3>3 DEF F!Next
    <2> QED
      BY <1>4, <2>1, <2>2 DEF SelectFails
  <1>5. CASE SelectBackend
    <2>1. stage = "received" /\ reply = NoAnswer /\ TurnNotOver = {}
          /\ rest = {} /\ ~(usageLog.attempts > 0)
      BY <1>5, OpenRequest, Listed DEF SelectBackend, Running, InTurn
    <2>2. /\ rest' \in (SUBSET Backends) \ {{}} /\ stage' = "looping"
          /\ UNCHANGED <<usageLog, reply>>
      BY <1>5 DEF SelectBackend
    <2>3. TurnNotOver' = rest'
      BY <2>1, <2>2 DEF TurnNotOver
    <2>4. F!List
      BY <2>1, <2>2, <2>3 DEF F!List, F!Open, F!Backends, Backends
    <2> QED
      BY <2>4 DEF F!Next
  <1>6. CASE CancelAtHead
    BY <1>2, <1>6 DEF CancelAtHead, Running, F!Next
  <1>7. CASE GiveUp
    <2>1. CASE FinishCanceled
      BY <1>2, <1>7, <2>1 DEF GiveUp, Running, F!Next
    <2>2. CASE Return(usageLog, "refused", 503)
      <3>1. usageLog' = usageLog
        BY <2>2 DEF Return
      <3> QED
        BY <1>3, <1>7, <2>2, <3>1 DEF GiveUp, F!Next
    <2> QED
      BY <1>7, <2>1, <2>2 DEF GiveUp
  <1>8. CASE PrepareFails \/ Call
    <2>1. PICK b \in Backends : IsNext(b) /\ TurnBegins(b)
      <3>1. PICK b \in Backends : IsNext(b) /\ rest' = rest \ {b}
        BY <1>8 DEF PrepareFails, Call
      <3>2. PICK c \in Backends : TurnBegins(c)
        BY <1>8, TurnsBegin DEF IInv
      <3>3. b = c
        BY <3>1, <3>2 DEF IsNext, TurnBegins
      <3> QED
        BY <3>1, <3>2, <3>3
    <2>2. reply = NoAnswer /\ TurnNotOver = rest
      BY <2>1, OpenRequest DEF TurnBegins, Running, InTurn
    <2>3. /\ b \in rest /\ rest' = rest \ {b} /\ reply' = reply
          /\ usageLog'.backend = b
          /\ usageLog'.attempts = usageLog.attempts + 1
      BY <2>1 DEF TurnBegins
    <2>4. usageLog'.attempts > 0
      BY <1>0, <2>3
    <2>5. CASE PrepareFails
      <3>1. TurnNotOver' = rest \ {b}
        BY <2>2, <2>3, <2>5 DEF TurnNotOver, PrepareFails
      <3>2. F!Front(b)
        BY <2>1, <2>2 DEF F!Front, IsNext
      <3>3. F!Pass
        BY <2>1, <2>2, <2>3, <2>4, <3>1, <3>2
        DEF F!Pass, F!Open, F!Backends, Backends
      <3> QED
        BY <3>3 DEF F!Next
    <2>6. CASE Call
      <3>1. TurnNotOver' = rest
        BY <2>2, <2>3, <2>6 DEF TurnNotOver, Call
      <3> QED
        BY <2>2, <2>3, <2>4, <3>1
    <2> QED
      BY <1>8, <2>5, <2>6
  <1>9. CASE ExchangeFails /\ FinishCanceled
    BY <1>2, <1>9 DEF ExchangeFails, Running, F!Next
  <1>10. CASE (ExchangeFails /\ ~FinishCanceled) \/ BodyArrives
    <2>1. ExchangeEnds
      BY <1>10, ExchangeOutcomes DEF IInv
    <2> QED
      BY <2>1 DEF ExchangeEnds, LeavesNoTrace, TurnNotOver
  <1>11. CASE HeaderArrives
    BY <1>11 DEF HeaderArrives, TurnNotOver
  <1>12. CASE MarkSuccess
    BY <1>12 DEF MarkSuccess, TurnNotOver
  <1>13. ASSUME InTurn, UNCHANGED <<rest, usageLog, reply>>,
                stage' \in {"looping", "crashed"}
         PROVE  F!Pass
    <2> DEFINE b == usageLog.backend
    <2>1. /\ reply = NoAnswer
          /\ TurnNotOver = rest \cup {b} /\ b \notin rest
          /\ F!Front(b) /\ b \in Backends /\ usageLog.attempts > 0
      BY <1>13, OpenRequest DEF Running, InTurn
    <2>2. TurnNotOver' = rest
      BY <1>13, <2>1 DEF TurnNotOver
    <2>3. rest = TurnNotOver \ {b}
      BY <2>1
    <2> QED
      BY <1>13, <2>1, <2>2, <2>3 DEF F!Pass, F!Open, F!Backends, Backends
  <1>14. CASE FailOver
    BY <1>13, <1>14 DEF FailOver, InTurn, F!Next
  <1>15. CASE Relay
    <2> DEFINE b == usageLog.backend
    <2>1. /\ reply = NoAnswer /\ TurnNotOver = rest \cup {b}
          /\ F!Front(b) /\ b \in Backends
      BY <1>15, OpenRequest DEF Relay, Running, InTurn
    <2>2. /\ rest' = rest /\ usageLog'.attempts = usageLog.attempts
          /\ usageLog'.backend = b /\ stage' = "returned"
          /\ reply' \in Replies /\ reply'.by = b
      BY <1>15, RelayAnswers DEF IInv, AnswerRelayed, LeavesNoTrace
    <2>3. TurnNotOver' = rest \cup {b}
      <3>1. reply' # NoAnswer /\ reply'.by # 0
        BY <2>1, <2>2, NoAnswerAssumption, BackendsArePlaces
      <3> QED
        BY <2>2, <3>1 DEF TurnNotOver
    <2>4. \E kind \in {"served", "cut"}, status \in 200 .. 299 :
            reply' = [kind |-> kind, status |-> status, by |-> b]
      <3>1. usageLog.status \in 200 .. 299
        BY <1>15 DEF Relay, IInv, StatusFits, Is2xx
      <3>2. 200 \in 200 .. 299
        OBVIOUS
      <3> QED
        BY <1>15, <3>1, <3>2
        DEF Relay, AdaptFails, WriteFails, WriteSucceeds, Answer
    <2>5. F!Serve
      BY <2>1, <2>2, <2>3, <2>4
      DEF F!Serve, F!Open, F!Answer, F!Backends, Backends
    <2> QED
      BY <2>5 DEF F!Next
  <1>16. CASE Finish
    BY <1>16 DEF Finish, TurnNotOver
  <1>17. CASE ClientLeaves
    BY <1>17 DEF ClientLeaves, TurnNotOver
  <1>18. CASE Crash
    <2>1. CASE InTurn
      BY <1>13, <1>18, <2>1 DEF Crash, F!Next
    <2>2. CASE ~InTurn
      BY <1>18, <2>2 DEF Crash, TurnNotOver, InTurn
    <2> QED
      BY <2>1, <2>2
  <1> QED
    BY <1>1, <1>4, <1>5, <1>6, <1>7, <1>8, <1>9, <1>10, <1>11, <1>12, <1>14,
       <1>15, <1>16, <1>17, <1>18 DEF Next

\* handleProxy keeps the promise of Failover for any number of candidates: no
\* backend has two turns, the turns come in order, and there is one answer.
THEOREM Implements == Spec => KeepsFailover
  <1>1. Init => F!Init
    BY DEF Init, F!Init, TurnNotOver
  <1>2. IInv /\ [Next]_vars => [F!Next]_(F!vars)
    <2> SUFFICES ASSUME IInv, [Next]_vars
                 PROVE  F!Next \/ UNCHANGED F!vars
      OBVIOUS
    <2>1. CASE Next
      BY <2>1, StepRefines
    <2>2. CASE UNCHANGED vars
      BY <2>2 DEF vars, ledger, F!vars, TurnNotOver
    <2> QED
      BY <2>1, <2>2
  <1> QED
    BY <1>1, <1>2, Invariant, PTL DEF Spec, F!Spec, KeepsFailover
=============================================================================
