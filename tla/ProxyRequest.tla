---------------------------- MODULE ProxyRequest ----------------------------
(***************************************************************************)
(* One request through handleProxy: the failover loop, the usage log it    *)
(* fills as it goes, the rows AppendUsageLog stores with the hourly counts *)
(* in the same transaction, the marks on the backends, and a client that   *)
(* may go away at any moment.                                              *)
(*                                                                         *)
(* usageLog is one variable of the handler: an attempt overwrites some of  *)
(* its fields, a copy is stored when an attempt fails and another backend  *)
(* is left, and the deferred call stores what it holds when the handler    *)
(* returns.                                                                *)
(*                                                                         *)
(* The list of candidates is BackendPool's; here a backend is its place in *)
(* the failover order.                                                     *)
(***************************************************************************)
EXTENDS Integers, Sequences

CONSTANTS
  MaxBackends,  \* backends are 1 .. MaxBackends, in their failover order
  Statuses,     \* what an upstream may answer
  NoAnswer      \* nothing has been written to the client

Backends == 1 .. MaxBackends

Stages == {"received", "looping", "calling", "reading", "failing",
           "succeeding", "relaying", "returned", "ended", "crashed"}

\* status is the one the client sees; by is the backend the answer comes from,
\* 0 when the gateway made it up.
Replies == [kind : {"served", "cut", "refused", "cancelled"},
            status : Nat, by : Backends \cup {0}]

\* The fields of a UsageLog that differ between attempts; response is the
\* backend whose response filled the response and token fields.
UsageLogs == [attempts : 0 .. MaxBackends, backend : Backends \cup {0},
              status : Nat, response : Backends \cup {0}]

ASSUME MaxBackendsAssumption == MaxBackends \in Nat \ {0}
ASSUME StatusesAssumption == Statuses \subseteq 100 .. 599
ASSUME NoAnswerAssumption == NoAnswer \notin Replies

VARIABLES
  stage,      \* where the handler is
  rest,       \* the candidates the loop has not come to
  usageLog,   \* the handler's usageLog
  skipLog,    \* skipUsageLog
  failed,     \* lastErr # nil
  gone,       \* the client left: r.Context() is cancelled
  reply,      \* what the client got
  marks,      \* how the request left the health of each backend
  usageLogs,  \* the rows stored for this request
  hourly,     \* what they added to the hourly counts of each backend
  lost        \* history: an AppendUsageLog failed and stored nothing

ledger == <<usageLogs, hourly, lost>>
vars == <<stage, rest, usageLog, skipLog, failed, gone, reply, marks, ledger>>

TypeOK ==
  /\ stage \in Stages
  /\ rest \subseteq Backends
  /\ usageLog \in UsageLogs
  /\ skipLog \in BOOLEAN /\ failed \in BOOLEAN
  /\ gone \in BOOLEAN /\ lost \in BOOLEAN
  /\ reply \in Replies \cup {NoAnswer}
  /\ marks \in [Backends -> {"none", "success", "failure"}]
  /\ usageLogs \in Seq(UsageLogs)
  /\ hourly \in [Backends -> [successes : Nat, failures : Nat]]

Init ==
  /\ stage = "received"
  /\ rest = {}
  /\ usageLog = [attempts |-> 0, backend |-> 0, status |-> 0, response |-> 0]
  /\ skipLog = FALSE
  /\ failed = FALSE
  /\ gone = FALSE
  /\ reply = NoAnswer
  /\ marks = [b \in Backends |-> "none"]
  /\ usageLogs = <<>>
  /\ hourly = [b \in Backends |-> [successes |-> 0, failures |-> 0]]
  /\ lost = FALSE

-----------------------------------------------------------------------------
(* The store.                                                              *)

\* isSuccessStatus of the store.
IsSuccessStatus(status) == status >= 200 /\ status < 300

\* upsertBackendHourlyModelStats: a row that names no backend counts nowhere.
Counted(log) ==
  [b \in Backends |->
     IF b # log.backend THEN hourly[b]
     ELSE IF IsSuccessStatus(log.status)
          THEN [hourly[b] EXCEPT !.successes = @ + 1]
          ELSE [hourly[b] EXCEPT !.failures = @ + 1]]

\* AppendUsageLog: the row and the count are one transaction, in a context
\* of its own; an error stores neither and is ignored by the callers.
AppendUsageLog(log) ==
  \/ /\ usageLogs' = Append(usageLogs, log)
     /\ hourly' = Counted(log)
     /\ UNCHANGED lost
  \/ lost' = TRUE /\ UNCHANGED <<usageLogs, hourly>>

\* Mutated form: the store works in a context of its own.
MarkDetached(b, outcome) == marks' \in {marks, [marks EXCEPT ![b] = outcome]}

\* MarkSuccess and MarkFailure run in the request's context: once the client
\* left the statement fails.  Their errors are ignored.
Mark(b, outcome) ==
  marks' \in IF gone THEN {marks} ELSE {marks, [marks EXCEPT ![b] = outcome]}

-----------------------------------------------------------------------------
(* How the handler ends.                                                   *)

\* The gateway answers by itself and the handler returns.
Return(log, kind, status) ==
  /\ usageLog' = log
  /\ reply' = [kind |-> kind, status |-> status, by |-> 0]
  /\ stage' = "returned"

\* finishCanceledProxyRequest: the status becomes 499, the backend and the
\* number of attempts stay what they were.
FinishCanceled ==
  gone /\ Return([usageLog EXCEPT !.status = 499], "cancelled", 499)

\* An unsupported endpoint, a body that cannot be read or has no model.
Reject ==
  /\ stage = "received"
  /\ \E status \in {400, 404} :
       Return([usageLog EXCEPT !.status = status], "refused", status)
  /\ UNCHANGED <<rest, skipLog, failed, gone, marks, ledger>>

\* SelectBackend returned an error; ErrNoBackendAvailable leaves no row.
SelectFails ==
  /\ stage = "received"
  /\ \/ FinishCanceled /\ UNCHANGED skipLog
     \/ /\ ~gone
        /\ Return([usageLog EXCEPT !.status = 503], "refused", 503)
        /\ skipLog' \in BOOLEAN
  /\ UNCHANGED <<rest, failed, gone, marks, ledger>>

SelectBackend ==
  /\ stage = "received"
  /\ rest' \in (SUBSET Backends) \ {{}}
  /\ stage' = "looping"
  /\ UNCHANGED <<usageLog, skipLog, failed, gone, reply, marks, ledger>>
-----------------------------------------------------------------------------
(* The failover loop.                                                      *)

IsNext(b) == b \in rest /\ \A d \in rest : b <= d

\* The fields an iteration sets before it does anything.
Entered(b) ==
  [usageLog EXCEPT !.attempts = @ + 1, !.backend = b]

\* Mutated form: the row of an attempt is stored whether or not another
\* backend is left, and the deferred call stores it again.
RecordAlways(log, more) == AppendUsageLog(log)

\* Mutated form: only the row the request ends with is stored.
RecordLastOnly(log, more) == UNCHANGED ledger

\* A copy of usageLog is stored when another candidate is left; the last
\* one's is left to the deferred call.
RecordAttempt(log, more) ==
  \/ more # {} /\ AppendUsageLog(log)
  \/ more = {} /\ UNCHANGED ledger

\* The head of the loop: the client left.
CancelAtHead ==
  /\ stage = "looping" /\ rest # {}
  /\ FinishCanceled
  /\ UNCHANGED <<rest, skipLog, failed, gone, marks, ledger>>

\* RewriteModel or PrepareExchange fails: no call, no mark.
PrepareFails ==
  /\ stage = "looping" /\ ~gone
  /\ \E b \in Backends :
       /\ IsNext(b)
       /\ rest' = rest \ {b}
       /\ usageLog' = [Entered(b) EXCEPT !.status = 503]
  /\ failed' = TRUE
  /\ RecordAttempt(usageLog', rest')
  /\ UNCHANGED <<stage, skipLog, gone, reply, marks>>

\* DoWithPath sends the request.
Call ==
  /\ stage = "looping" /\ ~gone
  /\ \E b \in Backends :
       IsNext(b) /\ rest' = rest \ {b} /\ usageLog' = Entered(b)
  /\ stage' = "calling"
  /\ UNCHANGED <<skipLog, failed, gone, reply, marks, ledger>>

\* The response header arrived; decodeUpstreamResponse reads the body.
HeaderArrives ==
  /\ stage = "calling"
  /\ stage' = "reading"
  /\ UNCHANGED <<rest, usageLog, skipLog, failed, gone, reply, marks, ledger>>

\* The call, the body or its decoding fails: for a client that left this is
\* the end, for another the attempt has failed.  The response fields keep
\* what an earlier attempt left in them.
ExchangeFails ==
  /\ stage \in {"calling", "reading"}
  /\ \/ FinishCanceled
     \/ /\ ~gone
        /\ usageLog' = [usageLog EXCEPT !.status = 503]
        /\ stage' = "failing"
        /\ UNCHANGED reply
  /\ UNCHANGED <<rest, skipLog, failed, gone, marks, ledger>>

\* Mutated form: IsBackendFailureStatus decides, which spares a 400.
NotFailureStatus(status) == status = 400 \/ status \in 200 .. 299

\* The response and token fields are taken from this backend's response.
Filled == [usageLog EXCEPT !.response = usageLog.backend]

\* resp.StatusCode/100 == 2
Is2xx(status) == status \in 200 .. 299

\* The whole response is there.
BodyArrives ==
  /\ stage = "reading"
  /\ \E status \in Statuses :
       IF Is2xx(status)
       THEN /\ usageLog' = [usageLog EXCEPT !.status = status]
            /\ stage' = "succeeding"
       ELSE /\ usageLog' = [Filled EXCEPT !.status = status]
            /\ stage' = "failing"
  /\ UNCHANGED <<rest, skipLog, failed, gone, reply, marks, ledger>>

\* Mutated form: a backend that failed is put back in line.
FailOverRetrying ==
  /\ stage = "failing"
  /\ Mark(usageLog.backend, "failure")
  /\ RecordAttempt(usageLog, rest)
  /\ rest' = rest \cup {usageLog.backend}
  /\ failed' = TRUE
  /\ stage' = "looping"
  /\ UNCHANGED <<usageLog, skipLog, gone, reply>>

\* MarkFailure, the attempt's row, and on to the next candidate.
FailOver ==
  /\ stage = "failing"
  /\ Mark(usageLog.backend, "failure")
  /\ RecordAttempt(usageLog, rest)
  /\ failed' = TRUE
  /\ stage' = "looping"
  /\ UNCHANGED <<rest, usageLog, skipLog, gone, reply>>

MarkSuccess ==
  /\ stage = "succeeding"
  /\ Mark(usageLog.backend, "success")
  /\ stage' = "relaying"
  /\ UNCHANGED <<rest, usageLog, skipLog, failed, gone, reply, ledger>>

\* What of the answer reaches the client.
Answer(kind, status) ==
  reply' = [kind |-> kind, status |-> status, by |-> usageLog.backend]

\* Mutated form: a failed write keeps the upstream's status in the row.
WriteFailsAs2xx ==
  /\ usageLog' = Filled
  /\ Answer("cut", usageLog.status)

\* WriteResponse fails: the client has a part of the body at most.
WriteFails ==
  /\ usageLog' = [Filled EXCEPT !.status = 503]
  /\ Answer("cut", usageLog.status)

\* AdaptResponse fails: the handler returns and has written nothing, for
\* which net/http sends a 200 with an empty body.
AdaptFails ==
  /\ usageLog' = [usageLog EXCEPT !.status = 503]
  /\ Answer("cut", 200)

WriteSucceeds ==
  /\ usageLog' = Filled
  /\ Answer("served", usageLog.status)

Relay ==
  /\ stage = "relaying"
  /\ AdaptFails \/ WriteFails \/ WriteSucceeds
  /\ stage' = "returned"
  /\ UNCHANGED <<rest, skipLog, failed, gone, marks, ledger>>

\* Mutated form: a client that left is not looked for after the loop.
GiveUpOnlyIfPresent ==
  /\ stage = "looping" /\ rest = {}
  /\ ~gone /\ failed /\ Return(usageLog, "refused", 503)
  /\ UNCHANGED <<rest, skipLog, failed, gone, marks, ledger>>

\* The list is used up.  The row keeps the last attempt's status.
GiveUp ==
  /\ stage = "looping" /\ rest = {}
  /\ FinishCanceled \/ (~gone /\ failed /\ Return(usageLog, "refused", 503))
  /\ UNCHANGED <<rest, skipLog, failed, gone, marks, ledger>>

\* The deferred AppendUsageLog.
Finish ==
  /\ stage = "returned"
  /\ IF skipLog THEN UNCHANGED ledger ELSE AppendUsageLog(usageLog)
  /\ stage' = "ended"
  /\ UNCHANGED <<rest, usageLog, skipLog, failed, gone, reply, marks>>

Running == stage \notin {"ended", "crashed"}

\* The client closes its connection.
ClientLeaves ==
  /\ Running /\ ~gone
  /\ gone' = TRUE
  /\ UNCHANGED <<stage, rest, usageLog, skipLog, failed, reply, marks, ledger>>

\* The process dies: what is stored stays.
Crash ==
  /\ Running
  /\ stage' = "crashed"
  /\ UNCHANGED <<rest, usageLog, skipLog, failed, gone, reply, marks, ledger>>

Next ==
  \/ Reject \/ SelectFails \/ SelectBackend
  \/ CancelAtHead \/ PrepareFails \/ Call
  \/ HeaderArrives \/ ExchangeFails \/ BodyArrives
  \/ FailOver \/ MarkSuccess \/ Relay
  \/ GiveUp \/ Finish
  \/ ClientLeaves \/ Crash

Spec == Init /\ [][Next]_vars

\* The handler's own steps are taken, and whatever waits for a peer is broken
\* off when the client left.  Nothing else limits a wait: the server reads a
\* request's body and writes an answer with no deadline, TG_REQUEST_TIMEOUT
\* is the time from the upstream request's last byte to the response header,
\* and neither the greeting of a SOCKS5 proxy before it nor the body after it
\* has a deadline.
Fairness ==
  /\ WF_vars(gone /\ (Reject \/ SelectFails \/ SelectBackend))
  /\ WF_vars(CancelAtHead \/ PrepareFails \/ Call)
  /\ WF_vars(gone /\ ExchangeFails)
  /\ WF_vars(FailOver) /\ WF_vars(MarkSuccess)
  /\ WF_vars(gone /\ Relay)
  /\ WF_vars(GiveUp) /\ WF_vars(Finish)

FairSpec == Spec /\ Fairness

-----------------------------------------------------------------------------
(* Properties.                                                             *)

Rows(b) == hourly[b].successes + hourly[b].failures

\* A success is counted for a backend only once the client has its 2xx whole,
\* and only for the one backend that served it: an answer that could not be
\* converted or written, and every attempt before it, counts as a failure.
SuccessIsServed ==
  \A b \in Backends :
    hourly[b].successes > 0 =>
      /\ hourly[b].successes = 1
      /\ reply # NoAnswer /\ reply.kind = "served" /\ reply.by = b
      /\ Is2xx(reply.status)

\* No attempt that changed a backend's health is missing from the hourly
\* counts of a finished request, although rows are stored at two places and
\* the handler has many early returns (unless the store refused a row).
MarkedIsCounted ==
  stage = "ended" /\ ~lost =>
    \A b \in Backends :
      /\ marks[b] = "failure" => hourly[b].failures >= 1
      /\ marks[b] = "success" => Rows(b) = 1

\* While the client stays each backend is counted at most once; a client that
\* leaves adds at most one row to those of the attempts.
CountedAtMostOnce ==
  /\ ~gone => \A b \in Backends : Rows(b) <= 1
  /\ Len(usageLogs) <= usageLog.attempts + 1

\* The last row of a finished request tells what the client got: a success
\* if and only if the client has the whole answer, and 499 when it was found
\* gone (a 499 of the last backend looks the same in the row).
LastRowTells ==
  stage = "ended" /\ ~lost /\ usageLogs # <<>> =>
    LET last == usageLogs[Len(usageLogs)]
    IN /\ IsSuccessStatus(last.status) <=> reply.kind = "served"
       /\ reply.kind = "cancelled" => last.status = 499

\* A client that left never moves a backend towards quarantine, nor out of
\* it: from then on the request leaves the health of every backend alone.
CancelBlamesNobody == [][gone => UNCHANGED marks]_vars

\* Every request ends with its row stored or refused by the store, unless the
\* process dies or it waits for ever for a peer while its client stays: a
\* request never hangs anywhere else, and never outlives a client that left.
RequestEnds ==
  \/ <>(stage \in {"ended", "crashed"})
  \/ <>[](stage \in {"received", "calling", "reading", "relaying"} /\ ~gone)

\* The backends whose turn is not over: the loop's rest and the one at work.
TurnNotOver ==
  IF \/ stage \in {"calling", "reading", "failing", "succeeding", "relaying"}
     \/ reply # NoAnswer /\ reply.by # 0
  THEN rest \cup {usageLog.backend}
  ELSE rest

F == INSTANCE Failover WITH
       listed <- rest # {} \/ usageLog.attempts > 0,
       queue  <- TurnNotOver,
       answer <- reply

\* handleProxy keeps the promise of Failover: one list, one turn for each
\* backend in order, one answer.
KeepsFailover == F!Spec

-----------------------------------------------------------------------------
(* What the documentation promises and the code does not keep.             *)

\* docs/superpowers/specs/2026-06-26-backend-hourly-model-stats-design.md:
\* the unit counted is the backend attempt: an attempt is counted once.
OneCountPerAttempt == \A b \in Backends : Rows(b) <= 1
=============================================================================
