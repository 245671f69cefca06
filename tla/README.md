# Token Gate in TLA+

Token Gate is a reverse proxy for language-model APIs. Clients call it with a key;
it picks an ordered list of *backends* (upstream providers), tries them one after
the other, and keeps for each backend a health state that decides whether it is
offered to the next request. Administrators edit backends while requests run, and
console handlers log in to a backend's own management console over slow network
calls. Everything is stored in one SQLite file.

The modules here are translated from the Go source (`internal/`, `cmd/`);
`PROJECT.json` maps each definition to the lines it stands for.

## The system

| Part | State | Operations | Hard behaviour |
|---|---|---|---|
| Scheduler (`internal/scheduler`) | none of its own; threshold and cooldown taken once in `New` | `SelectBackend` (recover, list, filter, order), `MarkSuccess`, `MarkFailure` | recovery is lazy, two statements per selection, marks are read-then-write |
| Backend store (`internal/store/store_backend.go`) | table `backends` | create, import, update, delete, mark, recover | every statement is its own transaction; whole-row writes of stale copies |
| Backend admin handlers (`internal/handler/handle_backend.go`) | a copy of a row while a request is being handled | create, import, update, delete, export | read, decode and validate, then write what was read |
| Console handlers (same file) | a copy of a row across several network calls | check-in, pricing, sync (new-api and sub2api), login with retry | the copy is minutes old when it is written back |
| Proxy request handler (`internal/app/app.go`) | one `usageLog`, `lastErr`, the candidate list | `handleProxy`: failover loop with many early returns, deferred usage row | client leaves at any moment, errors of the store ignored, one variable shared by all attempts |
| Usage rows and hourly statistics (`store_log.go`, `store_backend.go`) | tables `usage_logs`, `backend_hourly_model_stats` | `AppendUsageLog` (row and count in one transaction), queries, clear | rows stored at several places of one request |
| Upstream client (`internal/proxy/proxy.go`, `socks5.go`) | cache of SOCKS5 clients | `DoWithPath`, `WriteResponse`, dial | only the response header has a timeout |
| Protocol conversion (`internal/proxy/translate.go`) | per-stream state | request, response and event-stream converters | event order and nesting |
| Settings (`internal/config`, `handle_setting.go`) | the `settings` table, the handler's copy, the values the scheduler and proxy were built with | read, update, reload | three copies that drift apart |
| Client keys (`store_client_key.go`, `handle_client_key.go`) | `client_keys`; the key a request was admitted with | create, update, delete, authenticate | a key goes while its requests run; an edit writes a copy |
| SOCKS5 proxies (`store_proxy.go`, `handle_proxy.go`, `proxy.go`) | `socks_proxies`, the backends' `proxy_id`, the cache of clients | create, update, delete, dial | references checked in one statement and written in another; cached clients outlive edits |
| SOCKS5 handshake (`socks5.go`) | one connection | greeting, credentials, CONNECT | turns of two parties; length-prefixed reads on a stream |
| Audit events, dashboard, search, log views | their tables | appends and queries | - |
| Process (`cmd/token-gate/main.go`) | listeners, requests in work | start, signal, shutdown | what happens to requests in work |
| Frontend (`frontend/`) | a view of the admin API | - | - |

Requests interact with each other, with administrators and with console handlers
mostly through the `backends` table. `handleProxy` calls the scheduler, the scheduler
the store. No lock spans two statements. Settings are the exception: one
configuration value in memory, assigned field by field without a lock.

What makes each part correct:

* **pool**: a recovery time and the abnormal status go together; nobody is charged with
  failures that did not happen; quarantine is bounded and ends; deleted stays
  deleted; disabled stays disabled unless someone who read the row before says otherwise.
* **request**: each candidate has at most one turn, in order, and the client one
  answer; rows, counts and marks tell the same story as the answer; a client that
  left blames nobody; the request ends.
* **conversion**: what a client said reaches the backend, and what the backend said
  reaches the client, in order, with its end and its token counts.
* **consoles**: a check-in is neither made up nor forgotten, a session that was paid
  for with a login is kept, retries end.
* **egress**: traffic of a backend goes out through the proxy its administrator chose,
  with that proxy's current credentials, and a tunnel starts at the right byte.
* **settings, keys, logs, models**: a restart changes nothing in what is in force; usage and
  statistics belong to whom they name; what is listed is served.
* **process**: a request in work is not cut off before the shutdown timeout.

## Modules

| Module | What it models |
|---|---|
| `TimeText` | instants with a fraction, and the string order SQLite uses on their RFC3339Nano text |
| `BackendRow` | the health columns of a row and what each write makes of them (pure operators) |
| `BackendPool` | the table and all goroutines that read and write it |
| `BackendTally` | `BackendPool` with a history of the failures recorded since the last reset |
| `Failover` | abstract: one list, one turn per backend in order, one answer |
| `ProxyRequest` | one request through `handleProxy`; implements `Failover` |
| `Conversation` | both request and both JSON response converters as functions on conversations |
| `Exchange` | one attempt between protocols: path, request, JSON answer or event stream, token counts |
| `ConsoleSession` | check-in, pricing and sync of one backend against an external console |
| `Egress` | proxies, references to them, the clients built for them, dialling, imports |
| `Settings` | update and reload of the configuration, field by field |
| `ClientKeys` | keys, the requests they admit, the usage rows under their ids |
| `UsageLogs` | stored rows, hourly statistics, clears |
| `Catalog` | models, mappings and patterns: candidates, and the list at `/v1/models` |
| `Handshake` | the dialer and an external SOCKS5 proxy on one connection |
| `Registry` | `Egress`, `Settings`, `ClientKeys`, `UsageLogs`, `Catalog` and `Handshake`, which share no state, one of them moving |
| `Shutdown` | main, the signal goroutine, the requests in work |
| `..._proofs` | theorems about the module they are named for, and their proofs |
| `MC...` | values of constants for TLC |

Composition: `BackendPool` EXTENDS `BackendRow` EXTENDS `TimeText`; `BackendTally`
EXTENDS `BackendPool`; `ProxyRequest` INSTANCEs `Failover` with a refinement
mapping; `Exchange` EXTENDS `Conversation`; `Registry` EXTENDS `Egress`, `Settings`,
`ClientKeys`, `UsageLogs` (which EXTENDS `TimeText`), `Catalog` and `Handshake`.
The modules are views of one program that overlap where the parts meet:

* `BackendPool` keeps the table and many requests and shrinks an attempt to its effect on
  health; `ProxyRequest` keeps every return of one request and shrinks the table to the
  list of candidates and the marks; `Exchange` is what happens inside one of its attempts
  when the protocols differ.
* `ConsoleSession` keeps the columns a console handler changes on purpose, `BackendPool`
  those its whole-row write changes along with them.
* `Egress` keeps the references of the same rows, `Catalog` their models, `UsageLogs` the
  rows that the `AppendUsageLog` of `ProxyRequest` stores.
* `Registry` is no interleaving of its parts: they share no state, so every behaviour of
  all of them projects to one of each, and `part` fixes the one that moves.

### BackendPool and the code

The atomic step is the SQL statement. A handler that reads in one statement and
writes in another is two actions with its copy in a variable between them.

* `RecoverExpired`, `ListCandidates`: the two statements of `SelectBackend`. Which
  backends' models match is a free choice (`served`).
* `AttemptFails`, `RecordFailure`: the SELECT and the UPDATE of `MarkBackendFailure`.
  The new count comes from the row that was read; `Threshold` raises `BackendFails`
  to at least 1, as `scheduler.New` and the store both do.
* `AttemptSucceeds`: `MarkBackendSuccess`, whose UPDATE has no condition on status.
* `SkipCandidate`, `AbandonRequest`: an attempt that marks nothing; a request that ends early.
* `CreateBackend`, `ImportBackend`, `DeleteBackend`: one statement each. Ids are
  AUTOINCREMENT and never reused. An import is one backend at a time.
* `EditRead`, `EditWrite`, `EditRefused`: `HandleUpdateBackend`.
* `ConsoleRead`, `ConsoleWrite`, `ConsoleReread`, `ConsoleEnd`: check-in, pricing and
  sync, as rounds of "write the held copy, read it again" (`UpdateBackend` ends in
  `GetBackend`). Which calls a console answers decides only how many rounds there are.
* `Restart`: the table stays, all goroutines are gone.

`tally` is a history variable: failures ever counted against an id.

### ProxyRequest and the code

`stage` is the place in `handleProxy`; `usageLog` keeps the four fields that
differ between attempts, among them the backend whose response filled the
response fields, which later attempts do not clear. `RecordAttempt` is the
copy stored when another candidate is left, `Finish` the deferred call.
`AppendUsageLog` runs in a context without the client's cancellation, so it may
fail but not because the client left; the marks run in the request's context
and fail once it did. The branch of `handleProxy` for
`ErrCrossProtocolStreamingNotSupported` is left out: nothing returns that error.
The body of the last return (`all candidate backends failed`) is not reachable
either, because every turn that goes on sets `lastErr` (theorem `LoopEndsWithAReason`).

### Exchange, Conversation and the code

`Conversation` says what a request or an answer is after conversion: items and messages
are sequences of blocks of a speaker; the text itself is a model value and a blank one is
`IsBlank`. Blank text is dropped, neighbouring messages of one speaker are merged
(`AppendBlocks`), and members of the request are renamed (`RenameKeys`). In a request every
item with content becomes a message of its role, a reasoning item with its text too
(`HasContent`), and one with neither content nor text is dropped; in an answer reasoning
items are dropped, and an answer whose items make no content gets its `output_text`
(`MessagesAnswer`; `AnswerSpeech` says what such an answer says).
Tool definitions are passed on and not looked at. The bodies are those of the path's
protocol (`CallsAssumption`, `AnswersAssumption`): a block has a type the converters know or
one they pass on unseen ("other"), its value is what that type carries; what they make of
JSON that is neither is an error answer and not modelled. `AnswerSurvives` is about JSON
answers and `TextArrives` about streams.

In `Exchange` an `Event` is one event of the upstream's stream together with every event
the converter writes for it: `convertResponsesStreamToAnthropic` and its inverse read the
whole body before anything is delivered, so nothing interleaves with them. `started`,
`open` and `text` are the converters' maps; `out` collects what the client is told, `up`
what the upstream said, and the properties compare the two. The upstream keeps to its
protocol's grammar but may leave out the first event or the end of a part, report no
usage, fail, or stop anywhere. `message_delta` is assumed to come once.

What the model shows of the code and no document contradicts: a second message item of
one Responses stream numbers its parts from 0 again, so its text falls outside of an open
part (`PartsNest` allows this and only this); `response.incomplete` is ignored like any
unknown event; a missing `stop_reason` becomes `end_turn`.

### ConsoleSession and the code

A handler is at a network request or at a statement; each is one action, with the
handler's copy of the row in `handler[h].backend`. `SelfNeedsLogin`, `Login`, `SaveSession`
and `Reread` are `newAPIConsoleSelfWithLogin` and the functions under it, `PostCheckin`
and `CheckinNeedsLogin` the check-in with its one retry, `SaveAccount` and `SavePricing`
the two whole-row writes. `CheckinAnswerLost` is a check-in that the console took and
whose answer did not arrive: for new-api the repetition is answered "already" and accepted,
for sub2api a second check-in of a day fails. A day is one number; the code compares
calendar days in several locations and accepts any match. The time of a check-in is
`time.Now()` after the answer, so midnight may lie between the two: `ClaimedCheckin`
says so.

Overlapping handlers overwrite whole rows, and the last writer's session stays; `SessionKept`
and `CheckinRemembered` are about handlers that run alone and are all that holds. With a
stored cookie and a stored account id a check-in never logs in. The design document
`docs/superpowers/specs/2026-07-03-new-api-backend-console-design.md:28` describes a
retry; the test
`TestAdminBackendNewAPIConsoleCheckinWithConfiguredCookieAndUserIDDoesNotRetryFailure`
asserts that there is none, and so does `Bounded`.

### Registry and the code

* `Egress`: `CheckCreate`, `CheckEdit`, `CheckImport` and `CopyRow` are what a handler
  reads before it writes, `WriteRow` and `InsertRows` the statements. `meant` and `serial`
  are history. A stale write can leave a reference to a deleted proxy behind: such an
  attempt fails with "backend socks5 proxy not found", it never goes out directly
  (`DialsAsRead`). Deleting a proxy makes its backends direct, as the code does in one
  transaction. The cache of clients never evicts; it is keyed by address and credentials,
  so its growth is its only cost. An import's items share one reference in the model.
* `Settings`: `SaveSettings`, then one `ApplyField` per assignment. Updates that
  overlap may be saved in one order and applied in the other (`overlapped`). The
  scheduler's and the proxy service's copies are made once in `New` and never change,
  which `docs/api.md:1198` admits although
  `docs/superpowers/specs/2026-06-24-frontend-redesign-design.md:285-295` calls three of
  these settings hot. The table keeps the texts as they came; an update and a reload trim
  two of them (`Trimmed`) and a restart loads them raw, so that `cfg` itself may differ
  after a restart. What uses these two trims them (`backendConsoleUserAgent`, the focus
  patterns), and `ConfigFollowsTable` is about the configuration in use (`InUse`): for the
  other fields that is `cfg`. A reload checks the user agent again and a restart does not
  (`Taken`); nothing else writes the table, so neither refuses a row. That durations and
  numbers are parsed is not modelled, all three places do it alike.
* `ClientKeys`: a request keeps the key it was admitted with. An update ignores the token;
  `allowed_models` is stored and refuses nothing.
* `UsageLogs`: a row carries the time its request began and the names the request listed,
  and goes into the hour of that time, however late it is stored. `history` is the rows
  ever stored; clears delete from `logs` and leave the statistics alone, as the code does.
  A filter's conditions on other columns behave like the one on the name. Times that do
  not parse count as not given (`docs/api.md:862`).
* `Catalog`: `PathMatches` is the library's `path.Match`. Names are trimmed and not
  empty, as `normalizeList` and `normalizeMap` leave them.
* `Handshake`: bytes are counted, so that reads by length and pieces of any size are
  real. Credentials that were not offered are sent when the proxy asks for them. Only a
  deadline ends a read; the context's cancellation is not watched during the handshake.

## Runs

| Run | Result | Question |
|---|---|---|
| `backend_pool_safety` | pass | do timers, counts, deletions, disabled and quarantined backends keep their meaning under every interleaving? |
| `backend_pool_live` | pass | do requests end, and does quarantine? |
| `proxy_request` | pass | do rows, counts, marks and the answer agree; does the request end; is `Failover` implemented? |
| `exchange` | pass | does a conversation, an answer, a stream, its end and its token counts survive conversion? |
| `console_session` | pass | are check-ins true and remembered, sessions kept, retries bounded? |
| `registry` | pass | do references, dials, settings, usage, statistics, clears, the list of models and handshakes keep their meaning? |
| `pool_disabled_reenabled` | violation | only an administrator brings a disabled backend back |
| `pool_import_stuck` | violation | an abnormal backend is never out for good |
| `pool_lost_failure` | violation | every failed attempt adds one |
| `request_double_count` | violation | the hourly count is per attempt |
| `shutdown_not_graceful` | violation | a request in work has until the shutdown timeout |
| `exchange_calls` | violation | conversion covers tool calls in answers and streams |

The six violations are the disagreements between code and documents met while
modelling (`findings`):

1. An attempt that began before an administrator disabled its backend and then
   succeeds sets it back to `normal`. `DisabledHolds` is what remains true: a
   disabled backend nobody holds a candidate or copy of stays disabled.
2. A backend imported as abnormal has no `recover_at` and is never recovered.
   `QuarantineEnds` is what remains true, of backends that have one.
3. Two failures at once count as one. `NoInventedFailures` is what remains true:
   more failures are never counted than there were since the backend was created.
4. A client that leaves between two attempts adds a second row, a failure, to a
   backend that was counted already. `CountedAtMostOnce` is what remains true.
5. `main` returns as soon as the listeners are closed; nothing waits for `Shutdown`.
6. A Messages answer's `tool_use` block is copied into the content of a Responses message,
   and no converter handles the events of a call in a stream. `TextArrives`,
   `AnswerSurvives`, `RequestSurvives` and `TokensLogged` are what remains true: texts
   arrive either way, and the calls of a Responses backend's JSON answer reach a Messages
   client with their arguments.

Met and not checked by a run of their own: RFC3339Nano drops trailing zeros, so text order
is not time order inside a second; recovery may come early by less than a second
(`RecoveryNotEarly`: never before the second of `recover_at`) and a clear may be off by the
seconds at its ends (`ClearsByTheSecond`). A handler that copied the row before a success
writes the failures back that the success cleared, although `docs/SCHEDULING.md:361-363` says
one success clears them: a console sync does so after its last request to the console, an edit
or another failing request when it read the row first. `NoInventedFailures` counts failures
since the backend was created and does not see this; that the timer, the status and the count
of such a row still fit together is `TimerOnlyWhileAbnormal` and `QuarantineBounded`. Hourly
statistics count a 400 and a 3xx as failures of the backend, which `docs/SCHEDULING.md:325-337`
and `docs/DESIGN.md` exclude and the design document of the statistics (2026-06-26, lines
138-139) includes; `MarkedIsCounted` follows the latter. An answer that cannot be converted
leaves the client with an empty 200 while the row says 503 and the backend was
marked as a success; a row may carry response fields of an earlier attempt; a request
in flight over a renaming brings the old name back into its hour's statistics
(`HourlyIsHistory` says whose name is kept).

### Bounds

* `BackendPool_safety.cfg`: one id (deletion and re-creation are visible because a
  mutated, reusing table is checked in the same bounds), two requests, one admin,
  one console handler with two writes: every pair of kinds of writer, and two
  writers of the most frequent kind. `BackendFails = 2` lets a count be below, at and
  above the threshold; `MaxTally = 3` lets it go on after the quarantine; the clock
  has two instants per second and three seconds, cooldown one second, so that a
  recovery time can lie ahead, be reached and be passed, and fall on either side of
  the text order. The requests are interchangeable (SYMMETRY); this run has no
  liveness property.
* `BackendPool_live.cfg`: two ids with different or equal weights and a list of two;
  no symmetry.
* `ProxyRequest_safety.cfg`: three candidates make a first, a middle and a last
  attempt; statuses 200, 400 and 499: the 400 is one that another rule of the code
  (`IsBackendFailureStatus`) treats apart, the 499 also the gateway's own for a client
  that left.
* `Exchange.cfg`: parts 0 to 2, so that there are a first, a middle and a last one; three
  deltas, so that they can be spread over parts, or two of one part; two message items of a
  Responses stream, because the second re-uses numbers; one call. Requests are all
  conversations of up to three messages or items over the kinds of blocks (`MCExchange`);
  JSON answers are all of up to two blocks or items: texts, blank ones, messages with an
  image, with a blank text or with nothing, reasoning, calls whose arguments are JSON and
  whose are not; with and without an `output_text`.
* `ConsoleSession.cfg`: two handlers, as every interference is one of a pair; three
  sessions: one stored, one per handler's login, or two of one handler; two days, to see a
  check-in of today beside one of yesterday; every combination of console and backend type
  that the code tells apart (`MCSetups`).
* `Registry.cfg`: two backends and two writers; two proxies ever created, so that one can
  replace another; two passwords, one of them stale; two fields, one
  of them trimmed and checked by a reload, with a text and the same text padded, and two
  settings handlers, so that updates can overlap between assignments; two keys with two tokens; one request's
  rows over four instants in two hours, two rows, two names; two models, a pattern, every
  mapping between them; bound names of length 0 and 3, two bytes of the target.
* Bounds in guards: `MaxCreated`, `MaxKeys`, `MaxClock`, `MaxRows`, `MaxSpoken`, `MaxIndex`,
  `MaxDeltas`, `MaxItems`, `MaxCalls`, `MaxSessions`, `MaxDay`, `MaxId`, `MaxTally`,
  `MaxSec`, `ConsoleWrites`, and a failure is only
  counted while the clock can still reach its recovery time, because a clock that
  stops is an artefact of the bound.

`ProxyRequest`, `Exchange`, `ConsoleSession` and `Shutdown` really stop, so their
configurations do not check deadlock; `BackendPool` and every part of `Registry` can always
go on.

### Fairness

* `BackendPool`: time passes; a listing and a failure's write that are due happen (statements
  of a local database with a busy timeout). No attempt is assumed to end and no new
  request to come: `QuarantineEnds` has "selections keep happening" as its premise, and
  `RequestEnds` excepts a request that waits for a backend for ever.
* `ProxyRequest`: the handler's own steps are taken. The waits (the client's
  request body, the upstream's header and body, writing to a client that does not
  read) end for certain only when the client has left: the server has no
  read or write timeout, and the client's `ResponseHeaderTimeout` covers neither
  a SOCKS5 greeting nor a body. `RequestEnds` says that nothing else can hang.
  What it needs besides fairness are safety properties, and these are proved:
  `StepsRunOut` (no step leads back), `LoopEndsForAReason`, and for the pool
  `NobodyStranded`. They are defined in the proofs modules and no run repeats them.
* The other modules assume none: they state safety and action properties only. A console
  handler ends because each of its requests has a timeout and their number is bounded, and
  the bound is what the model states (`Bounded`); `NoStandoff` is the safety half of "the
  handshake ends".

## Proofs

`BackendPool_proofs` proves, for any number of ids, requests, admins and consoles and
any threshold and cooldown, type correctness, every safety and action property of
`backend_pool_safety`, and `NobodyStranded`: a request that has not ended is at some
candidate of its list. `TypeOK` is not enough: a stale copy must not
smuggle a bad row back. The inductive invariant is

    IInv == TypeOK /\ IdsHandedOut /\ TableSound /\ CopiesSound /\ MarksSound

* `IdsHandedOut`: rows, candidates and copies name ids already handed out, so an
  insert never meets an old copy;
* `TableSound`: each row is sound: a timer only with abnormal and a count at the
  threshold, at most one cooldown ahead of the clock, count at most `tally`;
* `CopiesSound`: the same of every copy an admin or a console holds. Soundness
  survives `Tick` and a growing `tally`, so an old sound row is still sound when it is
  written back: this is why stale writes cannot break these properties;
* `MarksSound`: a pending mark has read a sound row of its first candidate, one failure
  less than `tally`, at a time that has passed.

`NobodyStranded` rests on `ListsSound`: the list of a request that goes on is not empty and
names no backend twice. That such a list has a first candidate (`FirstExists`) is an
induction over the ids in it, since their number and the weights are not bounded.

`ProxyRequest_proofs` proves, for any number of candidates and any set of upstream
statuses, type correctness, every safety and action property of `proxy_request`, and
the refinement of `Failover` (`Implements`). Here too the properties are not inductive:
what a finished request must show rests on what holds while it runs.

    IInv == TypeOK /\ TurnsInOrder /\ StatusFits /\ RowsFit /\ MarksFit
            /\ SuccessIsServed /\ MarkedIsCounted /\ LastRowTells

* `TurnsInOrder`: the backend at work comes before the rest, so an attempt's number never
  exceeds its backend's place, no backend is tried twice, and an attempt's row is the
  first one that names its backend;
* `StatusFits`: the status in `usageLog`, which every step overwrites, is the one its
  stage calls for, and the answer agrees with it once the handler has returned;
* `RowsFit`: before the deferred call only failures are stored, at most one for each turn
  that is over and none for the backend `usageLog` holds;
* `MarksFit`: a marked failure is stored, or is the one left to the deferred call; a
  marked success is always left to it.

The actions fall into a few forms as far as these can tell (`GatewayAnswers`,
`ExchangeEnds`, `AnswerRelayed`, `TurnBegins`); a lemma shows for each that the actions have
it, and each part of the invariant is then shown to be kept. `OpenRequest` carries the
refinement: while a request is open the backend at work is the front of the queue, so
a failure, a broken-off call and a crash remove exactly that one. `StepsRunOut` gives the
request a measure that every step lowers: the stage counts down inside a turn, and `TurnsInOrder` makes each turn's
backend larger than the last one's, of which there are at most `MaxBackends`.

`Conversation_proofs` proves of the converters themselves, for conversations and answers
of any length, that what is said, by whom and in which order is the same before and after:
`ResponsesInputSays` and `AnthropicMessagesSays` of requests, `MessagesAnswerSays` of a
Responses answer (texts, calls and all else, or its `output_text`), `ResponsesAnswerSays` of the texts of a
Messages answer. The converters are folds, so these are inductions over data. No installed
prover can use an induction theorem whose property is an operator; the property is therefore
a set of numbers, and `NatSetInduction`, which follows from the library's theorem that the
natural numbers are well-founded, says that such a set is all of `Nat`. From it come
`SeqSetInduction`, that the recursive functions behind the folds exist and what they
are on an appended element (`FlattenAppend`, `FoldExists`), and then one lemma for each
function of the code, from a block to a whole conversation.

`Exchange_proofs` proves all properties of `exchange`, for any number of parts, deltas,
items and calls, requests and answers of any length and any counts a usage object may
hold. For streams the invariant relates what was told to the converter's maps:

    IInv == Typed /\ Told /\ Numbered /\ Ended /\ Counted

* `Told`: what the client was told of parts is what `started` and `open` say;
* `Numbered`: within the first item, parts come in the order of their numbers, so that none
  is met again once it is closed;
* `Ended`: the last event of the upstream and the last one told go together;
* `Counted`: the usage the converter holds is the merge of those reported so far.

Two more invariants are about what is said:

* `Sent`: what the upstream was asked is what `PrepareExchange` makes of the client's
  call; with the theorems about the converters this is `RequestSurvives`;
* `Whole`: the converter holds every delta of the upstream and has told each; the parts a
  Responses client was told of are those up to the one the upstream has come to
  (`Reached`), without a gap; the finished item has an entry for each of them; a JSON
  answer is the conversion of the upstream's. `TextArrives` needs "without a gap": the
  entries of the finished item are only numbered like the parts if none is missing before.

`ConsoleSession_proofs` proves all of the module's properties for any number of handlers,
logins and days. A handler's place determines what it may have done (`Fits`): how many
tries are behind it (`Tries`), which days it may report (`Days`) and, while it runs alone,
in what its copy agrees with the row (`Aligned`); while `alone` holds of a handler at work
no other is at work (`NobodyElse`).

`Registry_proofs`, with `UsageLogs_proofs` and `Handshake_proofs`, proves all of `Registry`'s
properties for any constants. Each part has an invariant of its own and a step of one
leaves the others' alone:

* egress: a proxy's `serial` is its id, a reference names an id that was handed out, a
  client dials what its key says: AUTOINCREMENT is why a stale reference is harmless;
* settings: unless updates overlapped, the fields not yet applied are the only ones whose
  use differs from what a restart would give (`Follows`). That a restart passes no row over
  needs the table to hold accepted texts only (`AllIsTaken`), and that raw and trimmed texts
  are used alike needs `Trim` to change nothing twice (`SettingsAssumption`, `TrimmedOnce`);
* keys: ids are not reused and a copy has its key's token;
* logs: rows are numbered as they are stored, so that a new row is none of those before it
  and adds one to one bucket (from the library's facts about cardinality); the texts of two
  instants are in the order of their seconds;
* catalog: type correctness is enough;
* handshake: while the dialer reads, either nothing is unread and the proxy has what it
  wants next or is gone (`Waiting`), or what is unread is what this read and the later ones
  of the same message need (`Spoken`).

TLC checked the properties on the instances of the runs before they were proved, those that
no run lists included.

Assumed of the constants: only what the modules' ASSUMEs name (TLC evaluates them on
every run). A cooldown is a natural number of seconds: the configuration parser would
accept a negative one, which no document describes. The configuration is the same after a
restart, but for `Settings`, whose subject it is. Token counts are natural numbers. Requests
and answers are well-formed in the protocol of their path, as the JSON converters' type
switches distinguish them.

Only model-checked: the liveness properties (`RequestEnds` of `BackendPool` and of
`ProxyRequest`, `QuarantineEnds`), which rest on fairness and ENABLED and are out of the
prover's reach, and the statements that are refuted.

## Not modelled

* Audit events, the dashboard, search and log views, the access log: appends and queries
  that no other state depends on, and their formatting.
* The payload and the filters of prices, the progress stream of a console handler, a
  backend's export: views of what was fetched or stored.
* Header rewriting, request bodies beyond what conversion needs, content encodings: library
  code or copies.
* Sums of durations, bytes and tokens in the hourly statistics: added like the counts.
* `shutdown_timeout`, `listen_addr` and `db_path` in the settings table, which nothing loads.
* The frontend: a view of the admin API.

Reasons per part are in `PROJECT.json` (`components`). Names, URLs, credentials and other
columns are left out of `BackendRow` because no property tells them apart.

## Plan

Left, in this order:

1. The composition of `ProxyRequest` and `BackendPool`: several requests with rows, counts and
   marks over one table. The properties that span both (a marked success is stored as one)
   are so far stated for one request.
2. The composition of `ConsoleSession` and `Egress`: whole-row writes with session, account
   and proxy reference at once. So far each module leaves the other's columns out.
3. Calls in streams, once the converters handle their events.
