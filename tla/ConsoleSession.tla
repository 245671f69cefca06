--------------------------- MODULE ConsoleSession ---------------------------
(***************************************************************************)
(* The console handlers of one backend: check-in, pricing and sync, each a *)
(* sequence of requests to the relay's console made with the session kept  *)
(* in the backend's row, a login when the console asks for one, and writes *)
(* of the whole row in between.                                            *)
(*                                                                         *)
(* The console is external: it issues sessions and lets them expire, takes *)
(* one check-in a day, and may refuse or not answer any request.  A        *)
(* handler is at a request it is about to make or at a statement it is     *)
(* about to run.  Handlers overlap freely: nothing locks the row.          *)
(*                                                                         *)
(* The row keeps a session (the cookie; 0: none), whether the account's id *)
(* is known and the day of the last check-in (console_account_json; 0:     *)
(* none).  The prices are written with it and not looked at.               *)
(***************************************************************************)
EXTENDS Integers

CONSTANTS
  Handlers,      \* each serves one request
  MaxSessions,   \* logins the console grants
  MaxDay,        \* days
  Setups         \* what the backend's row and its console allow

ASSUME BoundsAssumption ==
  /\ MaxSessions \in Nat \ {0} /\ MaxDay \in Nat \ {0}

\* type: backend_type.  credentials: console_username and console_password
\* are set; for sub2api, console_authorization is.  checkin: the console
\* takes check-ins; for sub2api, console_checkin_path is set.  channel:
\* sub2api's channel_url is set.
SetupType == [type : {"new-api", "sub2api"}, credentials : BOOLEAN,
              checkin : BOOLEAN, channel : BOOLEAN]

ASSUME SetupsAssumption == Setups \subseteq SetupType

VARIABLES
  setup,    \* what stays as it is
  row,      \* the columns of the backend's row the handlers change
  handler,  \* where each handler is and what it holds
  today,    \* the day
  checked,  \* console: the days it took a check-in on
  live,     \* console: the sessions that are logged in
  issued    \* console: how many sessions it has issued

console == <<checked, live, issued>>
vars == <<setup, row, handler, today, console>>

Sessions == 0 .. MaxSessions

Resting == {"idle", "done", "failed"}
Requests == {"status", "self", "login", "selfAgain", "checkin", "refresh",
             "pricing", "authMe", "channel"}
Statements == {"saveSession", "saveAccount", "savePricing", "saveAll",
               "reread"}
Places == Resting \cup Requests \cup Statements \cup {"checkedIn"}

RowType == [session : Sessions, id : BOOLEAN, day : 0 .. MaxDay]

\* op: the endpoint.  backend: the handler's copy of the row.  session: the
\* one the last login gave, or else the row's.  id: accountID is not "".
\* direct: directCheckin.  retried: the check-in was answered with a demand
\* to log in.  skip: the sync makes no check-in.  back: where the handler
\* goes after the row is saved and read again.  day: lastCheckinAt.  logins,
\* posts, born and alone are history: the logins and check-ins it tried, the
\* day it began, whether no other handler ran since then.
HandlerType ==
  [at : Places, op : {"checkin", "pricing", "sync"}, backend : RowType,
   id : BOOLEAN, direct : BOOLEAN, retried : BOOLEAN, skip : BOOLEAN,
   back : {"self", "selfAgain", "pricing", "done"}, day : 0 .. MaxDay,
   session : Sessions, logins : Nat, posts : Nat, born : 1 .. MaxDay,
   alone : BOOLEAN]

TypeOK ==
  /\ setup \in SetupType
  /\ row \in RowType
  /\ handler \in [Handlers -> HandlerType]
  /\ today \in 1 .. MaxDay
  /\ checked \subseteq 1 .. MaxDay
  /\ live \subseteq Sessions
  /\ issued \in Sessions

Active(h) == handler[h].at \notin Resting

\* No request yet, or what is left of one when the handler has returned.
NoRow == [session |-> 0, id |-> FALSE, day |-> 0]
Idle == [at |-> "idle", op |-> "sync", backend |-> NoRow, id |-> FALSE,
         direct |-> FALSE, retried |-> FALSE, skip |-> FALSE, back |-> "self",
         day |-> 0, session |-> 0, logins |-> 0, posts |-> 0, born |-> 1,
         alone |-> TRUE]

Init ==
  /\ setup \in Setups
  /\ \E session \in {0, 1}, id \in BOOLEAN :
       /\ row = [session |-> session, id |-> id, day |-> 0]
       /\ issued = session
       /\ live \in SUBSET (1 .. session)
  /\ handler = [h \in Handlers |-> Idle]
  /\ today = 1
  /\ checked = {}

-----------------------------------------------------------------------------
(* The console and the clock.                                              *)

\* A handler lasts less than a day: each of its requests has a timeout.
Tick ==
  /\ today < MaxDay
  /\ \A h \in Handlers : Active(h) => handler[h].born = today
  /\ today' = today + 1
  /\ UNCHANGED <<setup, row, handler, console>>

SessionExpires ==
  /\ \E s \in live : live' = live \ {s}
  /\ UNCHANGED <<setup, row, handler, today, checked, issued>>

\* A request may need the account's id beside the session.
LoggedIn(h) == handler[h].backend.session \in live
MayAskForLogin(h) == ~LoggedIn(h) \/ ~handler[h].id

-----------------------------------------------------------------------------
(* Steps of a handler.                                                     *)

Returned(me) ==
  [Idle EXCEPT !.at = me.at, !.session = me.session,
               !.retried = me.retried, !.logins = me.logins,
               !.alone = me.alone]

Becomes(h, me) ==
  handler' = [handler EXCEPT
    ![h] = IF me.at \in Resting THEN Returned(me) ELSE me]
Goes(h, place) == Becomes(h, [handler[h] EXCEPT !.at = place])

Outside == UNCHANGED <<setup, row, today, console>>

\* hasNewAPIDirectCheckinCredentials.
Direct(backend, id) == backend.session # 0 /\ id

\* loadConsoleBackend and what each handler does first.
First(op) ==
  CASE op = "pricing" -> "pricing"
    [] op = "checkin" /\ Direct(row, row.id) -> "checkin"
    [] op = "checkin" /\ ~Direct(row, row.id) -> "self"
    [] op = "sync" /\ setup.type = "new-api" -> "status"
    [] op = "sync" /\ setup.type = "sub2api" ->
         IF ~setup.credentials THEN "failed"
         ELSE IF setup.checkin THEN "checkin" ELSE "authMe"

Begin(h, op) ==
  /\ handler[h].at = "idle"
  /\ op # "sync" => setup.type = "new-api"
  /\ LET begun == [at |-> First(op), op |-> op, backend |-> row,
                   id |-> row.id,
                   direct |-> op = "checkin" /\ Direct(row, row.id),
                   retried |-> FALSE, skip |-> FALSE, back |-> "self",
                   day |-> 0, session |-> row.session, logins |-> 0,
                   posts |-> 0, born |-> today,
                   alone |-> \A g \in Handlers : ~Active(g)]
     IN  handler' = [g \in Handlers |->
            IF g = h THEN begun ELSE [handler[g] EXCEPT !.alone = FALSE]]
  /\ Outside

\* A transport error, an answer that is no JSON or refuses the request, a
\* client that left, a statement that fails.
Fail(h) ==
  /\ handler[h].at \in Requests \cup Statements
  /\ Goes(h, "failed")
  /\ Outside

\* Mutated form: a sync without check-ins has no time of the last one.
NoLastCheckinAt(backend) == IF setup.checkin THEN backend.day ELSE 0

\* consoleLastCheckinStatus.
LastCheckinAt(backend) == backend.day

\* GET /api/status: whether the sync has to check in.
GetStatus(h) ==
  /\ handler[h].at = "status"
  /\ LET me == handler[h]
         skip == LastCheckinAt(me.backend) = today \/ ~setup.checkin
     IN  Becomes(h, [me EXCEPT !.skip = skip, !.day = LastCheckinAt(me.backend),
                       !.at = IF skip THEN "self" ELSE "checkin",
                       !.direct = ~skip /\ Direct(me.backend, me.id)])
  /\ Outside

AfterSelf(h) == IF handler[h].skip THEN "saveAccount" ELSE "checkin"

\* GET /api/user/self with data; only its own login is left to
\* newAPIConsoleSelfWithLogin when the console asks for one.
GetSelf(h) ==
  /\ handler[h].at \in {"self", "selfAgain"}
  /\ LoggedIn(h)
  /\ Becomes(h, [handler[h] EXCEPT !.id = TRUE, !.at = AfterSelf(h)])
  /\ Outside

\* An answer without data: the id may be known from the login, but there is
\* nothing to save.
GetSelfWithoutData(h) ==
  /\ handler[h].at \in {"self", "selfAgain"}
  /\ LoggedIn(h)
  /\ LET lost == \/ handler[h].skip
                 \/ (handler[h].op = "checkin" /\ ~handler[h].id)
     IN  Goes(h, IF lost THEN "failed" ELSE "checkin")
  /\ Outside

SelfNeedsLogin(h) ==
  /\ handler[h].at = "self"
  /\ MayAskForLogin(h)
  /\ IF setup.credentials
     THEN Becomes(h, [handler[h] EXCEPT !.at = "login", !.logins = @ + 1,
                                        !.back = "selfAgain"])
     ELSE Goes(h, "failed")
  /\ Outside

\* POST /api/user/login: the console may log out its other sessions, and may
\* tell the account's id.
Login(h) ==
  /\ handler[h].at = "login"
  /\ issued < MaxSessions
  /\ issued' = issued + 1
  /\ live' \in {{issued'}, live \cup {issued'}}
  /\ \E id \in {handler[h].id, TRUE} :
       Becomes(h, [handler[h] EXCEPT !.at = "saveSession",
                                     !.session = issued', !.id = id])
  /\ UNCHANGED <<setup, row, today, checked>>

\* UpdateBackend writes every column of the handler's copy, and then reads
\* the row again: another handler's update may lie in between.
Saves(h, backend, back) ==
  /\ row' = backend
  /\ Becomes(h, [handler[h] EXCEPT !.at = "reread", !.back = back])
  /\ UNCHANGED <<setup, today, console>>

SaveSession(h) ==
  /\ handler[h].at = "saveSession"
  /\ Saves(h, [handler[h].backend EXCEPT !.session = handler[h].session],
           handler[h].back)

\* Mutated form: the caller of a login goes on with the row it had before.
KeepsOldRow(h) ==
  /\ handler[h].at = "reread"
  /\ Goes(h, handler[h].back)
  /\ Outside

Reread(h) ==
  /\ handler[h].at = "reread"
  /\ Becomes(h, [handler[h] EXCEPT !.at = handler[h].back, !.backend = row])
  /\ Outside

-----------------------------------------------------------------------------
(* The check-in.                                                           *)

\* The console takes the check-in; today it may have been taken already.  A
\* console of the other type has its own credentials, and refuses a second
\* check-in of the day.
CheckinTaken(h) ==
  /\ handler[h].at = "checkin"
  /\ setup.checkin
  /\ setup.type = "new-api" => LoggedIn(h)
  /\ setup.type = "sub2api" => today \notin checked
  /\ checked' = checked \cup {today}
  /\ UNCHANGED <<setup, row, today, live, issued>>

PostCheckin(h) ==
  /\ CheckinTaken(h)
  /\ Becomes(h, [handler[h] EXCEPT !.at = "checkedIn", !.posts = @ + 1])

\* The check-in is taken and its answer lost.
CheckinAnswerLost(h) ==
  /\ CheckinTaken(h)
  /\ Becomes(h, [handler[h] EXCEPT !.at = "failed", !.posts = @ + 1])

\* Mutated form: every demand to log in is followed.
MayRetryAgain(h) == ~handler[h].direct

\* result.loginRequired() && !directCheckin: the code that follows it does
\* not look for it a second time.
MayRetry(h) == ~handler[h].direct /\ ~handler[h].retried

\* Mutated form: the result of the second check-in is not looked at.
AfterRefusalOnce(h) == IF handler[h].retried THEN "checkedIn" ELSE "failed"

\* !result.success() && !result.alreadyCheckedIn().
AfterRefusal(h) == "failed"

CheckinNeedsLogin(h) ==
  /\ handler[h].at = "checkin" /\ setup.type = "new-api"
  /\ MayAskForLogin(h)
  /\ LET me == [handler[h] EXCEPT !.posts = @ + 1, !.retried = TRUE]
     IN  IF MayRetry(h) /\ setup.credentials
         THEN Becomes(h, [me EXCEPT !.at = "login", !.logins = @ + 1,
                                    !.back = "self"])
         ELSE Becomes(h, [me EXCEPT !.at = AfterRefusal(h)])
  /\ Outside

\* lastCheckinAt = time.Now(), after the pause that follows each request.
NoteCheckin(h) ==
  /\ handler[h].at = "checkedIn"
  /\ Becomes(h, [handler[h] EXCEPT !.day = today,
       !.at = IF setup.type = "new-api" THEN "refresh" ELSE "authMe"])
  /\ Outside

-----------------------------------------------------------------------------
(* The account and the prices.                                             *)

\* A plain GET /api/user/self: no login any more.
Refresh(h) ==
  /\ handler[h].at = "refresh"
  /\ LoggedIn(h)
  /\ Becomes(h, [handler[h] EXCEPT !.at = "saveAccount", !.id = TRUE])
  /\ Outside

\* consoleAccountSummaryJSON replaces the account.
SaveAccount(h) ==
  /\ handler[h].at = "saveAccount"
  /\ Saves(h, [handler[h].backend EXCEPT !.id = TRUE, !.day = handler[h].day],
           IF handler[h].op = "checkin" THEN "done" ELSE "pricing")

GetPricing(h) ==
  /\ handler[h].at = "pricing"
  /\ Goes(h, "savePricing")
  /\ Outside

\* Mutated form: the end of the sync is noted as the day the next is due.
CompletedNextDay(h) ==
  IF handler[h].op = "sync" /\ ~setup.checkin THEN today + 1
  ELSE handler[h].backend.day

\* Where the console takes no check-ins the sync's end counts as one.
CompletedAt(h) ==
  IF handler[h].op = "sync" /\ ~setup.checkin THEN today
  ELSE handler[h].backend.day

SavePricing(h) ==
  /\ handler[h].at = "savePricing"
  /\ Saves(h, [handler[h].backend EXCEPT !.day = CompletedAt(h)], "done")

\* sub2APIConsoleAccountSummaryJSON keeps the time of the last check-in when
\* there is no new one.
LastCheckin(h) ==
  IF handler[h].day # 0 THEN handler[h].day ELSE handler[h].backend.day

GetMe(h) ==
  /\ handler[h].at = "authMe"
  /\ Becomes(h, [handler[h] EXCEPT !.backend.id = TRUE,
       !.backend.day = LastCheckin(h),
       !.at = IF setup.channel THEN "channel" ELSE "saveAll"])
  /\ Outside

GetChannel(h) ==
  /\ handler[h].at = "channel"
  /\ Goes(h, "saveAll")
  /\ Outside

SaveAll(h) ==
  /\ handler[h].at = "saveAll"
  /\ Saves(h, [handler[h].backend EXCEPT !.day = CompletedAt(h)], "done")

-----------------------------------------------------------------------------

\* What the handler does when the console and the store let it.
Proceeds(h) ==
  \/ GetStatus(h) \/ GetSelf(h) \/ GetSelfWithoutData(h) \/ SelfNeedsLogin(h)
  \/ Login(h) \/ SaveSession(h) \/ Reread(h)
  \/ PostCheckin(h) \/ CheckinAnswerLost(h) \/ CheckinNeedsLogin(h)
  \/ NoteCheckin(h)
  \/ Refresh(h) \/ SaveAccount(h) \/ GetPricing(h) \/ SavePricing(h)
  \/ GetMe(h) \/ GetChannel(h) \/ SaveAll(h)

Step(h) == Proceeds(h) \/ Fail(h)

Next ==
  \/ Tick \/ SessionExpires
  \/ \E h \in Handlers : Step(h)
  \/ \E h \in Handlers, op \in {"checkin", "pricing", "sync"} : Begin(h, op)

Spec == Init /\ [][Next]_vars

-----------------------------------------------------------------------------

Copies == {row} \cup {handler[h].backend : h \in Handlers}

\* The day of a check-in that the row, or a handler's copy of it, reports is
\* one the console took a check-in on.  The time is taken after the answer,
\* so midnight may lie in between: it may be the day after.  No refused
\* check-in, failed handler, skipped check-in or overtaken update makes one
\* up.  Where the console takes no check-ins the end of a sync stands for it.
ClaimedCheckin ==
  setup.checkin =>
    \A backend \in Copies : backend.day # 0 =>
       checked \cap {backend.day - 1, backend.day} # {}

\* While no other handler runs, the session a login gave is the one the row
\* and the handler's next requests use: neither the account nor the prices,
\* written with the whole row, bring an older one back.
SessionKept ==
  \A h \in Handlers :
    handler[h].alone /\ handler[h].at \notin {"idle", "failed", "saveSession"} =>
      /\ row.session = handler[h].session
      /\ handler[h].at \notin {"reread", "done"} =>
           handler[h].backend.session = row.session

\* The row a handler writes while no other runs reports no earlier check-in
\* than the row before: a check-in once noted is not forgotten when a later
\* sync makes none, or fails between its two writes.
CheckinRemembered ==
  [][\A h \in Handlers :
       handler[h].alone /\ Active(h) /\ handler'[h] # handler[h] =>
         row'.day >= row.day]_vars

\* However the console answers, a handler tries to log in three times at
\* most and to check in twice, and never logs in when the check-in was made
\* with the stored session and account.
Bounded ==
  \A h \in Handlers :
    /\ handler[h].logins <= 3 /\ handler[h].posts <= 2
    /\ handler[h].direct => handler[h].logins = 0
    /\ handler[h].posts = 2 => handler[h].logins >= 1
=============================================================================
