------------------------ MODULE ConsoleSession_proofs ------------------------
(***************************************************************************)
(* Proofs about ConsoleSession: for any number of overlapping handlers,    *)
(* logins and days.  The inductive invariant says of each handler alone    *)
(* what it has tried so far, which days it has heard of, and, while no     *)
(* other handler runs, how what it holds relates to the row.               *)
(***************************************************************************)
EXTENDS ConsoleSession, TLAPS

Retries(m) == IF m.retried THEN 1 ELSE 0

\* Between a login and the request it was made for.
LoggingInFor(m, place) ==
  m.at \in {"login", "saveSession", "reread"} /\ m.back = place

\* How often the handler has logged in and checked in when it is at a place.
Tries(m) ==
  /\ m.logins <= 3 /\ m.posts <= Retries(m) + 1
  /\ m.posts = 2 => m.logins >= 1
  /\ m.at \notin Resting /\ m.retried => m.logins >= 1
  /\ m.at = "status" => ~m.retried /\ m.logins = 0 /\ m.posts = 0
  /\ m.at = "self" \/ LoggingInFor(m, "self") =>
       m.logins <= 2 * Retries(m) /\ m.posts = Retries(m)
  /\ m.at \in {"selfAgain", "checkin"} \/ LoggingInFor(m, "selfAgain") =>
       m.logins <= 2 * Retries(m) + 1 /\ m.posts = Retries(m)
  /\ m.direct =>
       /\ m.logins = 0
       /\ m.at \notin {"status", "self", "selfAgain", "login", "saveSession"}
       /\ m.at = "reread" => m.back \in {"pricing", "done"}

\* The console took a check-in on the day, or on the one before.
Claimed(day) == day # 0 => checked \cap {day - 1, day} # {}

Days(m) ==
  /\ m.day <= today /\ m.backend.day <= today
  /\ m.at \notin Resting => m.born <= today /\ today <= m.born + 1
  /\ setup.checkin =>
       /\ Claimed(m.day) /\ Claimed(m.backend.day)
       /\ m.at = "checkedIn" => checked \cap {m.born, today} # {}

\* What a handler that runs alone holds, beside the row.
Aligned(m) ==
  /\ m.at \notin {"idle", "failed", "saveSession"} => row.session = m.session
  /\ m.at \notin Resting \cup {"saveSession", "reread"} =>
       m.backend.session = row.session
  /\ m.at \notin Resting \cup {"reread", "channel", "saveAll"} =>
       m.backend.day = row.day
  /\ m.at \in {"channel", "saveAll"} => m.backend.day >= row.day
  /\ m.at \in {"refresh", "saveAccount"} => m.day >= row.day
  /\ m.at = "authMe" => m.day = 0 \/ m.day >= row.day
  /\ m.skip =>
       \/ m.day >= row.day
       \/ /\ m.at \notin {"self", "selfAgain", "login", "saveSession", "checkin"}
          /\ ~LoggingInFor(m, "self") /\ ~LoggingInFor(m, "selfAgain")

Fits(m) == Tries(m) /\ Days(m) /\ (m.alone => Aligned(m))

NobodyElse(h) ==
  handler[h].alone /\ handler[h].at # "idle" =>
    \A g \in Handlers \ {h} : ~Active(g)

IInv ==
  /\ TypeOK
  /\ row.day <= today
  /\ setup.checkin => Claimed(row.day)
  /\ \A h \in Handlers : NobodyElse(h) /\ Fits(handler[h])

USE BoundsAssumption, SetupsAssumption

-----------------------------------------------------------------------------
(* The first state and the steps of the console and the clock. *)

LEMMA IdleIsTyped ==
  /\ Idle \in HandlerType /\ Idle.at = "idle" /\ Idle.day = 0
  /\ Idle.backend.day = 0 /\ Idle.logins = 0 /\ Idle.posts = 0
  /\ ~Idle.direct /\ ~Idle.retried /\ ~Idle.skip
  BY DEF Idle, HandlerType, NoRow, RowType, Places, Resting, Requests,
         Statements, Sessions

LEMMA IdleFits == today \in 1 .. MaxDay => Fits(Idle)
  <1> SUFFICES ASSUME today \in 1 .. MaxDay PROVE Fits(Idle)
    OBVIOUS
  <1> USE IdleIsTyped
  <1>1. Tries(Idle)
    BY DEF Tries, Retries, LoggingInFor, Resting
  <1>2. Days(Idle)
    BY DEF Days, Claimed, Resting
  <1>3. Aligned(Idle)
    BY DEF Aligned, LoggingInFor, Resting
  <1> QED
    BY <1>1, <1>2, <1>3 DEF Fits

LEMMA Starts == Init => IInv
  <1> SUFFICES ASSUME Init PROVE IInv
    OBVIOUS
  <1>1. PICK session \in {0, 1}, id \in BOOLEAN :
          /\ row = [session |-> session, id |-> id, day |-> 0]
          /\ issued = session
          /\ live \in SUBSET (1 .. session)
    BY DEF Init
  <1>2. /\ today = 1 /\ checked = {} /\ setup \in SetupType
        /\ \A h \in Handlers : handler[h] = Idle
    BY DEF Init
  <1>3. TypeOK
    <2>1. row \in RowType /\ issued \in Sessions /\ live \subseteq Sessions
      BY <1>1 DEF RowType, Sessions
    <2>2. handler \in [Handlers -> HandlerType]
      BY IdleIsTyped DEF Init
    <2> QED
      BY <1>2, <2>1, <2>2 DEF TypeOK
  <1>4. row.day = 0
    BY <1>1
  <1>5. ASSUME NEW h \in Handlers PROVE NobodyElse(h) /\ Fits(handler[h])
    <2>1. handler[h] = Idle
      BY <1>2
    <2>2. Fits(Idle)
      BY <1>3, IdleFits DEF TypeOK
    <2> QED
      BY <2>1, <2>2, IdleIsTyped DEF NobodyElse
  <1> QED
    BY <1>2, <1>3, <1>4, <1>5 DEF IInv, Claimed

LEMMA TickKeeps == IInv /\ Tick => IInv'
  <1> SUFFICES ASSUME IInv, Tick PROVE IInv'
    OBVIOUS
  <1>1. /\ today < MaxDay /\ today' = today + 1
        /\ \A h \in Handlers : Active(h) => handler[h].born = today
        /\ UNCHANGED <<setup, row, handler, console>>
    BY DEF Tick
  <1>2. TypeOK /\ today \in 1 .. MaxDay
    BY DEF IInv, TypeOK
  <1>3. TypeOK'
    BY <1>1, <1>2 DEF TypeOK, console
  <1>4. row'.day <= today' /\ (setup'.checkin => Claimed(row.day)')
    BY <1>1, <1>2 DEF IInv, Claimed, console, TypeOK, RowType
  <1>5. ASSUME NEW h \in Handlers PROVE NobodyElse(h)' /\ Fits(handler[h])'
    <2>1. PICK m : m = handler[h]
      OBVIOUS
    <2>2. m \in HandlerType /\ m = handler'[h] /\ NobodyElse(h) /\ Fits(m)
      BY <1>1, <1>2, <2>1 DEF IInv, TypeOK
    <2>3. NobodyElse(h)'
      BY <1>1, <2>2 DEF NobodyElse, Active
    <2>4. Tries(m)'
      BY <2>2 DEF Fits, Tries, Retries, LoggingInFor
    <2>5. m.alone => Aligned(m)'
      BY <1>1, <2>2 DEF Fits, Aligned, LoggingInFor
    <2>6. Days(m)'
      <3>1. m.at \notin Resting => m.born = today
        BY <1>1, <2>1 DEF Active
      <3>2. m.backend.day \in Nat /\ m.day \in Nat /\ m.born \in Nat
        BY <2>2 DEF HandlerType, RowType
      <3>3. setup.checkin /\ m.at = "checkedIn" => m.born \in checked'
        BY <1>1, <2>2, <3>1 DEF Fits, Days, console, Resting
      <3> QED
        BY <1>1, <1>2, <2>2, <3>1, <3>2, <3>3 DEF Fits, Days, Claimed, console
    <2>7. Fits(m)'
      BY <2>4, <2>5, <2>6 DEF Fits
    <2>8. handler'[h] = m
      BY <2>2
    <2> QED
      BY <2>3, <2>7, <2>8
  <1> QED
    BY <1>3, <1>4, <1>5 DEF IInv

LEMMA SessionExpiresKeeps == IInv /\ SessionExpires => IInv'
  <1> SUFFICES ASSUME IInv, SessionExpires PROVE IInv'
    OBVIOUS
  <1>1. /\ live' \subseteq live
        /\ UNCHANGED <<setup, row, handler, today, checked, issued>>
    BY DEF SessionExpires
  <1>2. TypeOK'
    BY <1>1 DEF IInv, TypeOK
  <1> QED
    BY <1>1, <1>2
    DEF IInv, NobodyElse, Active, Fits, Tries, Retries, LoggingInFor, Days,
        Claimed, Aligned

-----------------------------------------------------------------------------
(* A step of a handler.  It disturbs no other handler: the others are not  *)
(* alone, or have not begun.                                               *)

\* What such a step does beside changing the handler's record to me.
StepOf(h, me) ==
  /\ Active(h) /\ Becomes(h, me)
  /\ me \in HandlerType /\ me.alone = handler[h].alone /\ me.at # "idle"
  /\ UNCHANGED <<setup, today>>
  /\ row' \in RowType /\ row'.day <= today
  /\ setup.checkin => Claimed(row.day)'
  /\ checked \subseteq checked' /\ checked' \subseteq 1 .. MaxDay
  /\ live' \subseteq Sessions /\ issued' \in Sessions
  /\ Fits(me)'

LEMMA ReturnedIsTyped ==
  ASSUME NEW me \in HandlerType, me.at \in Resting
  PROVE  LET r == Returned(me)
         IN  /\ r \in HandlerType /\ r.at = me.at /\ r.alone = me.alone
             /\ r.session = me.session /\ r.retried = me.retried
             /\ r.logins = me.logins /\ r.posts = 0 /\ r.day = 0
             /\ r.backend.day = 0 /\ ~r.direct /\ ~r.skip
  BY IdleIsTyped DEF Returned, HandlerType, Idle, NoRow

LEMMA ReturnedFits ==
  ASSUME NEW me \in HandlerType, NEW r \in HandlerType, me.at \in Resting,
         r = Returned(me), Fits(me)', today' \in 1 .. MaxDay
  PROVE  Fits(r)'
  <1>1. /\ r.at = me.at /\ r.alone = me.alone
        /\ r.session = me.session /\ r.retried = me.retried
        /\ r.logins = me.logins /\ r.posts = 0 /\ r.day = 0
        /\ r.backend.day = 0 /\ ~r.direct /\ ~r.skip
    BY ReturnedIsTyped
  <1>2. Tries(r)'
    BY <1>1 DEF Fits, Tries, Retries, LoggingInFor, Resting, HandlerType
  <1>3. Days(r)'
    BY <1>1 DEF Days, Claimed, Resting, HandlerType, RowType
  <1>4. me.alone => Aligned(r)'
    BY <1>1 DEF Fits, Aligned, LoggingInFor, Resting, HandlerType, RowType
  <1> QED
    BY <1>1, <1>2, <1>3, <1>4 DEF Fits

LEMMA HandlerStep ==
  ASSUME IInv, NEW h \in Handlers, NEW me, StepOf(h, me)
  PROVE  IInv'
  <1>1. /\ me \in HandlerType /\ me.alone = handler[h].alone /\ me.at # "idle"
        /\ UNCHANGED <<setup, today>> /\ Fits(me)'
        /\ checked \subseteq checked' /\ Active(h)
    BY DEF StepOf
  <1>2. TypeOK /\ today \in 1 .. MaxDay
    BY DEF IInv, TypeOK
  <1>3. PICK new \in HandlerType :
          /\ handler' = [handler EXCEPT ![h] = new]
          /\ Fits(new)' /\ new.at = me.at /\ new.alone = me.alone
    <2>1. CASE me.at \in Resting
      <3>1. Returned(me) \in HandlerType
        BY <1>1, <2>1, ReturnedIsTyped
      <3>2. Fits(Returned(me))'
        BY <1>1, <1>2, <2>1, <3>1, ReturnedFits
      <3> QED
        BY <1>1, <2>1, <3>1, <3>2, ReturnedIsTyped DEF StepOf, Becomes
    <2>2. CASE me.at \notin Resting
      BY <1>1, <2>2 DEF StepOf, Becomes
    <2> QED
      BY <2>1, <2>2
  <1>4. \A g \in Handlers : handler'[g] = IF g = h THEN new ELSE handler[g]
    BY <1>2, <1>3 DEF TypeOK
  <1>5. TypeOK'
    BY <1>1, <1>2, <1>3 DEF TypeOK, StepOf
  <1>6. row'.day <= today' /\ (setup'.checkin => Claimed(row.day)')
    BY <1>1 DEF StepOf
  <1>7. NobodyElse(h)'
    BY <1>1, <1>3, <1>4 DEF IInv, NobodyElse, Active, Resting
  <1>8. Fits(handler[h])'
    BY <1>3, <1>4
  <1>9. ASSUME NEW g \in Handlers \ {h}
        PROVE  NobodyElse(g)' /\ Fits(handler[g])'
    <2>1. handler'[g] = handler[g] /\ NobodyElse(g) /\ Fits(handler[g])
      BY <1>4 DEF IInv
    <2>2. handler[g].alone => handler[g].at = "idle"
      BY <1>1, <2>1 DEF NobodyElse
    <2>3. NobodyElse(g)'
      BY <2>1, <2>2 DEF NobodyElse
    <2>4. PICK m : m = handler[g]
      OBVIOUS
    <2>5. m \in HandlerType /\ Fits(m)
      BY <1>2, <2>1, <2>4 DEF TypeOK
    <2>6. Tries(m)'
      BY <2>5 DEF Fits, Tries, Retries, LoggingInFor
    <2>7. Days(m)'
      BY <1>1, <2>5 DEF Fits, Days, Claimed
    <2>8. m.alone => Aligned(m)'
      BY <2>2, <2>4, <2>5 DEF Fits, Aligned, LoggingInFor, Resting
    <2>9. Fits(m)'
      BY <2>6, <2>7, <2>8 DEF Fits
    <2> QED
      BY <2>1, <2>3, <2>4, <2>9
  <1> QED
    BY <1>5, <1>6, <1>7, <1>8, <1>9 DEF IInv

-----------------------------------------------------------------------------
(* The steps that change nothing but the handler. *)

LEMMA OutsideStep ==
  ASSUME IInv, NEW h \in Handlers, Active(h), NEW me \in HandlerType,
         Becomes(h, me), me.alone = handler[h].alone, me.at # "idle",
         Outside, Fits(me)
  PROVE  IInv'
  <1>1. UNCHANGED <<setup, row, today, checked, live, issued>>
    BY DEF Outside, console
  <1>2. Tries(me)' /\ Days(me)' /\ (me.alone => Aligned(me)')
    BY <1>1 DEF Fits, Tries, Retries, LoggingInFor, Days, Claimed, Aligned
  <1>3. Fits(me)'
    BY <1>2 DEF Fits
  <1>4. /\ row' \in RowType /\ row'.day <= today
        /\ setup.checkin => Claimed(row.day)'
        /\ checked \subseteq checked' /\ checked' \subseteq 1 .. MaxDay
        /\ live' \subseteq Sessions /\ issued' \in Sessions
    BY <1>1 DEF IInv, TypeOK, Claimed
  <1>5. StepOf(h, me)
    BY <1>1, <1>3, <1>4 DEF StepOf
  <1> QED
    BY <1>5, HandlerStep

LEMMA HandlerFits ==
  ASSUME IInv, NEW h \in Handlers
  PROVE  /\ handler[h] \in HandlerType /\ Fits(handler[h])
         /\ row \in RowType /\ today \in 1 .. MaxDay
         /\ row.day <= today /\ (setup.checkin => Claimed(row.day))
         /\ setup \in SetupType /\ today \in 0 .. MaxDay
  BY DEF IInv, TypeOK

LEMMA FailKeeps ==
  ASSUME IInv, NEW h \in Handlers, Fail(h)
  PROVE  IInv'
  <1>1. PICK m : m = handler[h]
    OBVIOUS
  <1>2. m \in HandlerType /\ Fits(m)
    BY <1>1, HandlerFits
  <1>3. PICK me : me = [m EXCEPT !.at = "failed"]
    OBVIOUS
  <1>4. /\ me \in HandlerType /\ me.at = "failed" /\ me.alone = m.alone
        /\ me.retried = m.retried /\ me.logins = m.logins
        /\ me.posts = m.posts /\ me.direct = m.direct /\ me.skip = m.skip
        /\ me.day = m.day /\ me.backend = m.backend
    BY <1>2, <1>3 DEF HandlerType, Places, Resting
  <1>5. Active(h)
    BY DEF Fail, Active, Requests, Statements, Resting
  <1>6. Tries(me) /\ Days(me) /\ (me.alone => Aligned(me))
    BY <1>2, <1>4
    DEF Fits, Tries, Retries, LoggingInFor, Days, Claimed, Aligned, Resting, HandlerType, RowType
  <1> QED
    BY <1>1, <1>3, <1>4, <1>5, <1>6, OutsideStep DEF Fail, Goes, Fits

LEMMA GetStatusKeeps ==
  ASSUME IInv, NEW h \in Handlers, GetStatus(h)
  PROVE  IInv'
  <1>1. PICK m : m = handler[h]
    OBVIOUS
  <1>2. /\ m \in HandlerType /\ Fits(m) /\ m.at = "status" /\ Active(h)
        /\ row \in RowType /\ today \in 1 .. MaxDay /\ setup \in SetupType
    BY <1>1, HandlerFits DEF GetStatus, Active, Resting
  <1> DEFINE skip == LastCheckinAt(m.backend) = today \/ ~setup.checkin
             place == IF skip THEN "self" ELSE "checkin"
             direct == ~skip /\ Direct(m.backend, m.id)
             day == LastCheckinAt(m.backend)
  <1>3. PICK me : me = [m EXCEPT !.skip = skip, !.day = day, !.at = place,
                                 !.direct = direct]
    OBVIOUS
  <1>4. /\ skip \in BOOLEAN /\ direct \in BOOLEAN /\ day = m.backend.day
        /\ place \in {"self", "checkin"}
        /\ skip => place = "self"
        /\ direct => place = "checkin"
        /\ day \in 0 .. MaxDay
    BY <1>2 DEF LastCheckinAt, HandlerType, RowType, Direct
  <1>5. Becomes(h, me)
    BY <1>1, <1>3 DEF GetStatus
  <1> HIDE DEF skip, place, direct, day
  <1>6. /\ me \in HandlerType /\ me.at \in {"self", "checkin"}
        /\ me.skip => me.at = "self"
        /\ me.direct => me.at = "checkin"
        /\ me.day = m.backend.day
        /\ me.alone = m.alone /\ me.session = m.session
        /\ me.retried = m.retried /\ me.logins = m.logins
        /\ me.posts = m.posts /\ me.backend = m.backend /\ me.born = m.born
    BY <1>2, <1>3, <1>4 DEF HandlerType, Places, Requests
  <1>7. Tries(me)
    BY <1>2, <1>6 DEF Fits, Tries, Retries, LoggingInFor, Resting, HandlerType
  <1>8. Days(me)
    BY <1>2, <1>6 DEF Fits, Days, Claimed, Resting, HandlerType, RowType
  <1>9. me.alone => Aligned(me)
    BY <1>2, <1>6 DEF Fits, Aligned, LoggingInFor, Resting, HandlerType, RowType
  <1> QED
    BY <1>1, <1>2, <1>5, <1>6, <1>7, <1>8, <1>9, OutsideStep DEF GetStatus, Fits

LEMMA GetSelfKeeps ==
  ASSUME IInv, NEW h \in Handlers, GetSelf(h)
  PROVE  IInv'
  <1>1. PICK m : m = handler[h]
    OBVIOUS
  <1>2. /\ m \in HandlerType /\ Fits(m) /\ m.at \in {"self", "selfAgain"} /\ Active(h)
        /\ row \in RowType /\ today \in 1 .. MaxDay /\ row.day <= today
        /\ today \in 0 .. MaxDay /\ (setup.checkin => Claimed(row.day))
    BY <1>1, HandlerFits DEF GetSelf, Active, Resting
  <1>3. PICK me : me = [m EXCEPT !.id = TRUE, !.at = AfterSelf(h)] /\ Becomes(h, me)
    BY <1>1 DEF GetSelf, Goes
  <1>4. /\ me \in HandlerType
        /\ me.at \in {"saveAccount", "checkin"}
        /\ me.at = "saveAccount" <=> m.skip
        /\ me.alone = m.alone /\ me.session = m.session
        /\ me.retried = m.retried /\ me.skip = m.skip /\ me.back = m.back
        /\ me.direct = m.direct /\ me.logins = m.logins /\ me.posts = m.posts
        /\ me.day = m.day /\ me.backend = m.backend /\ me.born = m.born
    BY <1>1, <1>2, <1>3
    DEF HandlerType, RowType, Places, Resting, Requests, Statements, AfterSelf
  <1>5. Tries(me)
    BY <1>2, <1>4 DEF Fits, Tries, Retries, LoggingInFor, Resting, HandlerType
  <1>6. Days(me)
    BY <1>2, <1>4 DEF Fits, Days, Claimed, Resting, HandlerType, RowType
  <1>7. me.alone => Aligned(me)
    BY <1>2, <1>4 DEF Fits, Aligned, LoggingInFor, Resting, HandlerType, RowType
  <1> QED
    BY <1>1, <1>2, <1>3, <1>4, <1>5, <1>6, <1>7, OutsideStep DEF GetSelf, Fits

LEMMA GetPricingKeeps ==
  ASSUME IInv, NEW h \in Handlers, GetPricing(h)
  PROVE  IInv'
  <1>1. PICK m : m = handler[h]
    OBVIOUS
  <1>2. /\ m \in HandlerType /\ Fits(m) /\ m.at = "pricing" /\ Active(h)
        /\ row \in RowType /\ today \in 1 .. MaxDay /\ row.day <= today
        /\ today \in 0 .. MaxDay /\ (setup.checkin => Claimed(row.day))
    BY <1>1, HandlerFits DEF GetPricing, Active, Resting
  <1>3. PICK me : me = [m EXCEPT !.at = "savePricing"] /\ Becomes(h, me)
    BY <1>1 DEF GetPricing, Goes
  <1>4. /\ me \in HandlerType
        /\ me.at = "savePricing"
        /\ me.alone = m.alone /\ me.session = m.session
        /\ me.retried = m.retried /\ me.skip = m.skip /\ me.back = m.back
        /\ me.direct = m.direct /\ me.logins = m.logins /\ me.posts = m.posts
        /\ me.day = m.day /\ me.backend = m.backend /\ me.born = m.born
    BY <1>1, <1>2, <1>3
    DEF HandlerType, RowType, Places, Resting, Requests, Statements
  <1>5. Tries(me)
    BY <1>2, <1>4 DEF Fits, Tries, Retries, LoggingInFor, Resting, HandlerType
  <1>6. Days(me)
    BY <1>2, <1>4 DEF Fits, Days, Claimed, Resting, HandlerType, RowType
  <1>7. me.alone => Aligned(me)
    BY <1>2, <1>4 DEF Fits, Aligned, LoggingInFor, Resting, HandlerType, RowType
  <1> QED
    BY <1>1, <1>2, <1>3, <1>4, <1>5, <1>6, <1>7, OutsideStep DEF GetPricing, Fits

LEMMA GetChannelKeeps ==
  ASSUME IInv, NEW h \in Handlers, GetChannel(h)
  PROVE  IInv'
  <1>1. PICK m : m = handler[h]
    OBVIOUS
  <1>2. /\ m \in HandlerType /\ Fits(m) /\ m.at = "channel" /\ Active(h)
        /\ row \in RowType /\ today \in 1 .. MaxDay /\ row.day <= today
        /\ today \in 0 .. MaxDay /\ (setup.checkin => Claimed(row.day))
    BY <1>1, HandlerFits DEF GetChannel, Active, Resting
  <1>3. PICK me : me = [m EXCEPT !.at = "saveAll"] /\ Becomes(h, me)
    BY <1>1 DEF GetChannel, Goes
  <1>4. /\ me \in HandlerType
        /\ me.at = "saveAll"
        /\ me.alone = m.alone /\ me.session = m.session
        /\ me.retried = m.retried /\ me.skip = m.skip /\ me.back = m.back
        /\ me.direct = m.direct /\ me.logins = m.logins /\ me.posts = m.posts
        /\ me.day = m.day /\ me.backend = m.backend /\ me.born = m.born
    BY <1>1, <1>2, <1>3
    DEF HandlerType, RowType, Places, Resting, Requests, Statements
  <1>5. Tries(me)
    BY <1>2, <1>4 DEF Fits, Tries, Retries, LoggingInFor, Resting, HandlerType
  <1>6. Days(me)
    BY <1>2, <1>4 DEF Fits, Days, Claimed, Resting, HandlerType, RowType
  <1>7. me.alone => Aligned(me)
    BY <1>2, <1>4 DEF Fits, Aligned, LoggingInFor, Resting, HandlerType, RowType
  <1> QED
    BY <1>1, <1>2, <1>3, <1>4, <1>5, <1>6, <1>7, OutsideStep DEF GetChannel, Fits

LEMMA RefreshKeeps ==
  ASSUME IInv, NEW h \in Handlers, Refresh(h)
  PROVE  IInv'
  <1>1. PICK m : m = handler[h]
    OBVIOUS
  <1>2. /\ m \in HandlerType /\ Fits(m) /\ m.at = "refresh" /\ Active(h)
        /\ row \in RowType /\ today \in 1 .. MaxDay /\ row.day <= today
        /\ today \in 0 .. MaxDay /\ (setup.checkin => Claimed(row.day))
    BY <1>1, HandlerFits DEF Refresh, Active, Resting
  <1>3. PICK me : me = [m EXCEPT !.at = "saveAccount", !.id = TRUE] /\ Becomes(h, me)
    BY <1>1 DEF Refresh, Goes
  <1>4. /\ me \in HandlerType
        /\ me.at = "saveAccount"
        /\ me.alone = m.alone /\ me.session = m.session
        /\ me.retried = m.retried /\ me.skip = m.skip /\ me.back = m.back
        /\ me.direct = m.direct /\ me.logins = m.logins /\ me.posts = m.posts
        /\ me.day = m.day /\ me.backend = m.backend /\ me.born = m.born
    BY <1>1, <1>2, <1>3
    DEF HandlerType, RowType, Places, Resting, Requests, Statements
  <1>5. Tries(me)
    BY <1>2, <1>4 DEF Fits, Tries, Retries, LoggingInFor, Resting, HandlerType
  <1>6. Days(me)
    BY <1>2, <1>4 DEF Fits, Days, Claimed, Resting, HandlerType, RowType
  <1>7. me.alone => Aligned(me)
    BY <1>2, <1>4 DEF Fits, Aligned, LoggingInFor, Resting, HandlerType, RowType
  <1> QED
    BY <1>1, <1>2, <1>3, <1>4, <1>5, <1>6, <1>7, OutsideStep DEF Refresh, Fits

LEMMA RereadKeeps ==
  ASSUME IInv, NEW h \in Handlers, Reread(h)
  PROVE  IInv'
  <1>1. PICK m : m = handler[h]
    OBVIOUS
  <1>2. /\ m \in HandlerType /\ Fits(m) /\ m.at = "reread" /\ Active(h)
        /\ row \in RowType /\ today \in 1 .. MaxDay /\ row.day <= today
        /\ today \in 0 .. MaxDay /\ (setup.checkin => Claimed(row.day))
    BY <1>1, HandlerFits DEF Reread, Active, Resting
  <1>3. PICK me : me = [m EXCEPT !.at = m.back, !.backend = row] /\ Becomes(h, me)
    BY <1>1 DEF Reread, Goes
  <1>4. /\ me \in HandlerType
        /\ me.at = m.back /\ me.backend = row
        /\ m.back \in {"self", "selfAgain", "pricing", "done"}
        /\ me.alone = m.alone /\ me.session = m.session
        /\ me.retried = m.retried /\ me.skip = m.skip /\ me.back = m.back
        /\ me.direct = m.direct /\ me.logins = m.logins /\ me.posts = m.posts
        /\ me.day = m.day /\ me.born = m.born
    BY <1>1, <1>2, <1>3
    DEF HandlerType, RowType, Places, Resting, Requests, Statements
  <1>5. Tries(me)
    BY <1>2, <1>4 DEF Fits, Tries, Retries, LoggingInFor, Resting, HandlerType
  <1>6. Days(me)
    BY <1>2, <1>4 DEF Fits, Days, Claimed, Resting, HandlerType, RowType
  <1>7. me.alone => Aligned(me)
    BY <1>2, <1>4 DEF Fits, Aligned, LoggingInFor, Resting, HandlerType, RowType
  <1> QED
    BY <1>1, <1>2, <1>3, <1>4, <1>5, <1>6, <1>7, OutsideStep DEF Reread, Fits

LEMMA GetSelfWithoutDataKeeps ==
  ASSUME IInv, NEW h \in Handlers, GetSelfWithoutData(h)
  PROVE  IInv'
  <1>1. PICK m : m = handler[h]
    OBVIOUS
  <1>2. /\ m \in HandlerType /\ Fits(m) /\ m.at \in {"self", "selfAgain"} /\ Active(h)
        /\ row \in RowType /\ today \in 1 .. MaxDay /\ row.day <= today
        /\ today \in 0 .. MaxDay /\ (setup.checkin => Claimed(row.day))
    BY <1>1, HandlerFits DEF GetSelfWithoutData, Active, Resting
  <1>3. PICK me : me = [m EXCEPT !.at = IF m.skip \/ (m.op = "checkin" /\ ~m.id)
                                    THEN "failed" ELSE "checkin"] /\ Becomes(h, me)
    BY <1>1 DEF GetSelfWithoutData, Goes
  <1>4. /\ me \in HandlerType
        /\ me.at \in {"failed", "checkin"}
        /\ m.skip => me.at = "failed"
        /\ me.alone = m.alone /\ me.session = m.session
        /\ me.retried = m.retried /\ me.skip = m.skip /\ me.back = m.back
        /\ me.direct = m.direct /\ me.logins = m.logins /\ me.posts = m.posts
        /\ me.day = m.day /\ me.backend = m.backend /\ me.born = m.born
    BY <1>1, <1>2, <1>3
    DEF HandlerType, RowType, Places, Resting, Requests, Statements
  <1>5. Tries(me)
    BY <1>2, <1>4 DEF Fits, Tries, Retries, LoggingInFor, Resting, HandlerType
  <1>6. Days(me)
    BY <1>2, <1>4 DEF Fits, Days, Claimed, Resting, HandlerType, RowType
  <1>7. me.alone => Aligned(me)
    BY <1>2, <1>4 DEF Fits, Aligned, LoggingInFor, Resting, HandlerType, RowType
  <1> QED
    BY <1>1, <1>2, <1>3, <1>4, <1>5, <1>6, <1>7, OutsideStep DEF GetSelfWithoutData, Fits

LEMMA SelfNeedsLoginKeeps ==
  ASSUME IInv, NEW h \in Handlers, SelfNeedsLogin(h)
  PROVE  IInv'
  <1>1. PICK m : m = handler[h]
    OBVIOUS
  <1>2. /\ m \in HandlerType /\ Fits(m) /\ m.at = "self" /\ Active(h)
        /\ row \in RowType /\ today \in 1 .. MaxDay /\ row.day <= today
        /\ today \in 0 .. MaxDay /\ (setup.checkin => Claimed(row.day))
    BY <1>1, HandlerFits DEF SelfNeedsLogin, Active, Resting
  <1>3. PICK me : /\ \/ me = [m EXCEPT !.at = "login", !.logins = @ + 1,
                                         !.back = "selfAgain"]
                      \/ me = [m EXCEPT !.at = "failed"]
                   /\ Becomes(h, me)
    BY <1>1 DEF SelfNeedsLogin, Goes
  <1>4. /\ me \in HandlerType
        /\ \/ me.at = "failed" /\ me.logins = m.logins
           \/ me.at = "login" /\ me.back = "selfAgain" /\ me.logins = m.logins + 1
        /\ me.alone = m.alone /\ me.session = m.session
        /\ me.retried = m.retried /\ me.skip = m.skip /\ me.direct = m.direct
        /\ me.posts = m.posts /\ me.day = m.day /\ me.backend = m.backend
        /\ me.born = m.born
    <2> USE <1>2, <1>3 DEF HandlerType, Places, Resting, Requests
    <2>1. CASE me = [m EXCEPT !.at = "failed"]
      BY <2>1
    <2>2. CASE me = [m EXCEPT !.at = "login", !.logins = @ + 1,
                              !.back = "selfAgain"]
      <3>1. PICK n \in Nat : n = m.logins + 1
        OBVIOUS
      <3>2. me = [m EXCEPT !.at = "login", !.logins = n, !.back = "selfAgain"]
        BY <2>2, <3>1
      <3> QED
        BY <3>1, <3>2
    <2> QED
      BY <2>1, <2>2
  <1>5. Tries(me)
    BY <1>2, <1>4 DEF Fits, Tries, Retries, LoggingInFor, Resting, HandlerType
  <1>6. Days(me)
    BY <1>2, <1>4 DEF Fits, Days, Claimed, Resting, HandlerType, RowType
  <1>7. me.alone => Aligned(me)
    BY <1>2, <1>4 DEF Fits, Aligned, LoggingInFor, Resting, HandlerType, RowType
  <1> QED
    BY <1>1, <1>2, <1>3, <1>4, <1>5, <1>6, <1>7, OutsideStep DEF SelfNeedsLogin, Fits

LEMMA NoteCheckinKeeps ==
  ASSUME IInv, NEW h \in Handlers, NoteCheckin(h)
  PROVE  IInv'
  <1>1. PICK m : m = handler[h]
    OBVIOUS
  <1>2. /\ m \in HandlerType /\ Fits(m) /\ m.at = "checkedIn" /\ Active(h)
        /\ row \in RowType /\ today \in 1 .. MaxDay /\ row.day <= today
        /\ today \in 0 .. MaxDay /\ (setup.checkin => Claimed(row.day))
    BY <1>1, HandlerFits DEF NoteCheckin, Active, Resting
  <1>3. PICK me : /\ \E place \in {"refresh", "authMe"} :
                         me = [m EXCEPT !.day = today, !.at = place]
                   /\ Becomes(h, me)
    <2>1. PICK place \in {"refresh", "authMe"} :
            place = IF setup.type = "new-api" THEN "refresh" ELSE "authMe"
      OBVIOUS
    <2>2. Becomes(h, [m EXCEPT !.day = today, !.at = place])
      BY <1>1, <2>1 DEF NoteCheckin
    <2> QED
      BY <2>2
  <1>4. /\ me \in HandlerType
        /\ me.at \in {"refresh", "authMe"} /\ me.day = today
        /\ me.alone = m.alone /\ me.session = m.session
        /\ me.retried = m.retried /\ me.skip = m.skip /\ me.back = m.back
        /\ me.direct = m.direct /\ me.logins = m.logins /\ me.posts = m.posts
        /\ me.backend = m.backend /\ me.born = m.born
    BY <1>1, <1>2, <1>3
    DEF HandlerType, RowType, Places, Resting, Requests, Statements
  <1>5. Tries(me)
    BY <1>2, <1>4 DEF Fits, Tries, Retries, LoggingInFor, Resting, HandlerType
  <1>6. Days(me)
    BY <1>2, <1>4 DEF Fits, Days, Claimed, Resting, HandlerType, RowType
  <1>7. me.alone => Aligned(me)
    BY <1>2, <1>4 DEF Fits, Aligned, LoggingInFor, Resting, HandlerType, RowType
  <1> QED
    BY <1>1, <1>2, <1>3, <1>4, <1>5, <1>6, <1>7, OutsideStep DEF NoteCheckin, Fits

LEMMA GetMeKeeps ==
  ASSUME IInv, NEW h \in Handlers, GetMe(h)
  PROVE  IInv'
  <1>1. PICK m : m = handler[h]
    OBVIOUS
  <1>2. /\ m \in HandlerType /\ Fits(m) /\ m.at = "authMe" /\ Active(h)
        /\ row \in RowType /\ today \in 1 .. MaxDay /\ row.day <= today
        /\ today \in 0 .. MaxDay /\ (setup.checkin => Claimed(row.day))
    BY <1>1, HandlerFits DEF GetMe, Active, Resting
  <1>3. PICK me : me = [m EXCEPT !.backend.id = TRUE, !.backend.day = LastCheckin(h),
                              !.at = IF setup.channel THEN "channel" ELSE "saveAll"] /\ Becomes(h, me)
    BY <1>1 DEF GetMe, Goes
  <1>4. /\ me \in HandlerType
        /\ me.at \in {"channel", "saveAll"}
        /\ me.backend.session = m.backend.session
        /\ me.backend.day = IF m.day # 0 THEN m.day ELSE m.backend.day
        /\ me.alone = m.alone /\ me.session = m.session
        /\ me.retried = m.retried /\ me.skip = m.skip /\ me.back = m.back
        /\ me.direct = m.direct /\ me.logins = m.logins /\ me.posts = m.posts
        /\ me.day = m.day /\ me.born = m.born
    BY <1>1, <1>2, <1>3
    DEF HandlerType, RowType, Places, Resting, Requests, Statements, LastCheckin
  <1>5. Tries(me)
    BY <1>2, <1>4 DEF Fits, Tries, Retries, LoggingInFor, Resting, HandlerType
  <1>6. Days(me)
    BY <1>2, <1>4 DEF Fits, Days, Claimed, Resting, HandlerType, RowType
  <1>7. me.alone => Aligned(me)
    BY <1>2, <1>4 DEF Fits, Aligned, LoggingInFor, Resting, HandlerType, RowType
  <1> QED
    BY <1>1, <1>2, <1>3, <1>4, <1>5, <1>6, <1>7, OutsideStep DEF GetMe, Fits

LEMMA CheckinNeedsLoginKeeps ==
  ASSUME IInv, NEW h \in Handlers, CheckinNeedsLogin(h)
  PROVE  IInv'
  <1>1. PICK m : m = handler[h]
    OBVIOUS
  <1>2. /\ m \in HandlerType /\ Fits(m) /\ m.at = "checkin" /\ Active(h)
        /\ row \in RowType /\ today \in 1 .. MaxDay /\ row.day <= today
        /\ today \in 0 .. MaxDay /\ (setup.checkin => Claimed(row.day))
    BY <1>1, HandlerFits DEF CheckinNeedsLogin, Active, Resting
  <1>3. PICK me : /\ \/ /\ ~m.direct /\ ~m.retried
                         /\ me = [m EXCEPT !.posts = @ + 1, !.retried = TRUE,
                                           !.at = "login", !.logins = @ + 1,
                                           !.back = "self"]
                      \/ me = [m EXCEPT !.posts = @ + 1, !.retried = TRUE,
                                        !.at = "failed"]
                   /\ Becomes(h, me)
    BY <1>1 DEF CheckinNeedsLogin, MayRetry, AfterRefusal
  <1>4. /\ me \in HandlerType
        /\ me.posts = m.posts + 1 /\ me.retried
        /\ \/ me.at = "failed" /\ me.logins = m.logins
           \/ /\ me.at = "login" /\ me.back = "self" /\ ~m.direct /\ ~m.retried
              /\ me.logins = m.logins + 1
        /\ me.alone = m.alone /\ me.session = m.session /\ me.skip = m.skip
        /\ me.direct = m.direct /\ me.day = m.day /\ me.backend = m.backend
        /\ me.born = m.born
    <2> USE <1>2, <1>3 DEF HandlerType, Places, Resting, Requests
    <2>1. PICK n \in Nat, p \in Nat : n = m.logins + 1 /\ p = m.posts + 1
      OBVIOUS
    <2>2. CASE me = [m EXCEPT !.posts = p, !.retried = TRUE, !.at = "failed"]
      BY <2>1, <2>2
    <2>3. CASE /\ ~m.direct /\ ~m.retried
               /\ me = [m EXCEPT !.posts = p, !.retried = TRUE, !.at = "login",
                                 !.logins = n, !.back = "self"]
      BY <2>1, <2>3
    <2> QED
      BY <2>1, <2>2, <2>3
  <1>5. Tries(me)
    BY <1>2, <1>4 DEF Fits, Tries, Retries, LoggingInFor, Resting, HandlerType
  <1>6. Days(me)
    BY <1>2, <1>4 DEF Fits, Days, Claimed, Resting, HandlerType, RowType
  <1>7. me.alone => Aligned(me)
    BY <1>2, <1>4 DEF Fits, Aligned, LoggingInFor, Resting, HandlerType, RowType
  <1> QED
    BY <1>1, <1>2, <1>3, <1>4, <1>5, <1>6, <1>7, OutsideStep DEF CheckinNeedsLogin, Fits

-----------------------------------------------------------------------------
(* The steps that change the console or the row. *)

LEMMA LoginKeeps ==
  ASSUME IInv, NEW h \in Handlers, Login(h)
  PROVE  IInv'
  <1>1. PICK m : m = handler[h]
    OBVIOUS
  <1>2. /\ m \in HandlerType /\ Fits(m) /\ m.at = "login" /\ Active(h)
        /\ row \in RowType /\ row.day <= today
        /\ checked \subseteq 1 .. MaxDay /\ (setup.checkin => Claimed(row.day))
    BY <1>1, HandlerFits DEF Login, Active, Resting, IInv, TypeOK
  <1>3. PICK s : s = issued'
    OBVIOUS
  <1>4. PICK me : /\ \E id \in {m.id, TRUE} :
                       me = [m EXCEPT !.at = "saveSession", !.session = s,
                                      !.id = id]
                  /\ Becomes(h, me)
    BY <1>1, <1>3 DEF Login
  <1>5. /\ UNCHANGED <<setup, row, today, checked>>
        /\ s \in Sessions /\ live' \subseteq Sessions
    BY <1>3 DEF Login, IInv, TypeOK, Sessions
  <1>6. /\ me \in HandlerType /\ me.at = "saveSession"
        /\ me.alone = m.alone /\ me.retried = m.retried /\ me.skip = m.skip
        /\ me.back = m.back /\ me.direct = m.direct /\ me.logins = m.logins
        /\ me.posts = m.posts /\ me.day = m.day /\ me.backend = m.backend
        /\ me.born = m.born
    BY <1>2, <1>4, <1>5 DEF HandlerType, Places, Statements
  <1>7. Tries(me)'
    BY <1>2, <1>6 DEF Fits, Tries, Retries, LoggingInFor, Resting, HandlerType
  <1>8. Days(me)'
    BY <1>2, <1>5, <1>6 DEF Fits, Days, Claimed, Resting, HandlerType, RowType
  <1>9. me.alone => Aligned(me)'
    BY <1>2, <1>5, <1>6
    DEF Fits, Aligned, LoggingInFor, Resting, HandlerType, RowType
  <1>10. setup.checkin => Claimed(row.day)'
    BY <1>2, <1>5 DEF Claimed
  <1>11. StepOf(h, me)
    BY <1>1, <1>2, <1>3, <1>4, <1>5, <1>6, <1>7, <1>8, <1>9, <1>10 DEF StepOf, Fits
  <1> QED
    BY <1>11, HandlerStep

LEMMA CheckinTakenKeeps ==
  ASSUME IInv, NEW h \in Handlers, PostCheckin(h) \/ CheckinAnswerLost(h)
  PROVE  IInv'
  <1>1. PICK m : m = handler[h]
    OBVIOUS
  <1>2. /\ m \in HandlerType /\ Fits(m) /\ m.at = "checkin" /\ Active(h)
        /\ row \in RowType /\ row.day <= today /\ today \in 1 .. MaxDay
        /\ checked \subseteq 1 .. MaxDay /\ live \subseteq Sessions
        /\ issued \in Sessions /\ (setup.checkin => Claimed(row.day))
    BY <1>1, HandlerFits
    DEF PostCheckin, CheckinAnswerLost, CheckinTaken, Active, Resting, IInv,
        TypeOK
  <1>3. PICK n \in Nat : n = m.posts + 1
    BY <1>2 DEF HandlerType
  <1>4. PICK me : /\ \E place \in {"checkedIn", "failed"} :
                       me = [m EXCEPT !.at = place, !.posts = n]
                  /\ Becomes(h, me)
    BY <1>1, <1>3 DEF PostCheckin, CheckinAnswerLost
  <1>5. /\ UNCHANGED <<setup, row, today, live, issued>>
        /\ checked' = checked \cup {today}
    BY DEF PostCheckin, CheckinAnswerLost, CheckinTaken
  <1>6. /\ me \in HandlerType /\ me.at \in {"checkedIn", "failed"}
        /\ me.posts = m.posts + 1
        /\ me.alone = m.alone /\ me.session = m.session
        /\ me.retried = m.retried /\ me.skip = m.skip /\ me.back = m.back
        /\ me.direct = m.direct /\ me.logins = m.logins /\ me.day = m.day
        /\ me.backend = m.backend /\ me.born = m.born
    BY <1>2, <1>3, <1>4 DEF HandlerType, Places, Resting
  <1>7. Tries(me)'
    BY <1>2, <1>6 DEF Fits, Tries, Retries, LoggingInFor, Resting, HandlerType
  <1>8. Days(me)'
    BY <1>2, <1>5, <1>6 DEF Fits, Days, Claimed, Resting, HandlerType, RowType
  <1>9. me.alone => Aligned(me)'
    BY <1>2, <1>5, <1>6
    DEF Fits, Aligned, LoggingInFor, Resting, HandlerType, RowType
  <1>10. (setup.checkin => Claimed(row.day)') /\ checked' \subseteq 1 .. MaxDay
    BY <1>2, <1>5 DEF Claimed
  <1>11. StepOf(h, me)
    BY <1>1, <1>2, <1>4, <1>5, <1>6, <1>7, <1>8, <1>9, <1>10 DEF StepOf, Fits
  <1> QED
    BY <1>11, HandlerStep

\* A write of the whole row, after which the handler reads it again.
LEMMA SavesKeep ==
  ASSUME IInv, NEW h \in Handlers, NEW m, m = handler[h], Active(h),
         NEW backend \in RowType, NEW back, Saves(h, backend, back),
         backend.day <= today, setup.checkin => Claimed(backend.day),
         m.alone => backend.session = m.session,
         \/ m.at = "saveSession" /\ back = m.back /\ backend.day = m.backend.day
         \/ back \in {"pricing", "done"}
  PROVE  IInv'
  <1>1. /\ m \in HandlerType /\ Fits(m) /\ m.at \notin Resting
        /\ checked \subseteq 1 .. MaxDay /\ live \subseteq Sessions
        /\ issued \in Sessions
    BY HandlerFits DEF Active, IInv, TypeOK
  <1>2. PICK me : me = [m EXCEPT !.at = "reread", !.back = back] /\ Becomes(h, me)
    BY DEF Saves
  <1>3. row' = backend /\ UNCHANGED <<setup, today, checked, live, issued>>
    BY DEF Saves, console
  <1>4. /\ me \in HandlerType /\ me.at = "reread" /\ me.back = back
        /\ me.alone = m.alone /\ me.session = m.session
        /\ me.retried = m.retried /\ me.skip = m.skip /\ me.direct = m.direct
        /\ me.logins = m.logins /\ me.posts = m.posts /\ me.day = m.day
        /\ me.backend = m.backend /\ me.born = m.born
    BY <1>1, <1>2 DEF HandlerType, Places, Statements
  <1>5. Tries(me)'
    BY <1>1, <1>4 DEF Fits, Tries, Retries, LoggingInFor, Resting, HandlerType
  <1>6. Days(me)'
    BY <1>1, <1>3, <1>4 DEF Fits, Days, Claimed, Resting, HandlerType, RowType
  <1>7. me.alone => Aligned(me)'
    BY <1>1, <1>3, <1>4
    DEF Fits, Aligned, LoggingInFor, Resting, HandlerType, RowType
  <1>8. setup.checkin => Claimed(row.day)'
    BY <1>3 DEF Claimed
  <1>9. StepOf(h, me)
    BY <1>1, <1>2, <1>3, <1>4, <1>5, <1>6, <1>7, <1>8 DEF StepOf, Fits
  <1> QED
    BY <1>9, HandlerStep

LEMMA CompletedAtIsSound ==
  ASSUME IInv, NEW h \in Handlers
  PROVE  /\ CompletedAt(h) \in 0 .. MaxDay /\ CompletedAt(h) <= today
         /\ setup.checkin => CompletedAt(h) = handler[h].backend.day
         /\ handler[h].backend.day <= CompletedAt(h)
  BY HandlerFits
  DEF CompletedAt, Fits, Days, HandlerType, RowType

LEMMA SaveKeeps ==
  ASSUME IInv, NEW h \in Handlers,
         SaveSession(h) \/ SaveAccount(h) \/ SavePricing(h) \/ SaveAll(h)
  PROVE  IInv'
  <1>1. PICK m : m = handler[h]
    OBVIOUS
  <1>2. /\ m \in HandlerType /\ Fits(m) /\ Active(h)
        /\ m.at \in {"saveSession", "saveAccount", "savePricing", "saveAll"}
        /\ m.backend \in RowType
    BY <1>1, HandlerFits
    DEF SaveSession, SaveAccount, SavePricing, SaveAll, Active, Resting,
        HandlerType
  <1>3. CASE SaveSession(h)
    <2>1. PICK backend : backend = [m.backend EXCEPT !.session = m.session]
      OBVIOUS
    <2>2. /\ backend \in RowType /\ backend.session = m.session
          /\ backend.day = m.backend.day
      BY <1>2, <2>1 DEF HandlerType, RowType
    <2>3. m.at = "saveSession" /\ Saves(h, backend, m.back)
      BY <1>1, <1>3, <2>1 DEF SaveSession
    <2>4. /\ backend.day <= today
          /\ setup.checkin => Claimed(backend.day)
      BY <1>2, <2>2 DEF Fits, Days
    <2> QED
      BY <1>1, <1>2, <2>2, <2>3, <2>4, SavesKeep
  <1>4. CASE SaveAccount(h)
    <2>1. PICK backend : backend = [m.backend EXCEPT !.id = TRUE, !.day = m.day]
      OBVIOUS
    <2>2. /\ backend \in RowType /\ backend.session = m.backend.session
          /\ backend.day = m.day
      BY <1>2, <2>1 DEF HandlerType, RowType
    <2>3. PICK back \in {"pricing", "done"} : Saves(h, backend, back)
      BY <1>1, <1>4, <2>1 DEF SaveAccount
    <2>4. /\ backend.day <= today
          /\ setup.checkin => Claimed(backend.day)
      BY <1>2, <2>2 DEF Fits, Days
    <2>5. m.alone => backend.session = m.session
      BY <1>1, <1>2, <1>4, <2>2 DEF SaveAccount, Fits, Aligned, Resting
    <2> QED
      BY <1>1, <1>2, <2>2, <2>3, <2>4, <2>5, SavesKeep
  <1>5. CASE SavePricing(h) \/ SaveAll(h)
    <2>1. PICK backend : backend = [m.backend EXCEPT !.day = CompletedAt(h)]
      OBVIOUS
    <2>2. /\ backend \in RowType /\ backend.session = m.backend.session
          /\ backend.day = CompletedAt(h)
      BY <1>2, <2>1, CompletedAtIsSound DEF HandlerType, RowType
    <2>3. m.at \in {"savePricing", "saveAll"} /\ Saves(h, backend, "done")
      BY <1>1, <1>5, <2>1 DEF SavePricing, SaveAll
    <2>4. /\ backend.day <= today
          /\ setup.checkin => Claimed(backend.day)
      BY <1>1, <1>2, <2>2, CompletedAtIsSound DEF Fits, Days
    <2>5. m.alone => backend.session = m.session
      BY <1>2, <2>2, <2>3 DEF Fits, Aligned, Resting
    <2> QED
      BY <1>1, <1>2, <2>2, <2>3, <2>4, <2>5, SavesKeep
  <1> QED
    BY <1>3, <1>4, <1>5

LEMMA BeginKeeps ==
  ASSUME IInv, NEW h \in Handlers, NEW op \in {"checkin", "pricing", "sync"},
         Begin(h, op)
  PROVE  IInv'
  <1>1. TypeOK /\ row \in RowType /\ today \in 1 .. MaxDay /\ setup \in SetupType
    BY DEF IInv, TypeOK
  <1>2. PICK begun :
          /\ begun = [at |-> First(op), op |-> op, backend |-> row,
                      id |-> row.id,
                      direct |-> op = "checkin" /\ Direct(row, row.id),
                      retried |-> FALSE, skip |-> FALSE, back |-> "self",
                      day |-> 0, session |-> row.session, logins |-> 0,
                      posts |-> 0, born |-> today,
                      alone |-> \A g \in Handlers : ~Active(g)]
          /\ handler' = [g \in Handlers |->
               IF g = h THEN begun ELSE [handler[g] EXCEPT !.alone = FALSE]]
    BY DEF Begin
  <1>3. /\ First(op) \in {"status", "self", "checkin", "pricing", "authMe",
                          "failed"}
        /\ op = "checkin" /\ Direct(row, row.id) => First(op) = "checkin"
        /\ Direct(row, row.id) \in BOOLEAN
    BY <1>1 DEF First, SetupType, Direct
  <1>4. PICK place, direct, alone :
          /\ place = First(op)
          /\ direct = (op = "checkin" /\ Direct(row, row.id))
          /\ alone = \A g \in Handlers : ~Active(g)
    OBVIOUS
  <1>5. begun = [at |-> place, op |-> op, backend |-> row, id |-> row.id,
                 direct |-> direct, retried |-> FALSE, skip |-> FALSE,
                 back |-> "self", day |-> 0, session |-> row.session,
                 logins |-> 0, posts |-> 0, born |-> today, alone |-> alone]
    BY <1>2, <1>4
  <1>6. /\ place \in {"status", "self", "checkin", "pricing", "authMe", "failed"}
        /\ direct \in BOOLEAN /\ (direct => place = "checkin")
        /\ alone \in BOOLEAN /\ (alone => \A g \in Handlers : ~Active(g))
    BY <1>3, <1>4
  <1>7. /\ row.id \in BOOLEAN /\ row.session \in Sessions
        /\ row.day \in 0 .. MaxDay
    BY <1>1 DEF RowType
  <1>8. begun \in HandlerType
    BY <1>1, <1>5, <1>6, <1>7
    DEF HandlerType, Places, Requests, Resting
  <1>9. /\ begun.at = place /\ begun.direct = direct /\ begun.alone = alone
        /\ begun.backend = row /\ begun.session = row.session
        /\ ~begun.retried /\ ~begun.skip /\ begun.back = "self"
        /\ begun.day = 0 /\ begun.logins = 0 /\ begun.posts = 0
        /\ begun.born = today
    BY <1>5
  <1>10. UNCHANGED <<setup, row, today, checked, live, issued>>
    BY DEF Begin, Outside, console
  <1>11. handler'[h] = begun
    BY <1>2
  <1>12. Tries(begun)'
    BY <1>6, <1>9 DEF Tries, Retries, LoggingInFor, Resting
  <1>13. Days(begun)'
    BY <1>1, <1>6, <1>7, <1>9, <1>10 DEF IInv, Days, Claimed, Resting
  <1>14. Aligned(begun)'
    BY <1>6, <1>7, <1>9, <1>10 DEF Aligned, LoggingInFor, Resting
  <1>15. Fits(handler[h])'
    <2>1. Fits(begun)'
      BY <1>12, <1>13, <1>14 DEF Fits
    <2> QED
      BY <1>11, <2>1
  <1>16. ASSUME NEW g \in Handlers \ {h}
         PROVE  /\ handler'[g] \in HandlerType /\ Fits(handler[g])'
                /\ ~handler'[g].alone /\ handler'[g].at = handler[g].at
    <2>1. PICK m : m = handler[g]
      OBVIOUS
    <2>2. m \in HandlerType /\ Fits(m)
      BY <2>1, HandlerFits
    <2>3. PICK me : me = [m EXCEPT !.alone = FALSE]
      OBVIOUS
    <2>4. /\ me \in HandlerType /\ ~me.alone
          /\ me.at = m.at /\ me.session = m.session /\ me.retried = m.retried
          /\ me.skip = m.skip /\ me.back = m.back /\ me.direct = m.direct
          /\ me.logins = m.logins /\ me.posts = m.posts /\ me.day = m.day
          /\ me.backend = m.backend /\ me.born = m.born
      BY <2>2, <2>3 DEF HandlerType
    <2>5. handler'[g] = me
      BY <1>2, <2>1, <2>3
    <2>6. Tries(me)'
      BY <2>2, <2>4 DEF Fits, Tries, Retries, LoggingInFor, HandlerType
    <2>7. Days(me)'
      BY <1>10, <2>2, <2>4 DEF Fits, Days, Claimed, HandlerType, RowType
    <2>8. Fits(me)'
      BY <2>4, <2>6, <2>7 DEF Fits
    <2> QED
      BY <2>1, <2>4, <2>5, <2>8
  <1>17. TypeOK'
    BY <1>1, <1>2, <1>8, <1>10, <1>11, <1>16 DEF TypeOK
  <1>18. \A g \in Handlers : NobodyElse(g)'
    BY <1>6, <1>9, <1>11, <1>16 DEF NobodyElse, Active
  <1>19. row'.day <= today' /\ (setup'.checkin => Claimed(row.day)')
    BY <1>10 DEF IInv, Claimed
  <1> QED
    BY <1>15, <1>16, <1>17, <1>18, <1>19 DEF IInv

-----------------------------------------------------------------------------
(* The specification. *)

LEMMA StepKeeps ==
  ASSUME IInv, NEW h \in Handlers, Step(h)
  PROVE  IInv'
  BY FailKeeps, GetStatusKeeps, GetSelfKeeps, GetSelfWithoutDataKeeps,
     SelfNeedsLoginKeeps, LoginKeeps, SaveKeeps, RereadKeeps,
     CheckinTakenKeeps, CheckinNeedsLoginKeeps, NoteCheckinKeeps,
     RefreshKeeps, GetPricingKeeps, GetMeKeeps, GetChannelKeeps
  DEF Step, Proceeds

LEMMA Keeps == IInv /\ [Next]_vars => IInv'
  <1> SUFFICES ASSUME IInv, [Next]_vars PROVE IInv'
    OBVIOUS
  <1>1. CASE Next
    BY <1>1, TickKeeps, SessionExpiresKeeps, StepKeeps, BeginKeeps DEF Next
  <1>2. CASE UNCHANGED vars
    BY <1>2
    DEF vars, console, IInv, TypeOK, NobodyElse, Active, Fits, Tries, Retries,
        LoggingInFor, Days, Claimed, Aligned
  <1> QED
    BY <1>1, <1>2

\* The inductive invariant, for any number of handlers, logins and days.
THEOREM Invariant == Spec => []IInv
  BY Starts, Keeps, PTL DEF Spec

\* The row, the copies the handlers hold of it and their places are of the
\* kind the code declares.
THEOREM TypeCorrect == Spec => []TypeOK
  <1>1. IInv => TypeOK
    BY DEF IInv
  <1> QED
    BY <1>1, Invariant, PTL

\* A check-in that a row or a handler reports was taken by the console, that
\* day or just before midnight, however handlers overlap, fail and retry.
THEOREM ClaimsAreTrue == Spec => []ClaimedCheckin
  <1>1. IInv => ClaimedCheckin
    BY DEF IInv, Fits, Days, Claimed, ClaimedCheckin, Copies
  <1> QED
    BY <1>1, Invariant, PTL

\* A handler that runs alone never loses the session it logged in with.
THEOREM SessionsStay == Spec => []SessionKept
  <1>1. IInv => SessionKept
    BY DEF IInv, Fits, Aligned, SessionKept, Resting
  <1> QED
    BY <1>1, Invariant, PTL

\* No answer of the console makes a handler log in or check in without end.
THEOREM TriesAreBounded == Spec => []Bounded
  <1>1. IInv => Bounded
    <2> SUFFICES ASSUME IInv, NEW h \in Handlers
                 PROVE  /\ handler[h].logins <= 3 /\ handler[h].posts <= 2
                        /\ handler[h].direct => handler[h].logins = 0
                        /\ handler[h].posts = 2 => handler[h].logins >= 1
      BY DEF Bounded
    <2> QED
      BY HandlerFits DEF Fits, Tries, Retries, HandlerType
  <1> QED
    BY <1>1, Invariant, PTL

\* What a handler that runs alone writes.
LEMMA WritesNoEarlierDay ==
  ASSUME IInv, NEW h \in Handlers, handler[h].alone,
         SaveSession(h) \/ SaveAccount(h) \/ SavePricing(h) \/ SaveAll(h)
  PROVE  row'.day >= row.day
  <1>1. PICK m : m = handler[h]
    OBVIOUS
  <1>2. /\ m \in HandlerType /\ Aligned(m) /\ m.backend \in RowType
        /\ row.day \in 0 .. MaxDay /\ m.day \in 0 .. MaxDay
    BY <1>1, HandlerFits DEF Fits, HandlerType, RowType
  <1>3. CASE SaveSession(h)
    <2>1. m.backend.day = row.day
      BY <1>1, <1>2, <1>3 DEF SaveSession, Aligned, Resting
    <2>2. row' = [m.backend EXCEPT !.session = m.session]
      BY <1>1, <1>3 DEF SaveSession, Saves
    <2> QED
      BY <1>2, <2>1, <2>2 DEF RowType
  <1>4. CASE SaveAccount(h)
    <2>1. m.day >= row.day
      BY <1>1, <1>2, <1>4 DEF SaveAccount, Aligned
    <2>2. row' = [m.backend EXCEPT !.id = TRUE, !.day = m.day]
      BY <1>1, <1>4 DEF SaveAccount, Saves
    <2> QED
      BY <1>2, <2>1, <2>2 DEF RowType
  <1>5. CASE SavePricing(h) \/ SaveAll(h)
    <2>1. m.backend.day >= row.day
      BY <1>1, <1>2, <1>5 DEF SavePricing, SaveAll, Aligned, Resting, RowType
    <2>2. row' = [m.backend EXCEPT !.day = CompletedAt(h)]
      BY <1>1, <1>5 DEF SavePricing, SaveAll, Saves
    <2>3. row'.day = CompletedAt(h)
      BY <1>2, <2>2 DEF RowType
    <2> QED
      BY <1>1, <1>2, <2>1, <2>3, CompletedAtIsSound DEF RowType
  <1> QED
    BY <1>3, <1>4, <1>5

LEMMA StepIsOwn ==
  ASSUME NEW g \in Handlers, Step(g)
  PROVE  /\ \E r : handler' = [handler EXCEPT ![g] = r]
         /\ \/ UNCHANGED row
            \/ SaveSession(g) \/ SaveAccount(g) \/ SavePricing(g) \/ SaveAll(g)
  <1>1. CASE SaveSession(g) \/ SaveAccount(g) \/ SavePricing(g) \/ SaveAll(g)
    BY <1>1 DEF SaveSession, SaveAccount, SavePricing, SaveAll, Saves, Becomes
  <1>2. CASE \/ Fail(g) \/ GetStatus(g) \/ GetSelf(g) \/ GetSelfWithoutData(g)
             \/ SelfNeedsLogin(g) \/ Login(g) \/ Reread(g)
    BY <1>2
    DEF Fail, GetStatus, GetSelf, GetSelfWithoutData, SelfNeedsLogin, Login,
        Reread, Outside, Goes, Becomes
  <1>3. CASE \/ PostCheckin(g) \/ CheckinAnswerLost(g) \/ CheckinNeedsLogin(g)
             \/ NoteCheckin(g) \/ Refresh(g) \/ GetPricing(g) \/ GetMe(g)
             \/ GetChannel(g)
    BY <1>3
    DEF PostCheckin, CheckinAnswerLost, CheckinTaken, CheckinNeedsLogin,
        NoteCheckin, Refresh, GetPricing, GetMe, GetChannel, Outside, Goes,
        Becomes
  <1> QED
    BY <1>1, <1>2, <1>3 DEF Step, Proceeds

\* A check-in once noted is not forgotten by a handler that runs alone.
THEOREM CheckinsStay == Spec => CheckinRemembered
  <1>1. ASSUME IInv, Next, NEW h \in Handlers, handler[h].alone, Active(h),
               handler'[h] # handler[h]
        PROVE  row'.day >= row.day
    <2>1. row.day \in 0 .. MaxDay
      BY <1>1 DEF IInv, TypeOK, RowType
    <2>2. CASE UNCHANGED row
      BY <2>1, <2>2
    <2>3. CASE \E g \in Handlers : Step(g)
      <3>1. PICK g \in Handlers : Step(g)
        BY <2>3
      <3>2. g = h
        BY <1>1, <3>1, StepIsOwn DEF IInv, TypeOK
      <3> QED
        BY <1>1, <2>2, <3>1, <3>2, StepIsOwn, WritesNoEarlierDay
    <2> QED
      BY <1>1, <2>2, <2>3
      DEF Next, Tick, SessionExpires, Begin, Outside
  <1>2. IInv /\ [Next]_vars =>
          [\A h \in Handlers :
             handler[h].alone /\ Active(h) /\ handler'[h] # handler[h] =>
               row'.day >= row.day]_vars
    BY <1>1
  <1> QED
    BY <1>2, Invariant, PTL DEF Spec, CheckinRemembered
=============================================================================
