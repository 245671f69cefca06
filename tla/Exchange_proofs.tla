--------------------------- MODULE Exchange_proofs ---------------------------
(***************************************************************************)
(* Proofs about Exchange: for event streams of any length, with any number *)
(* of parts, items, calls and usage reports.  The inductive invariant      *)
(* relates what the converter remembers of a stream to what it has said,   *)
(* and both to how far the upstream has come.                              *)
(***************************************************************************)
EXTENDS Exchange, Conversation_proofs, FiniteSetTheorems, TLAPS

\* Answers, and the finished item, may be anything.
UpType(u) ==
  u \in [item : BOOLEAN, items : Nat, part : Index \cup {NoPart},
         kind : {"text", "call", "other"}, next : Nat,
         deltas : 0 .. MaxDeltas, calls : Nat,
         said : {"nothing", "something", "all", "failure", "broken", "answer"},
         usage : Tokens, counted : BOOLEAN, text : [Index -> Seq(Nat)],
         answer : {u.answer}]

OutType(o) ==
  o \in [heads : Nat, starts : [Index -> Nat], stops : [Index -> Nat],
         reading : SUBSET Index, text : [Index -> Seq(Nat)], stray : BOOLEAN,
         ended : BOOLEAN, failed : BOOLEAN, final : {o.final},
         logged : Tokens, answer : {o.answer}]

Stages == {"preparing", "relayed", "calling", "converting", "delivered",
           "failed"}

Typed ==
  /\ stage \in Stages /\ head \in BOOLEAN
  /\ started \subseteq Index /\ open \subseteq Index
  /\ text \in [Index -> Seq(1 .. MaxDeltas)]
  /\ usage \in Usages \cup {NoUsage}
  /\ UpType(up) /\ OutType(out)

\* The parts the converter remembers are those it has told of.
Told ==
  /\ out.heads = IF head THEN 1 ELSE 0
  /\ \A i \in Index :
       /\ out.starts[i] = IF i \in started THEN 1 ELSE 0
       /\ out.stops[i] = IF i \in started \ open THEN 1 ELSE 0
  /\ open \subseteq started /\ out.reading = open
  /\ started # {} => head

\* The parts of the first item are numbered as they come.
Numbered ==
  /\ up.items = 0 => ~up.item /\ started = {}
  /\ up.part # NoPart => up.item /\ up.part < up.next
  /\ up.items <= 1 =>
       /\ \A i \in started : i < up.next
       /\ up.said \in {"nothing", "something"} => up.part \notin started \ open
  /\ out.stray => up.items > 1

\* What the converter has said of the end, and of the beginning.
Ended ==
  /\ up.said # "answer" =>
       /\ out.ended <=> up.said = "all"
       /\ out.failed <=> up.said = "failure"
  /\ out.ended => head /\ open = {}
  /\ up.said = "nothing" =>
       /\ ~head /\ usage = NoUsage /\ ~up.counted
       /\ out.logged = NoTokens /\ up.usage = NoTokens
  /\ stage \in {"preparing", "relayed", "calling"} => up.said = "nothing"
  /\ stage = "delivered" => up.said # "nothing"

AtMost(a, b) ==
  a.input <= b.input /\ a.cache <= b.cache /\ a.output <= b.output

\* The counts that are not yet logged are in the converter's state.
Counted ==
  /\ AtMost(Normalized(usage), up.usage)
  /\ up.said \in {"all", "answer"} \/ ~up.counted => out.logged = up.usage
  /\ up.counted => up.usage = Merged(out.logged, Normalized(usage))
  /\ ToMessages => usage = NoUsage /\ ~up.counted

IInv == Typed /\ Told /\ Numbered /\ Ended /\ Counted

USE BoundsAssumption, UsagesAssumption

-----------------------------------------------------------------------------
(* Token counts. *)

Larger(m, n) == IF n > m THEN n ELSE m

LEMMA MergedIs ==
  ASSUME NEW a \in Tokens, NEW b \in Tokens
  PROVE  /\ Merged(a, b) \in Tokens
         /\ Merged(a, b).input = Larger(a.input, b.input)
         /\ Merged(a, b).cache = Larger(a.cache, b.cache)
         /\ Merged(a, b).output = Larger(a.output, b.output)
  <1>1. Merged(a, b) = [input |-> Larger(a.input, b.input),
                        cache |-> Larger(a.cache, b.cache),
                        output |-> Larger(a.output, b.output)]
    BY DEF Merged, Larger, Tokens
  <1>2. \A m, n \in Nat : Larger(m, n) \in Nat
    BY DEF Larger
  <1> QED
    BY <1>1, <1>2 DEF Tokens

LEMMA SameTokens ==
  ASSUME NEW a \in Tokens, NEW b \in Tokens,
         a.input = b.input, a.cache = b.cache, a.output = b.output
  PROVE  a = b
  BY DEF Tokens

LEMMA MergedKnows ==
  ASSUME NEW a \in Tokens, NEW b \in Tokens
  PROVE  /\ AtMost(b, a) => Merged(a, b) = a
         /\ AtMost(a, Merged(a, b)) /\ AtMost(b, Merged(a, b))
  <1>1. /\ a.input \in Nat /\ a.cache \in Nat /\ a.output \in Nat
        /\ b.input \in Nat /\ b.cache \in Nat /\ b.output \in Nat
    BY DEF Tokens
  <1>2. AtMost(a, Merged(a, b)) /\ AtMost(b, Merged(a, b))
    BY <1>1, MergedIs DEF AtMost, Larger
  <1>3. ASSUME AtMost(b, a) PROVE Merged(a, b) = a
    <2>1. /\ Merged(a, b).input = a.input /\ Merged(a, b).cache = a.cache
          /\ Merged(a, b).output = a.output
      BY <1>1, <1>3, MergedIs DEF AtMost, Larger
    <2> QED
      BY <2>1, MergedIs, SameTokens
  <1> QED
    BY <1>2, <1>3

LEMMA MergedTwice ==
  ASSUME NEW a \in Tokens, NEW b \in Tokens
  PROVE  Merged(Merged(a, b), b) = Merged(a, b)
  BY MergedIs, MergedKnows

\* Counts known already do not hide later ones.
LEMMA MergedOver ==
  ASSUME NEW a \in Tokens, NEW b \in Tokens, NEW c \in Tokens, AtMost(b, a)
  PROVE  AtMost(b, Merged(a, c))
  <1>1. /\ a.input \in Nat /\ a.cache \in Nat /\ a.output \in Nat
        /\ b.input \in Nat /\ b.cache \in Nat /\ b.output \in Nat
        /\ c.input \in Nat /\ c.cache \in Nat /\ c.output \in Nat
    BY DEF Tokens
  <1> QED
    BY <1>1, MergedIs DEF AtMost, Larger

LEMMA NormalizedIs ==
  /\ \A r \in Usage : Normalized(r) \in Tokens
  /\ NoUsage \in Usage /\ Normalized(NoUsage) = NoTokens
  /\ NoTokens \in Tokens
  /\ \A a \in Tokens : AtMost(NoTokens, a) /\ Merged(a, NoTokens) = a
                      /\ Merged(NoTokens, a) = a
  <1>1. NoTokens \in Tokens /\ NoTokens.input = 0 /\ NoTokens.cache = 0
        /\ NoTokens.output = 0
    BY DEF NoTokens, Tokens
  <1>2. ASSUME NEW a \in Tokens
        PROVE  /\ AtMost(NoTokens, a) /\ Merged(a, NoTokens) = a
               /\ Merged(NoTokens, a) = a
    <2>1. a.input \in Nat /\ a.cache \in Nat /\ a.output \in Nat
      BY DEF Tokens
    <2>2. AtMost(NoTokens, a)
      BY <1>1, <2>1 DEF AtMost
    <2>3. /\ Merged(NoTokens, a).input = a.input
          /\ Merged(NoTokens, a).cache = a.cache
          /\ Merged(NoTokens, a).output = a.output
      BY <1>1, <2>1, MergedIs DEF Larger
    <2> QED
      BY <1>1, <2>2, <2>3, MergedIs, MergedKnows, SameTokens
  <1>3. \A r \in Usage : Normalized(r) \in Tokens
    BY DEF Usage, Normalized, Tokens
  <1>4. NoUsage \in Usage /\ Normalized(NoUsage) = NoTokens
    BY DEF NoUsage, Usage, Normalized, NoTokens
  <1> QED
    BY <1>1, <1>2, <1>3, <1>4

-----------------------------------------------------------------------------
(* What the converter appends. *)

LEMMA TellHeadIs ==
  ASSUME NEW o, OutType(o), NEW r \in Usage
  PROVE  LET e == EnsureHead(o, r)
         IN  /\ OutType(e)
             /\ e.heads = IF head THEN o.heads ELSE o.heads + 1
             /\ e.logged = IF head THEN o.logged
                           ELSE Merged(o.logged, Normalized(r))
             /\ e.starts = o.starts /\ e.stops = o.stops
             /\ e.reading = o.reading /\ e.text = o.text /\ e.stray = o.stray
             /\ e.ended = o.ended /\ e.failed = o.failed
  <1>1. CASE head
    BY <1>1 DEF EnsureHead
  <1>2. CASE ~head
    <2>1. PICK n \in Nat, l \in Tokens :
            n = o.heads + 1 /\ l = Merged(o.logged, Normalized(r))
      BY NormalizedIs, MergedIs DEF OutType
    <2>2. EnsureHead(o, r) = [o EXCEPT !.heads = n, !.logged = l]
      BY <1>2, <2>1 DEF EnsureHead, TellHead, Log, OutType
    <2> QED
      BY <1>2, <2>1, <2>2 DEF OutType
  <1> QED
    BY <1>1, <1>2

LEMMA TellPartIs ==
  ASSUME NEW o, OutType(o), NEW i \in Index
  PROVE  LET e == EnsurePart(o, i)
         IN  /\ OutType(e)
             /\ \A j \in Index :
                  e.starts[j] = IF j = i /\ i \notin started
                                THEN o.starts[j] + 1 ELSE o.starts[j]
             /\ e.reading = o.reading \cup ({i} \ started)
             /\ e.heads = o.heads /\ e.logged = o.logged /\ e.stops = o.stops
             /\ e.text = o.text /\ e.stray = o.stray
             /\ e.ended = o.ended /\ e.failed = o.failed
  <1>1. CASE i \in started
    BY <1>1 DEF EnsurePart, OutType
  <1>2. CASE i \notin started
    <2>1. PICK s, R : s = [o.starts EXCEPT ![i] = @ + 1] /\ R = o.reading \cup {i}
      OBVIOUS
    <2>2. o.starts \in [Index -> Nat] /\ o.reading \subseteq Index
      BY DEF OutType
    <2>3. s \in [Index -> Nat] /\ R \in SUBSET Index
      BY <2>1, <2>2
    <2>4. \A j \in Index : s[j] = IF j = i THEN o.starts[j] + 1 ELSE o.starts[j]
      BY <2>1, <2>2
    <2>5. EnsurePart(o, i) = [o EXCEPT !.starts = s, !.reading = R]
      BY <1>2, <2>1 DEF EnsurePart, TellStart, OutType
    <2>6. R = o.reading \cup ({i} \ started)
      BY <1>2, <2>1
    <2> QED
      BY <1>2, <2>3, <2>4, <2>5, <2>6 DEF OutType
  <1> QED
    BY <1>1, <1>2

LEMMA TellDeltaIs ==
  ASSUME NEW o, OutType(o), NEW i \in Index, NEW d \in Nat
  PROVE  LET e == TellDelta(o, i, d)
         IN  /\ OutType(e)
             /\ e.stray = (o.stray \/ i \notin o.reading)
             /\ e.heads = o.heads /\ e.logged = o.logged
             /\ e.starts = o.starts /\ e.stops = o.stops
             /\ e.reading = o.reading
             /\ e.ended = o.ended /\ e.failed = o.failed
  <1>1. PICK t \in [Index -> Seq(Nat)] : t = [o.text EXCEPT ![i] = Append(@, d)]
    <2>1. o.text \in [Index -> Seq(Nat)]
      BY DEF OutType
    <2>2. Append(o.text[i], d) \in Seq(Nat)
      BY <2>1
    <2>3. [o.text EXCEPT ![i] = Append(@, d)] \in [Index -> Seq(Nat)]
      BY <2>1, <2>2
    <2> QED
      BY <2>3
  <1>2. PICK b \in BOOLEAN : b = (o.stray \/ i \notin o.reading)
    OBVIOUS
  <1>3. TellDelta(o, i, d) = [o EXCEPT !.text = t, !.stray = b]
    BY <1>1, <1>2 DEF TellDelta, OutType
  <1> QED
    BY <1>1, <1>2, <1>3 DEF OutType

LEMMA TellStopsIs ==
  ASSUME NEW o, OutType(o), NEW parts \in SUBSET Index
  PROVE  LET e == TellStops(o, parts)
         IN  /\ OutType(e)
             /\ \A j \in Index :
                  e.stops[j] = IF j \in parts THEN o.stops[j] + 1 ELSE o.stops[j]
             /\ e.reading = o.reading \ parts
             /\ e.heads = o.heads /\ e.logged = o.logged
             /\ e.starts = o.starts /\ e.text = o.text /\ e.stray = o.stray
             /\ e.ended = o.ended /\ e.failed = o.failed
  <1>1. PICK s, R :
          /\ s = [j \in Index |-> o.stops[j] + IF j \in parts THEN 1 ELSE 0]
          /\ R = o.reading \ parts
    OBVIOUS
  <1>2. o.stops \in [Index -> Nat] /\ o.reading \subseteq Index
    BY DEF OutType
  <1>3. s \in [Index -> Nat] /\ R \in SUBSET Index
    BY <1>1, <1>2
  <1>4. \A j \in Index :
          s[j] = IF j \in parts THEN o.stops[j] + 1 ELSE o.stops[j]
    BY <1>1, <1>2
  <1>5. TellStops(o, parts) = [o EXCEPT !.stops = s, !.reading = R]
    BY <1>1 DEF TellStops, OutType
  <1> QED
    BY <1>1, <1>3, <1>4, <1>5 DEF OutType

LEMMA TellEndIs ==
  ASSUME NEW o, OutType(o), NEW r \in Usage, NEW final
  PROVE  LET e == TellEnd(o, r, final)
         IN  /\ OutType(e) /\ e.ended /\ e.final = final
             /\ e.logged = Merged(o.logged, Normalized(r))
             /\ e.heads = o.heads /\ e.starts = o.starts /\ e.stops = o.stops
             /\ e.reading = o.reading /\ e.text = o.text /\ e.stray = o.stray
             /\ e.failed = o.failed
  <1>1. PICK l \in Tokens : l = Merged(o.logged, Normalized(r))
    BY NormalizedIs, MergedIs DEF OutType
  <1>2. TellEnd(o, r, final) =
          [o EXCEPT !.ended = TRUE, !.final = final, !.logged = l]
    BY <1>1 DEF TellEnd, Log, OutType
  <1> QED
    BY <1>1, <1>2 DEF OutType

-----------------------------------------------------------------------------
(* The first state and the steps that convert nothing. *)

LEMMA Starts == Init => IInv
  <1> SUFFICES ASSUME Init PROVE IInv
    OBVIOUS
  <1>1. /\ stage = "preparing" /\ head = FALSE /\ started = {} /\ open = {}
        /\ text = NoText /\ usage = NoUsage
        /\ up = [item |-> ~ToMessages, items |-> IF ToMessages THEN 0 ELSE 1,
                 part |-> NoPart, kind |-> "text", next |-> 0, deltas |-> 0,
                 calls |-> 0, said |-> "nothing", usage |-> NoTokens,
                 counted |-> FALSE, text |-> NoText, answer |-> <<>>]
        /\ out = [heads |-> 0, starts |-> [i \in Index |-> 0],
                  stops |-> [i \in Index |-> 0], reading |-> {},
                  text |-> NoText, stray |-> FALSE, ended |-> FALSE,
                  failed |-> FALSE, final |-> <<>>, logged |-> NoTokens,
                  answer |-> <<>>]
    BY DEF Init
  <1>2. NoText \in [Index -> Seq(Nat)] /\ NoText \in [Index -> Seq(1 .. MaxDeltas)]
    BY DEF NoText
  <1>3. PICK item, items :
          item = ~ToMessages /\ items = IF ToMessages THEN 0 ELSE 1
    OBVIOUS
  <1>4. items \in Nat /\ item \in BOOLEAN /\ (items = 0 => ~item)
    <2>1. CASE ToMessages
      BY <1>3, <2>1
    <2>2. CASE ~ToMessages
      BY <1>3, <2>2
    <2> QED
      BY <2>1, <2>2
  <1>5. UpType(up) /\ up.item = item /\ up.items = items
    <2>1. up = [item |-> item, items |-> items, part |-> NoPart,
                kind |-> "text", next |-> 0, deltas |-> 0,
                calls |-> 0, said |-> "nothing", usage |-> NoTokens,
                counted |-> FALSE, text |-> NoText, answer |-> <<>>]
      BY <1>1, <1>3
    <2> QED
      BY <1>2, <1>4, <2>1, NormalizedIs DEF UpType
  <1>6. OutType(out)
    BY <1>1, <1>2, NormalizedIs DEF OutType
  <1>7. Typed
    BY <1>1, <1>2, <1>5, <1>6 DEF Typed, Stages
  <1>8. Told
    BY <1>1 DEF Told
  <1>9. Numbered
    BY <1>1, <1>4, <1>5 DEF Numbered
  <1>10. Ended
    BY <1>1 DEF Ended
  <1>11. Counted
    BY <1>1, NormalizedIs DEF Counted
  <1> QED
    BY <1>7, <1>8, <1>9, <1>10, <1>11 DEF IInv

LEMMA StageKeeps ==
  ASSUME IInv, PrepareExchange \/ AdaptFails \/ AdaptStream \/ Deliver
  PROVE  IInv'
  <1> USE DEF IInv
  <1>1. UNCHANGED <<call, up, head, started, open, text, usage, out>>
    BY DEF PrepareExchange, AdaptFails, AdaptStream, Deliver, converter
  <1>2. Typed'
    BY <1>1
    DEF PrepareExchange, AdaptFails, AdaptStream, Deliver, Typed, Stages,
        UpType, OutType
  <1>3. Told' /\ Numbered'
    BY <1>1 DEF Told, Numbered
  <1>4. Ended'
    BY <1>1
    DEF PrepareExchange, AdaptFails, AdaptStream, Deliver, Streams, Ended,
        Typed, UpType
  <1>5. Counted'
    BY <1>1 DEF Counted, Normalized, ToMessages
  <1> QED
    BY <1>2, <1>3, <1>4, <1>5

\* One JSON answer: its counts are the upstream's.
LEMMA AdaptJSONKeeps == IInv /\ AdaptJSON => IInv'
  <1> SUFFICES ASSUME IInv, AdaptJSON PROVE IInv'
    OBVIOUS
  <1> USE DEF IInv
  <1>1. PICK answer, reported, mine :
          /\ reported \in Usages
          /\ up' = [up EXCEPT !.answer = answer, !.said = "answer",
                              !.usage = Normalized(reported)]
          /\ out' = Log([out EXCEPT !.answer = mine], reported)
    <2>1. PICK answer \in Answers[Endpoint(sent.path)], reported \in Usages :
            /\ up' = [up EXCEPT !.answer = answer, !.said = "answer",
                                !.usage = Normalized(reported)]
            /\ out' = Log([out EXCEPT !.answer =
                             IF ToMessages THEN MessagesAnswer(answer)
                             ELSE ResponsesAnswer(answer)], reported)
      BY DEF AdaptJSON
    <2>2. PICK mine : mine = IF ToMessages THEN MessagesAnswer(answer)
                             ELSE ResponsesAnswer(answer)
      OBVIOUS
    <2> QED
      BY <2>1, <2>2
  <1>2. /\ UNCHANGED <<call, head, started, open, text, usage>>
        /\ stage = "calling" /\ stage' = "delivered"
    BY DEF AdaptJSON
  <1>3. /\ up.said = "nothing" /\ ~head /\ out.logged = NoTokens
        /\ up.usage = NoTokens /\ ~up.counted /\ usage = NoUsage
    BY <1>2 DEF Ended
  <1>4. PICK n \in Tokens : n = Normalized(reported)
    BY <1>1, NormalizedIs
  <1>5. Merged(NoTokens, n) = n
    BY NormalizedIs
  <1>6. /\ OutType(out') /\ out'.logged = n
        /\ out'.heads = out.heads /\ out'.starts = out.starts
        /\ out'.stops = out.stops /\ out'.reading = out.reading
        /\ out'.stray = out.stray /\ out'.ended = out.ended
        /\ out'.failed = out.failed
    <2>1. out' = [out EXCEPT !.answer = mine, !.logged = n]
      BY <1>1, <1>3, <1>4, <1>5 DEF Log, Typed, OutType
    <2> QED
      BY <2>1 DEF Typed, OutType
  <1>7. /\ UpType(up') /\ up'.said = "answer" /\ up'.usage = n
        /\ up'.item = up.item /\ up'.items = up.items /\ up'.part = up.part
        /\ up'.next = up.next /\ up'.counted = up.counted
    <2>1. up' = [up EXCEPT !.answer = answer, !.said = "answer", !.usage = n]
      BY <1>1, <1>4
    <2> QED
      BY <2>1 DEF Typed, UpType
  <1>8. Typed'
    BY <1>2, <1>6, <1>7 DEF Typed, Stages
  <1>9. Told' /\ Numbered'
    BY <1>2, <1>6, <1>7 DEF Told, Numbered
  <1>10. Ended'
    BY <1>2, <1>3, <1>6, <1>7 DEF Ended
  <1>11. Counted'
    <2>1. usage = NoUsage
      BY <1>3
    <2>2. Normalized(usage)' = NoTokens
      BY <1>2, <2>1, NormalizedIs DEF Normalized, ToMessages
    <2>3. AtMost(Normalized(usage)', n)
      BY <2>2, NormalizedIs
    <2> QED
      BY <1>2, <1>3, <1>6, <1>7, <2>1, <2>3 DEF Counted, ToMessages
  <1> QED
    BY <1>8, <1>9, <1>10, <1>11

-----------------------------------------------------------------------------
(* Events that convert to nothing. *)

LEMMA StreamingIs ==
  ASSUME IInv, Streams
  PROVE  /\ stage = "converting" /\ up.said \in {"nothing", "something"}
         /\ UpType(up) /\ OutType(out) /\ ~out.ended /\ ~out.failed
         /\ usage \in Usage
  <1>1. UpType(up) /\ OutType(out) /\ usage \in Usage
    BY NormalizedIs DEF IInv, Typed
  <1> QED
    BY <1>1 DEF IInv, Streams, Ended, OutType

\* The converter does not change, and the upstream's counts do not.
Quiet ==
  /\ UNCHANGED <<call, stage, head, started, open, text, usage, out>>
  /\ UpType(up') /\ up'.usage = up.usage /\ up'.counted = up.counted

LEMMA QuietKeeps ==
  ASSUME IInv, Streams, Quiet, Numbered', up'.said \in {"something", "broken"}
  PROVE  IInv'
  <1>1. Typed'
    BY DEF IInv, Quiet, Typed, OutType
  <1>2. Told'
    BY DEF IInv, Quiet, Told
  <1>3. Ended'
    BY StreamingIs DEF IInv, Quiet, Ended
  <1>4. Counted'
    <2>1. up.said # "all"
      BY StreamingIs
    <2> QED
      BY <2>1 DEF IInv, Quiet, Counted, Normalized, ToMessages
  <1> QED
    BY <1>1, <1>2, <1>3, <1>4 DEF IInv

LEMMA StreamStopsKeeps ==
  ASSUME IInv, StreamStops \/ ItemStops \/ ItemCalls
  PROVE  IInv'
  <1>1. /\ Streams /\ UNCHANGED <<call, stage, head, started, open, text, usage, out>>
    BY DEF StreamStops, ItemStops, ItemCalls, converter, Unanswered
  <1>2. PICK u : u = up
    OBVIOUS
  <1>3. UpType(u)
    BY <1>1, <1>2, StreamingIs
  <1>4. \/ up' = [u EXCEPT !.said = "broken"]
        \/ u.part = NoPart /\ up' = [u EXCEPT !.said = "something", !.item = FALSE]
        \/ up' = [u EXCEPT !.said = "something", !.calls = @ + 1]
    BY <1>2, <1>3 DEF StreamStops, ItemStops, ItemCalls, Upstream, UpType
  <1>5. /\ UpType(up') /\ up'.said \in {"something", "broken"}
        /\ up'.usage = u.usage /\ up'.counted = u.counted
        /\ up'.items = u.items /\ up'.part = u.part /\ up'.next = u.next
        /\ up'.item = u.item \/ (~up'.item /\ u.part = NoPart)
    <2>1. CASE up' = [u EXCEPT !.said = "broken"]
      BY <1>3, <2>1 DEF UpType
    <2>2. CASE u.part = NoPart /\ up' = [u EXCEPT !.said = "something", !.item = FALSE]
      BY <1>3, <2>2 DEF UpType
    <2>3. CASE up' = [u EXCEPT !.said = "something", !.calls = @ + 1]
      <3>1. PICK n \in Nat : n = u.calls + 1
        BY <1>3 DEF UpType
      <3>2. up' = [u EXCEPT !.said = "something", !.calls = n]
        BY <2>3, <3>1
      <3> QED
        BY <1>3, <3>1, <3>2 DEF UpType
    <2> QED
      BY <1>4, <2>1, <2>2, <2>3
  <1>6. Numbered'
    BY <1>1, <1>2, <1>3, <1>5, StreamingIs DEF IInv, Numbered, UpType
  <1>7. Quiet
    BY <1>1, <1>2, <1>5 DEF Quiet
  <1> QED
    BY <1>1, <1>5, <1>6, <1>7, QuietKeeps

\* The parts of a second item are numbered from 0 again.
LEMMA ItemStartsKeeps == IInv /\ ItemStarts => IInv'
  <1> SUFFICES ASSUME IInv, ItemStarts PROVE IInv'
    OBVIOUS
  <1>1. /\ Streams /\ UNCHANGED <<call, stage, head, started, open, text, usage, out>>
        /\ ~up.item
    BY DEF ItemStarts, converter, Unanswered
  <1>2. PICK u, n : u = up /\ n = up.items + 1
    OBVIOUS
  <1>3. UpType(u) /\ n \in Nat /\ n = u.items + 1 /\ u.items \in Nat
    BY <1>1, <1>2, StreamingIs DEF UpType
  <1>4. up' = [u EXCEPT !.item = TRUE, !.items = n, !.next = 0,
                        !.said = "something"]
    BY <1>2, <1>3 DEF ItemStarts, Upstream, UpType
  <1>5. /\ UpType(up') /\ up'.said = "something"
        /\ up'.usage = u.usage /\ up'.counted = u.counted
        /\ up'.items = n /\ up'.part = u.part /\ up'.next = 0 /\ up'.item
    BY <1>3, <1>4 DEF UpType
  <1>6. Numbered'
    <2>1. u.part = NoPart
      BY <1>1, <1>2 DEF IInv, Numbered
    <2>2. NoPart \notin started
      BY DEF IInv, Typed, Index, NoPart
    <2>3. n <= 1 => started = {}
      BY <1>2, <1>3 DEF IInv, Numbered
    <2>4. out.stray => n > 1
      BY <1>2, <1>3 DEF IInv, Numbered
    <2> QED
      BY <1>1, <1>3, <1>5, <2>1, <2>2, <2>3, <2>4 DEF Numbered
  <1>7. Quiet
    BY <1>1, <1>2, <1>5 DEF Quiet
  <1> QED
    BY <1>1, <1>5, <1>6, <1>7, QuietKeeps

LEMMA StreamFailsKeeps == IInv /\ StreamFails => IInv'
  <1> SUFFICES ASSUME IInv, StreamFails PROVE IInv'
    OBVIOUS
  <1>1. /\ Streams /\ UNCHANGED <<call, stage, head, started, open, text, usage>>
        /\ up' = [up EXCEPT !.said = "failure"]
        /\ out' = [out EXCEPT !.failed = TRUE]
    BY DEF StreamFails, Unanswered
  <1>2. /\ UpType(up') /\ up'.said = "failure"
        /\ up'.usage = up.usage /\ up'.counted = up.counted
        /\ up'.items = up.items /\ up'.part = up.part /\ up'.next = up.next
        /\ up'.item = up.item
    BY <1>1, StreamingIs DEF UpType
  <1>3. /\ OutType(out') /\ out'.failed
        /\ out'.heads = out.heads /\ out'.starts = out.starts
        /\ out'.stops = out.stops /\ out'.reading = out.reading
        /\ out'.stray = out.stray /\ out'.ended = out.ended
        /\ out'.logged = out.logged
    BY <1>1, StreamingIs DEF OutType
  <1>4. Typed'
    BY <1>1, <1>2, <1>3 DEF IInv, Typed
  <1>5. Told' /\ Numbered'
    BY <1>1, <1>2, <1>3, StreamingIs DEF IInv, Told, Numbered
  <1>6. Ended'
    BY <1>1, <1>2, <1>3, StreamingIs DEF IInv, Ended
  <1>7. Counted'
    BY <1>1, <1>2, <1>3, StreamingIs DEF IInv, Counted, Normalized, ToMessages
  <1> QED
    BY <1>4, <1>5, <1>6, <1>7 DEF IInv

-----------------------------------------------------------------------------
(* Events of parts. *)

\* The first event may be missing: what the converter says in its place
\* counts what it knows.
LEMMA HeadCounts ==
  ASSUME IInv, Streams, UNCHANGED <<call, usage>>,
         up'.usage = up.usage, up'.counted = up.counted, up'.said = "something",
         out'.logged = IF head THEN out.logged
                       ELSE Merged(out.logged, Normalized(usage))
  PROVE  Counted'
  <1>1. PICK n \in Tokens : n = Normalized(usage)
    BY StreamingIs, NormalizedIs
  <1>2. Normalized(usage)' = n
    BY <1>1 DEF Normalized, ToMessages
  <1>3. /\ AtMost(n, up.usage) /\ (~up.counted => out.logged = up.usage)
        /\ (up.counted => up.usage = Merged(out.logged, n))
        /\ up.usage \in Tokens /\ out.logged \in Tokens
        /\ (ToMessages => usage = NoUsage /\ ~up.counted)
    BY <1>1, StreamingIs DEF IInv, Counted, UpType, OutType
  <1>4. ~up.counted => out'.logged = up.usage
    BY <1>1, <1>3, MergedKnows
  <1>5. up.counted => up.usage = Merged(out'.logged, n)
    BY <1>1, <1>3, MergedTwice
  <1> QED
    BY <1>2, <1>3, <1>4, <1>5 DEF Counted, ToMessages

\* The start of a part, when it has not been told of.
LEMMA PartIsTold ==
  ASSUME IInv, Streams, NEW i \in Index
  PROVE  LET e == EnsurePart(EnsureHead(out, usage), i)
         IN  /\ OutType(e) /\ e.heads = 1
             /\ \A j \in Index :
                  /\ e.starts[j] = IF j \in started \cup {i} THEN 1 ELSE 0
                  /\ e.stops[j] = IF j \in started \ open THEN 1 ELSE 0
             /\ e.reading = open \cup ({i} \ started)
             /\ e.text = out.text /\ e.stray = out.stray
             /\ ~e.ended /\ ~e.failed
             /\ e.logged = IF head THEN out.logged
                           ELSE Merged(out.logged, Normalized(usage))
  <1>1. PICK o : o = EnsureHead(out, usage)
    OBVIOUS
  <1>2. /\ OutType(o)
        /\ o.heads = IF head THEN out.heads ELSE out.heads + 1
        /\ o.logged = IF head THEN out.logged
                      ELSE Merged(out.logged, Normalized(usage))
        /\ o.starts = out.starts /\ o.stops = out.stops
        /\ o.reading = out.reading /\ o.stray = out.stray
        /\ o.text = out.text /\ o.ended = out.ended /\ o.failed = out.failed
    BY <1>1, StreamingIs, TellHeadIs
  <1>3. o.heads = 1
    BY <1>2 DEF IInv, Told, Typed
  <1>4. PICK e : e = EnsurePart(o, i)
    OBVIOUS
  <1>5. /\ OutType(e)
        /\ \A j \in Index :
             e.starts[j] = IF j = i /\ i \notin started
                           THEN o.starts[j] + 1 ELSE o.starts[j]
        /\ e.reading = o.reading \cup ({i} \ started)
        /\ e.heads = o.heads /\ e.logged = o.logged /\ e.stops = o.stops
        /\ e.text = o.text /\ e.stray = o.stray
        /\ e.ended = o.ended /\ e.failed = o.failed
    BY <1>2, <1>4, TellPartIs
  <1>6. \A j \in Index :
          /\ e.starts[j] = IF j \in started \cup {i} THEN 1 ELSE 0
          /\ e.stops[j] = IF j \in started \ open THEN 1 ELSE 0
    BY <1>2, <1>5 DEF IInv, Told
  <1>7. e.reading = open \cup ({i} \ started)
    BY <1>2, <1>5 DEF IInv, Told
  <1> QED
    BY <1>1, <1>2, <1>3, <1>4, <1>5, <1>6, <1>7, StreamingIs

\* What PartStarts and TextDelta have in common.
LEMMA PartToldKeeps ==
  ASSUME IInv, Streams, NEW i \in Index, HeadAndPart(i),
         UNCHANGED <<call, stage, usage>>,
         text' \in [Index -> Seq(1 .. MaxDeltas)],
         UpType(up'), up'.said = "something",
         up'.usage = up.usage, up'.counted = up.counted,
         OutType(out'), Numbered',
         LET e == EnsurePart(EnsureHead(out, usage), i)
         IN  /\ out'.heads = e.heads /\ out'.starts = e.starts
             /\ out'.stops = e.stops /\ out'.reading = e.reading
             /\ out'.ended = e.ended /\ out'.failed = e.failed
             /\ out'.logged = e.logged
  PROVE  IInv'
  <1>1. /\ head' = TRUE /\ started' = started \cup {i}
        /\ open' = open \cup ({i} \ started)
    BY DEF HeadAndPart
  <1>2. /\ out'.heads = 1
        /\ \A j \in Index :
             /\ out'.starts[j] = IF j \in started \cup {i} THEN 1 ELSE 0
             /\ out'.stops[j] = IF j \in started \ open THEN 1 ELSE 0
        /\ out'.reading = open \cup ({i} \ started)
        /\ ~out'.ended /\ ~out'.failed
        /\ out'.logged = IF head THEN out.logged
                         ELSE Merged(out.logged, Normalized(usage))
    BY PartIsTold
  <1>3. Typed'
    BY <1>1 DEF IInv, Typed
  <1>4. Told'
    <2>1. open \subseteq started
      BY DEF IInv, Told
    <2>2. \A j : j \in started' \ open' <=> j \in started \ open
      BY <1>1, <2>1
    <2> QED
      BY <1>1, <1>2, <2>1, <2>2 DEF Told
  <1>5. Ended'
    BY <1>1, <1>2, StreamingIs DEF Ended
  <1>6. Counted'
    BY <1>2, HeadCounts
  <1> QED
    BY <1>3, <1>4, <1>5, <1>6 DEF IInv

LEMMA StreamBeginsKeeps ==
  ASSUME IInv, NEW r \in Usages, StreamBegins(r)
  PROVE  IInv'
  <1>1. /\ Streams /\ UNCHANGED <<call, stage, started, open, text>>
        /\ up.said = "nothing" /\ head' = TRUE
        /\ usage' = IF ToMessages THEN usage ELSE r
        /\ out' = EnsureHead(out, r)
    BY DEF StreamBegins, Unanswered
  <1>2. /\ ~head /\ usage = NoUsage /\ ~up.counted
        /\ out.logged = NoTokens /\ up.usage = NoTokens
    BY <1>1 DEF IInv, Ended
  <1>3. PICK n \in Tokens : n = Normalized(r)
    BY NormalizedIs
  <1>4. /\ UpType(up') /\ up'.said = "something" /\ up'.usage = n
        /\ up'.items = up.items /\ up'.part = up.part /\ up'.next = up.next
        /\ up'.item = up.item /\ up'.counted = up.counted
    <2>1. Merged(up.usage, Normalized(r)) = n
      BY <1>2, <1>3, NormalizedIs
    <2>2. up' = [up EXCEPT !.usage = n, !.said = "something"]
      BY <1>1, <2>1, StreamingIs DEF StreamBegins, Upstream, UpType
    <2> QED
      BY <1>1, <2>2, StreamingIs DEF UpType
  <1>5. /\ OutType(out') /\ out'.heads = out.heads + 1 /\ out'.logged = n
        /\ out'.starts = out.starts /\ out'.stops = out.stops
        /\ out'.reading = out.reading /\ out'.stray = out.stray
        /\ ~out'.ended /\ ~out'.failed
    BY <1>1, <1>2, <1>3, StreamingIs, TellHeadIs, NormalizedIs
  <1>6. Typed'
    BY <1>1, <1>2, <1>4, <1>5 DEF IInv, Typed
  <1>7. Told'
    BY <1>1, <1>2, <1>5 DEF IInv, Told
  <1>8. Numbered'
    BY <1>1, <1>4, <1>5 DEF IInv, Numbered
  <1>9. Ended'
    BY <1>1, <1>4, <1>5, StreamingIs DEF IInv, Ended
  <1>10. Counted'
    <2>1. CASE ToMessages
      <3>1. Normalized(usage)' = NoTokens
        BY <1>1, <1>2, <2>1, NormalizedIs DEF Normalized, ToMessages
      <3> QED
        BY <1>1, <1>2, <1>4, <1>5, <2>1, <3>1, NormalizedIs
        DEF Counted, ToMessages
    <2>2. CASE ~ToMessages
      <3>1. Normalized(usage)' = n
        BY <1>1, <1>3, <2>2 DEF Normalized, ToMessages
      <3>2. AtMost(n, n)
        BY MergedKnows, NormalizedIs
      <3> QED
        BY <1>1, <1>2, <1>4, <1>5, <2>2, <3>1, <3>2 DEF Counted, ToMessages
    <2> QED
      BY <2>1, <2>2
  <1> QED
    BY <1>6, <1>7, <1>8, <1>9, <1>10 DEF IInv

LEMMA PartStartsKeeps ==
  ASSUME IInv, NEW i \in Index, NEW kind \in {"text", "call", "other"},
         PartStarts(i, kind)
  PROVE  IInv'
  <1>1. /\ Streams /\ UNCHANGED <<call, stage, text, usage>>
        /\ up.item /\ up.part = NoPart /\ up.next = i
    BY DEF PartStarts, Unanswered
  <1>2. PICK next, calls :
          next = i + 1 /\ calls = IF kind = "call" THEN up.calls + 1 ELSE up.calls
    OBVIOUS
  <1>3. /\ next \in Nat /\ calls \in Nat /\ i < next
        /\ \A j \in Index : j < i => j < next
    BY <1>1, <1>2, StreamingIs DEF UpType, Index
  <1>4. up' = [up EXCEPT !.part = i, !.kind = kind, !.next = next,
                         !.calls = calls, !.said = "something"]
    BY <1>1, <1>2, StreamingIs DEF PartStarts, Upstream, UpType
  <1>5. /\ UpType(up') /\ up'.said = "something"
        /\ up'.usage = up.usage /\ up'.counted = up.counted
        /\ up'.items = up.items /\ up'.part = i /\ up'.next = next /\ up'.item
    BY <1>1, <1>3, <1>4, StreamingIs DEF UpType
  <1>6. /\ up.items # 0
        /\ up.items <= 1 => i \notin started /\ \A j \in started : j < next
    <2>1. \A j \in started : j \in Index /\ (j < up.next => j < next)
      BY <1>1, <1>3 DEF IInv, Typed
    <2>2. ~(i < i)
      BY DEF Index
    <2> QED
      BY <1>1, <2>1, <2>2 DEF IInv, Numbered
  <1>7. CASE kind = "text"
    <2>1. HeadAndPart(i) /\ out' = EnsurePart(EnsureHead(out, usage), i)
      BY <1>7 DEF PartStarts
    <2>2. OutType(out') /\ out'.stray = out.stray
      BY <1>1, <2>1, PartIsTold
    <2>3. Numbered'
      BY <1>1, <1>3, <1>5, <1>6, <2>1, <2>2
      DEF IInv, Numbered, HeadAndPart
    <2>4. text' \in [Index -> Seq(1 .. MaxDeltas)]
      BY <1>1 DEF IInv, Typed
    <2> QED
      BY <1>1, <1>5, <2>1, <2>2, <2>3, <2>4, PartToldKeeps
  <1>8. CASE kind # "text"
    <2>1. UNCHANGED <<out, head, started, open>>
      BY <1>8 DEF PartStarts
    <2>2. Numbered'
      BY <1>1, <1>3, <1>5, <1>6, <2>1 DEF IInv, Numbered
    <2>3. Quiet
      BY <1>1, <1>5, <2>1 DEF Quiet
    <2> QED
      BY <1>1, <1>5, <2>2, <2>3, QuietKeeps
  <1> QED
    BY <1>7, <1>8

LEMMA TextDeltaKeeps == IInv /\ TextDelta => IInv'
  <1> SUFFICES ASSUME IInv, TextDelta PROVE IInv'
    OBVIOUS
  <1>1. /\ Streams /\ UNCHANGED <<call, stage, usage>>
        /\ up.part # NoPart /\ up.deltas < MaxDeltas
    BY DEF TextDelta, Unanswered
  <1>2. PICK i, d : i = up.part /\ d = up.deltas + 1
    OBVIOUS
  <1>3. i \in Index /\ d \in 1 .. MaxDeltas /\ d \in Nat
    BY <1>1, <1>2, StreamingIs DEF UpType
  <1>4. /\ HeadAndPart(i) /\ text' = [text EXCEPT ![i] = Append(@, d)]
        /\ out' = TellDelta(EnsurePart(EnsureHead(out, usage), i), i, d)
    BY <1>2 DEF TextDelta
  <1>5. text' \in [Index -> Seq(1 .. MaxDeltas)]
    <2>1. text \in [Index -> Seq(1 .. MaxDeltas)]
      BY DEF IInv, Typed
    <2>2. Append(text[i], d) \in Seq(1 .. MaxDeltas)
      BY <1>3, <2>1
    <2> QED
      BY <1>4, <2>1, <2>2
  <1>6. /\ UpType(up') /\ up'.said = "something"
        /\ up'.usage = up.usage /\ up'.counted = up.counted
        /\ up'.items = up.items /\ up'.part = i /\ up'.next = up.next
        /\ up'.item = up.item
    <2>1. up.text \in [Index -> Seq(Nat)]
      BY <1>1, StreamingIs DEF UpType
    <2>2. Append(up.text[i], d) \in Seq(Nat)
      BY <1>3, <2>1
    <2>3. PICK t \in [Index -> Seq(Nat)] :
            t = [up.text EXCEPT ![i] = Append(@, d)]
      BY <2>1, <2>2
    <2>4. up' = [up EXCEPT !.deltas = d, !.text = t, !.said = "something"]
      BY <1>1, <1>2, <2>3, StreamingIs DEF TextDelta, Upstream, UpType
    <2>5. d \in 0 .. MaxDeltas
      BY <1>3
    <2> QED
      BY <1>1, <1>2, <2>4, <2>5, StreamingIs DEF UpType
  <1>7. PICK e : e = EnsurePart(EnsureHead(out, usage), i)
    OBVIOUS
  <1>8. /\ OutType(e) /\ e.stray = out.stray
        /\ e.reading = open \cup ({i} \ started)
    BY <1>1, <1>3, <1>7, PartIsTold
  <1>9. /\ OutType(out') /\ out'.stray = (e.stray \/ i \notin e.reading)
        /\ out'.heads = e.heads /\ out'.starts = e.starts
        /\ out'.stops = e.stops /\ out'.reading = e.reading
        /\ out'.ended = e.ended /\ out'.failed = e.failed
        /\ out'.logged = e.logged
    BY <1>3, <1>4, <1>7, <1>8, TellDeltaIs
  <1>10. Numbered'
    <2>1. up.item /\ up.items # 0 /\ i < up.next
      BY <1>1, <1>2 DEF IInv, Numbered
    <2>2. up.items <= 1 => i \notin started \ open
      BY <1>1, <1>2, StreamingIs DEF IInv, Numbered
    <2>3. out'.stray => up.items > 1
      <3>1. up.items \in Nat
        BY <1>1, StreamingIs DEF UpType
      <3>2. CASE out.stray
        BY <3>2 DEF IInv, Numbered
      <3>3. CASE i \notin e.reading
        <4>1. i \in started \ open
          BY <1>8, <3>3
        <4> QED
          BY <2>2, <3>1, <4>1
      <3> QED
        BY <1>8, <1>9, <3>2, <3>3
    <2>4. /\ started' = started \cup {i} /\ open' = open \cup ({i} \ started)
      BY <1>4 DEF HeadAndPart
    <2> QED
      BY <1>6, <2>1, <2>2, <2>3, <2>4 DEF IInv, Numbered
  <1> QED
    BY <1>1, <1>3, <1>4, <1>5, <1>6, <1>7, <1>9, <1>10, PartToldKeeps

LEMMA PartStopsKeeps == IInv /\ PartStops => IInv'
  <1> SUFFICES ASSUME IInv, PartStops PROVE IInv'
    OBVIOUS
  <1>1. /\ Streams /\ UNCHANGED <<call, stage, text, usage>>
        /\ up.part # NoPart
        /\ up' = [up EXCEPT !.part = NoPart, !.said = "something"]
    BY StreamingIs DEF PartStops, Unanswered, Upstream, UpType
  <1>2. PICK i : i = up.part
    OBVIOUS
  <1>3. i \in Index
    BY <1>1, <1>2, StreamingIs DEF UpType
  <1>4. /\ UpType(up') /\ up'.said = "something"
        /\ up'.usage = up.usage /\ up'.counted = up.counted
        /\ up'.items = up.items /\ up'.part = NoPart /\ up'.next = up.next
        /\ up'.item = up.item
    BY <1>1, StreamingIs DEF UpType
  <1>5. /\ up.items # 0 /\ i < up.next
        /\ NoPart \notin Index /\ open \subseteq started /\ started \subseteq Index
    BY <1>1, <1>2 DEF IInv, Numbered, Told, Typed, NoPart, Index
  <1>6. CASE ToMessages
    <2>1. /\ out' = IF i \in open THEN TellStops(out, {i}) ELSE out
          /\ open' = open \ {i} /\ UNCHANGED <<head, started>>
      BY <1>2, <1>6 DEF PartStops, PartDone
    <2>2. /\ OutType(out') /\ out'.heads = out.heads /\ out'.logged = out.logged
          /\ out'.starts = out.starts /\ out'.stray = out.stray
          /\ out'.ended = out.ended /\ out'.failed = out.failed
          /\ out'.reading = out.reading \ {i}
          /\ \A j \in Index :
               out'.stops[j] = IF j = i /\ i \in open THEN out.stops[j] + 1
                               ELSE out.stops[j]
      <3>1. CASE i \in open
        BY <1>1, <1>3, <2>1, <3>1, StreamingIs, TellStopsIs
      <3>2. CASE i \notin open
        <4>1. out.reading = out.reading \ {i}
          BY <3>2 DEF IInv, Told
        <4> QED
          BY <1>1, <2>1, <3>2, <4>1, StreamingIs
      <3> QED
        BY <3>1, <3>2
    <2>3. Typed'
      BY <1>1, <1>4, <2>1, <2>2 DEF IInv, Typed
    <2>4. Told'
      BY <1>3, <1>5, <2>1, <2>2 DEF IInv, Told
    <2>5. Numbered'
      BY <1>4, <1>5, <2>1, <2>2 DEF IInv, Numbered
    <2>6. Ended'
      BY <1>1, <1>4, <2>1, <2>2, StreamingIs DEF IInv, Ended
    <2>7. Counted'
      BY <1>1, <1>4, <2>2, StreamingIs
      DEF IInv, Counted, Normalized, ToMessages
    <2> QED
      BY <2>3, <2>4, <2>5, <2>6, <2>7 DEF IInv
  <1>7. CASE ~ToMessages
    <2>1. PICK e : e = EnsurePart(EnsureHead(out, usage), i)
      OBVIOUS
    <2>2. /\ out' = IF i \in started \ open THEN e ELSE TellStops(e, {i})
          /\ head' = TRUE /\ started' = started \cup {i} /\ open' = open \ {i}
      BY <1>2, <1>7, <2>1 DEF PartStops, BlockStops
    <2>3. /\ OutType(e) /\ e.heads = 1
          /\ \A j \in Index :
               /\ e.starts[j] = IF j \in started \cup {i} THEN 1 ELSE 0
               /\ e.stops[j] = IF j \in started \ open THEN 1 ELSE 0
          /\ e.reading = open \cup ({i} \ started)
          /\ e.stray = out.stray /\ ~e.ended /\ ~e.failed
          /\ e.logged = IF head THEN out.logged
                        ELSE Merged(out.logged, Normalized(usage))
      BY <1>1, <1>3, <2>1, PartIsTold
    <2>4. /\ OutType(out') /\ out'.heads = e.heads /\ out'.logged = e.logged
          /\ out'.starts = e.starts /\ out'.stray = e.stray
          /\ out'.ended = e.ended /\ out'.failed = e.failed
          /\ out'.reading = open \ {i}
          /\ \A j \in Index :
               out'.stops[j] = IF j \in started' \ open' THEN 1 ELSE 0
      <3>1. CASE i \in started \ open
        BY <1>5, <2>2, <2>3, <3>1
      <3>2. CASE i \notin started \ open
        <4>1. /\ out'.reading = e.reading \ {i}
              /\ \A j \in Index :
                   out'.stops[j] = IF j = i THEN e.stops[j] + 1 ELSE e.stops[j]
              /\ OutType(out') /\ out'.heads = e.heads /\ out'.logged = e.logged
              /\ out'.starts = e.starts /\ out'.stray = e.stray
              /\ out'.ended = e.ended /\ out'.failed = e.failed
          BY <1>3, <2>2, <2>3, <3>2, TellStopsIs
        <4>2. e.reading \ {i} = open \ {i}
          BY <2>3
        <4>3. \A j \in Index :
                out'.stops[j] = IF j \in started' \ open' THEN 1 ELSE 0
          <5>1. SUFFICES ASSUME NEW j \in Index
                         PROVE  out'.stops[j] =
                                  IF j \in started' \ open' THEN 1 ELSE 0
            OBVIOUS
          <5>2. /\ out'.stops[j] = IF j = i THEN e.stops[j] + 1 ELSE e.stops[j]
                /\ e.stops[j] = IF j \in started \ open THEN 1 ELSE 0
            BY <2>3, <4>1
          <5>3. CASE j = i
            BY <2>2, <3>2, <5>2, <5>3
          <5>4. CASE j # i
            BY <2>2, <5>2, <5>4
          <5> QED
            BY <5>3, <5>4
        <4> QED
          BY <4>1, <4>2, <4>3
      <3> QED
        BY <3>1, <3>2
    <2>5. Typed'
      BY <1>1, <1>3, <1>4, <2>2, <2>4 DEF IInv, Typed
    <2>6. Told'
      <3>1. \A j \in Index : out'.starts[j] = IF j \in started' THEN 1 ELSE 0
        BY <2>2, <2>3, <2>4
      <3>2. open' \subseteq started' /\ out'.reading = open'
        BY <1>5, <2>2, <2>4
      <3> QED
        BY <2>2, <2>3, <2>4, <3>1, <3>2 DEF Told
    <2>7. Numbered'
      <3>1. up.items <= 1 => \A j \in started' : j < up.next
        BY <1>5, <2>2 DEF IInv, Numbered
      <3>2. NoPart \notin started'
        BY <1>3, <1>5, <2>2
      <3>3. out.stray => up.items > 1
        BY DEF IInv, Numbered
      <3> QED
        BY <1>4, <1>5, <2>3, <2>4, <3>1, <3>2, <3>3 DEF Numbered
    <2>8. Ended'
      BY <1>1, <1>4, <2>2, <2>3, <2>4, StreamingIs DEF IInv, Ended
    <2>9. Counted'
      BY <1>1, <1>4, <2>3, <2>4, HeadCounts
    <2> QED
      BY <2>5, <2>6, <2>7, <2>8, <2>9 DEF IInv
  <1> QED
    BY <1>6, <1>7

-----------------------------------------------------------------------------
(* The last events. *)

LEMMA MessageDeltaKeeps ==
  ASSUME IInv, NEW r \in Usages, MessageDelta(r)
  PROVE  IInv'
  <1>1. /\ Streams /\ ~ToMessages /\ ~up.counted /\ usage' = r
        /\ UNCHANGED <<call, stage, head, started, open, text, out>>
    BY DEF MessageDelta, Unanswered
  <1>2. PICK n, m : n = Normalized(r) /\ m = Merged(up.usage, n)
    OBVIOUS
  <1>3. up.usage \in Tokens /\ n \in Tokens /\ m \in Tokens
    BY <1>1, <1>2, StreamingIs, NormalizedIs, MergedIs DEF UpType
  <1>4. up' = [up EXCEPT !.counted = TRUE, !.usage = m, !.said = "something"]
    BY <1>1, <1>2, StreamingIs DEF MessageDelta, Upstream, UpType
  <1>5. /\ UpType(up') /\ up'.said = "something" /\ up'.usage = m
        /\ up'.counted /\ up'.items = up.items /\ up'.part = up.part
        /\ up'.next = up.next /\ up'.item = up.item
    BY <1>1, <1>3, <1>4, StreamingIs DEF UpType
  <1>6. Typed'
    BY <1>1, <1>5, StreamingIs DEF IInv, Typed
  <1>7. Told' /\ Numbered'
    BY <1>1, <1>5, StreamingIs DEF IInv, Told, Numbered
  <1>8. Ended'
    BY <1>1, <1>5, StreamingIs DEF IInv, Ended
  <1>9. Counted'
    <2>1. out.logged = up.usage
      BY <1>1 DEF IInv, Counted
    <2>2. Normalized(usage)' = n /\ ~ToMessages'
      BY <1>1, <1>2 DEF Normalized, ToMessages
    <2>3. AtMost(n, m)
      BY <1>2, <1>3, MergedKnows
    <2> QED
      BY <1>1, <1>2, <1>5, <2>1, <2>2, <2>3 DEF Counted
  <1> QED
    BY <1>6, <1>7, <1>8, <1>9 DEF IInv

\* How either stream ends: what is missing of the head, a stop for each open
\* part, and the end.
LEMMA EndKeeps ==
  ASSUME IInv, Streams, NEW r \in Usage, NEW final, NEW n \in Tokens,
         n = Normalized(r),
         UNCHANGED <<call, stage, started, text, usage>>,
         head' = TRUE, open' = {},
         out' = TellEnd(TellStops(EnsureHead(out, r), open), r, final),
         up.counted => r = usage,
         up' = [up EXCEPT !.said = "all", !.usage = Merged(@, n)]
  PROVE  IInv'
  <1>1. PICK m \in Tokens : m = Merged(up.usage, n)
    BY StreamingIs, MergedIs DEF UpType
  <1>2. /\ UpType(up') /\ up'.said = "all" /\ up'.usage = m
        /\ up'.counted = up.counted /\ up'.items = up.items
        /\ up'.part = up.part /\ up'.next = up.next /\ up'.item = up.item
    <2>1. up' = [up EXCEPT !.said = "all", !.usage = m]
      BY <1>1, StreamingIs DEF UpType
    <2> QED
      BY <1>1, <2>1, StreamingIs DEF UpType
  <1>3. PICK h : h = EnsureHead(out, r)
    OBVIOUS
  <1>4. /\ OutType(h) /\ h.starts = out.starts /\ h.stops = out.stops
        /\ h.heads = IF head THEN out.heads ELSE out.heads + 1
        /\ h.logged = IF head THEN out.logged ELSE Merged(out.logged, n)
        /\ h.reading = out.reading /\ h.stray = out.stray
        /\ ~h.failed
    BY <1>3, StreamingIs, TellHeadIs
  <1>5. PICK s : s = TellStops(h, open)
    OBVIOUS
  <1>6. /\ OutType(s) /\ s.starts = h.starts /\ s.heads = h.heads
        /\ s.logged = h.logged /\ s.stray = h.stray /\ ~s.failed
        /\ s.reading = h.reading \ open
        /\ \A j \in Index :
             s.stops[j] = IF j \in open THEN h.stops[j] + 1 ELSE h.stops[j]
    BY <1>4, <1>5, TellStopsIs DEF IInv, Typed
  <1>7. /\ OutType(out') /\ out'.ended /\ ~out'.failed
        /\ out'.logged = Merged(s.logged, n)
        /\ out'.heads = s.heads /\ out'.starts = s.starts
        /\ out'.stops = s.stops /\ out'.reading = s.reading
        /\ out'.stray = s.stray
    BY <1>3, <1>5, <1>6, TellEndIs
  <1>8. Typed'
    BY <1>2, <1>7 DEF IInv, Typed
  <1>9. Told'
    <2>1. /\ out'.heads = 1
          /\ \A j \in Index : out'.starts[j] = IF j \in started THEN 1 ELSE 0
      BY <1>4, <1>6, <1>7 DEF IInv, Told, Typed
    <2>2. \A j \in Index : out'.stops[j] = IF j \in started THEN 1 ELSE 0
      BY <1>4, <1>6, <1>7 DEF IInv, Told
    <2>3. out'.reading = {}
      BY <1>4, <1>6, <1>7 DEF IInv, Told
    <2> QED
      BY <2>1, <2>2, <2>3 DEF Told
  <1>10. Numbered'
    <2>1. out'.stray = out.stray
      BY <1>4, <1>6, <1>7
    <2> QED
      BY <1>2, <2>1 DEF IInv, Numbered
  <1>11. Ended'
    BY <1>2, <1>7, StreamingIs DEF IInv, Ended
  <1>12. Counted'
    <2>1. PICK c \in Tokens : c = Normalized(usage)
      BY StreamingIs, NormalizedIs
    <2>2. /\ AtMost(c, up.usage) /\ (~up.counted => out.logged = up.usage)
          /\ (up.counted => up.usage = Merged(out.logged, c) /\ n = c)
          /\ (ToMessages => usage = NoUsage /\ ~up.counted)
          /\ up.usage \in Tokens /\ out.logged \in Tokens
      BY <2>1, StreamingIs DEF IInv, Counted, UpType, OutType
    <2>3. out'.logged = Merged(out.logged, n)
      BY <1>4, <1>6, <1>7, <2>2, MergedTwice
    <2>4. out'.logged = m
      BY <1>1, <2>2, <2>3, MergedTwice
    <2>5. AtMost(c, m)
      BY <1>1, <2>1, <2>2, MergedOver
    <2>6. Normalized(usage)' = c /\ (ToMessages' = ToMessages)
      BY <2>1 DEF Normalized, ToMessages
    <2> QED
      BY <1>2, <2>1, <2>2, <2>4, <2>5, <2>6, MergedKnows DEF Counted
  <1> QED
    BY <1>8, <1>9, <1>10, <1>11, <1>12 DEF IInv

LEMMA ResponseCompletedKeeps ==
  ASSUME IInv, NEW r \in Usages, ResponseCompleted(r)
  PROVE  IInv'
  <1>1. PICK n \in Tokens : n = Normalized(r)
    BY NormalizedIs
  <1>2. /\ Streams /\ UNCHANGED <<call, stage, started, text, usage>>
        /\ head' = TRUE /\ open' = {} /\ ~up.counted
        /\ out' = TellEnd(TellStops(EnsureHead(out, r), open), r, <<>>)
        /\ up' = [up EXCEPT !.said = "all", !.usage = Merged(@, n)]
    BY <1>1 DEF ResponseCompleted, Completed, Unanswered, IInv, Counted
  <1> QED
    BY <1>1, <1>2, EndKeeps

LEMMA MessageStopKeeps == IInv /\ MessageStop => IInv'
  <1> SUFFICES ASSUME IInv, MessageStop PROVE IInv'
    OBVIOUS
  <1>1. /\ Streams /\ UNCHANGED <<call, stage, started, text, usage>>
        /\ head' = TRUE /\ open' = {} /\ up' = [up EXCEPT !.said = "all"]
    BY DEF MessageStop, Unanswered
  <1>2. PICK final :
          out' = TellEnd(TellStops(EnsureHead(out, usage), open), usage, final)
    BY DEF MessageStop
  <1>3. PICK n \in Tokens : n = Normalized(usage)
    BY <1>1, StreamingIs, NormalizedIs
  <1>4. up' = [up EXCEPT !.said = "all", !.usage = Merged(@, n)]
    <2>1. up.usage \in Tokens /\ AtMost(n, up.usage)
      BY <1>1, <1>3, StreamingIs DEF UpType, IInv, Counted
    <2>2. Merged(up.usage, n) = up.usage
      BY <2>1, MergedKnows
    <2> QED
      BY <1>1, <2>2, StreamingIs DEF UpType
  <1> QED
    BY <1>1, <1>2, <1>3, <1>4, StreamingIs, EndKeeps

-----------------------------------------------------------------------------

LEMMA Keeps == IInv /\ [Next]_vars => IInv'
  <1> SUFFICES ASSUME IInv, [Next]_vars PROVE IInv'
    OBVIOUS
  <1>1. CASE PrepareExchange \/ AdaptFails \/ AdaptStream \/ Deliver
    BY <1>1, StageKeeps
  <1>2. CASE AdaptJSON
    BY <1>2, AdaptJSONKeeps
  <1>3. CASE Event
    <2>1. CASE \E r \in Usages : StreamBegins(r)
      BY <2>1, StreamBeginsKeeps
    <2>2. CASE \E i \in Index, kind \in {"text", "call", "other"} :
                 PartStarts(i, kind)
      BY <2>2, PartStartsKeeps
    <2>3. CASE TextDelta
      BY <2>3, TextDeltaKeeps
    <2>4. CASE PartStops
      BY <2>4, PartStopsKeeps
    <2>5. CASE StreamFails
      BY <2>5, StreamFailsKeeps
    <2>6. CASE StreamStops \/ ItemStops \/ ItemCalls
      BY <2>6, StreamStopsKeeps
    <2>7. CASE ItemStarts
      BY <2>7, ItemStartsKeeps
    <2>8. CASE \E r \in Usages : ResponseCompleted(r)
      BY <2>8, ResponseCompletedKeeps
    <2>9. CASE \E r \in Usages : MessageDelta(r)
      BY <2>9, MessageDeltaKeeps
    <2>10. CASE MessageStop
      BY <2>10, MessageStopKeeps
    <2> QED
      BY <1>3, <2>1, <2>2, <2>3, <2>4, <2>5, <2>6, <2>7, <2>8, <2>9, <2>10
      DEF Event
  <1>4. CASE UNCHANGED vars
    <2>1. UNCHANGED <<call, stage, up, head, started, open, text, usage, out>>
      BY <1>4 DEF vars, converter
    <2> QED
      BY <2>1
      DEF IInv, Typed, Stages, UpType, OutType, Told, Numbered, Ended, Counted,
          Normalized, ToMessages
  <1> QED
    BY <1>1, <1>2, <1>3, <1>4 DEF Next

\* The converter tells of each part once, in order, and keeps the counts it
\* has not logged yet.
THEOREM Invariant == Spec => []IInv
  BY Starts, Keeps, PTL DEF Spec

\* The converter's state keeps its type, for any number of parts, items and
\* deltas.
THEOREM TypeCorrect == Spec => []TypeOK
  <1>1. IInv => TypeOK
    BY DEF IInv, Typed, Stages, UpType, OutType, TypeOK
  <1> QED
    BY <1>1, Invariant, PTL

\* Whatever the upstream leaves out of its stream, a part is started and
\* stopped once, in this order, and no text is told outside of one, except
\* that of a second message.
THEOREM PartsAreNested == Spec => []PartsNest
  <1>1. IInv => PartsNest
    <2> SUFFICES ASSUME IInv PROVE PartsNest
      OBVIOUS
    <2>1. out.heads <= 1 /\ (head => out.heads = 1)
      BY DEF IInv, Told, Typed
    <2>2. ASSUME NEW i \in Index
          PROVE  /\ out.stops[i] <= out.starts[i] /\ out.starts[i] <= 1
                 /\ out.starts[i] = 1 => out.heads = 1
      <3>1. /\ out.starts[i] = IF i \in started THEN 1 ELSE 0
            /\ out.stops[i] = IF i \in started \ open THEN 1 ELSE 0
        BY DEF IInv, Told
      <3>2. i \in started => out.heads = 1
        BY <2>1 DEF IInv, Told
      <3> QED
        BY <3>1, <3>2
    <2>3. out.stray => up.items > 1
      BY DEF IInv, Numbered
    <2> QED
      BY <2>1, <2>2, <2>3 DEF PartsNest
  <1> QED
    BY <1>1, Invariant, PTL

\* A delivered stream ends with the upstream's end, and then every part that
\* was started is stopped.
THEOREM EndsFollow == Spec => []EndsAsUpstream
  <1>1. IInv => EndsAsUpstream
    <2> SUFFICES ASSUME IInv, up.said # "answer"
                 PROVE  /\ out.ended <=> up.said = "all"
                        /\ out.failed <=> up.said = "failure"
                        /\ out.ended => out.heads = 1 /\ out.starts = out.stops
      BY DEF EndsAsUpstream
    <2>1. ASSUME out.ended PROVE out.heads = 1 /\ out.starts = out.stops
      <3>1. head /\ open = {}
        BY <2>1 DEF IInv, Ended
      <3>2. \A i \in Index : out.starts[i] = out.stops[i]
        BY <3>1 DEF IInv, Told
      <3>3. out.starts \in [Index -> Nat] /\ out.stops \in [Index -> Nat]
        BY DEF IInv, Typed, OutType
      <3> QED
        BY <3>1, <3>2, <3>3 DEF IInv, Told
    <2> QED
      BY <2>1 DEF IInv, Ended
  <1> QED
    BY <1>1, Invariant, PTL

\* The counts logged are the upstream's, whichever of its events carried
\* them, for all token counts.
THEOREM TokensAreLogged == Spec => []TokensLogged
  <1>1. IInv => TokensLogged
    BY DEF IInv, Ended, Counted, TokensLogged
  <1> QED
    BY <1>1, Invariant, PTL
-----------------------------------------------------------------------------
(* Requests. *)

\* What the upstream gets is what PrepareExchange made of the call.
Sent ==
  /\ call \in Calls
  /\ stage \notin {"preparing", "relayed"} => Converts /\ sent = Prepared

LEMMA SentKeeps == Sent /\ [Next]_vars => Sent'
  <1> SUFFICES ASSUME Sent, [Next]_vars PROVE Sent'
    OBVIOUS
  <1>1. ASSUME UNCHANGED call
        PROVE  Converts' = Converts /\ Prepared' = Prepared
    BY <1>1 DEF Converts, Prepared, ToMessages
  <1>2. CASE PrepareExchange
    <2>1. /\ UNCHANGED call /\ sent' = Prepared
          /\ stage' = IF Converts THEN "calling" ELSE "relayed"
      BY <1>2 DEF PrepareExchange
    <2> QED
      BY <1>1, <2>1 DEF Sent
  <1>3. CASE AdaptFails \/ AdaptJSON \/ AdaptStream \/ Deliver
    <2>1. UNCHANGED <<call, sent>> /\ stage \in {"calling", "converting"}
      BY <1>3 DEF AdaptFails, AdaptJSON, AdaptStream, Deliver
    <2> QED
      BY <1>1, <2>1 DEF Sent
  <1>4. CASE Event
    <2>1. UNCHANGED <<call, sent, stage>>
      BY <1>4
      DEF Event, StreamBegins, PartStarts, TextDelta, PartStops, StreamFails,
          StreamStops, ItemStarts, ItemStops, ItemCalls, ResponseCompleted,
          MessageDelta, MessageStop, Unanswered
    <2> QED
      BY <1>1, <2>1 DEF Sent
  <1>5. CASE UNCHANGED vars
    <2>1. UNCHANGED <<call, sent, stage>>
      BY <1>5 DEF vars
    <2> QED
      BY <1>1, <2>1 DEF Sent
  <1> QED
    BY <1>2, <1>3, <1>4, <1>5 DEF Next

LEMMA SentAlways == Spec => []Sent
  <1>1. Init => Sent
    BY DEF Init, Sent
  <1> QED
    BY <1>1, SentKeeps, PTL DEF Spec

\* No member keeps a name of the client's protocol.
LEMMA Renamed ==
  /\ \A keys : DOMAIN MessagesToResponsesKey
                 \cap RenameKeys(MessagesToResponsesKey, keys) = {}
  /\ \A keys : DOMAIN ResponsesToMessagesKey
                 \cap RenameKeys(ResponsesToMessagesKey, keys) = {}
  <1>1. \A keys : DOMAIN MessagesToResponsesKey
                    \cap RenameKeys(MessagesToResponsesKey, keys) = {}
    BY DEF MessagesToResponsesKey, RenameKeys
  <1>2. \A keys : DOMAIN ResponsesToMessagesKey
                    \cap RenameKeys(ResponsesToMessagesKey, keys) = {}
    BY DEF ResponsesToMessagesKey, RenameKeys
  <1> QED
    BY <1>1, <1>2

\* A converted request says what the client's says, for conversations of any
\* length: every text, call and result, by the same speaker and in the same
\* order, under the members and at the path of the other protocol.
THEOREM RequestsSurvive == Spec => []RequestSurvives
  <1>1. Sent => RequestSurvives
    <2> SUFFICES ASSUME Sent, stage \notin {"preparing", "relayed"}
                 PROVE  RequestSurvives
      BY DEF RequestSurvives
    <2>1. call \in Calls /\ Converts /\ sent = Prepared
      BY DEF Sent
    <2>2. call.protocol \in {"openai", "anthropic", "both"}
      BY <2>1, CallsAssumption DEF Protocols
    <2>3. CASE ToMessages
      <3> DEFINE request == call.request
      <3>1. /\ Endpoint(call.path) = "messages" /\ request \in MessagesRequest
            /\ EffectiveProtocol(call.protocol, call.path) = "openai"
        BY <2>1, <2>3, CallsAssumption DEF ToMessages, Converts
      <3>2. /\ sent.path = "/v1/responses"
            /\ sent.request = MessagesToResponsesRequest(request)
        BY <2>1, <2>3 DEF Prepared
      <3>3. Endpoint(sent.path) = "responses"
        BY <3>2 DEF Endpoint
      <3>4. EffectiveProtocol(call.protocol, sent.path) = "openai"
        BY <2>2, <3>1, <3>3 DEF EffectiveProtocol
      <3>5. request.body \in Seq(MessagesMessage)
            /\ request.choice \in {"auto", "any", "none", "tool"}
        BY <3>1 DEF MessagesRequest, Requests
      <3>6. /\ sent.request.body = ResponsesInput(request.body)
            /\ sent.request.choice = ResponsesChoice(request.choice)
            /\ sent.request.keys =
                 RenameKeys(MessagesToResponsesKey,
                   request.keys \ (Unsaid(request) \cup {"thinking", "top_k"}))
        BY <3>2 DEF MessagesToResponsesRequest
      <3>7. ConversationOf(request.body) = ConversationOfItems(sent.request.body)
        BY <3>5, <3>6, ResponsesInputSays
      <3>8. AnthropicChoice(sent.request.choice) = request.choice
        BY <3>5, <3>6 DEF AnthropicChoice, ResponsesChoice
      <3>9. DOMAIN MessagesToResponsesKey \cap sent.request.keys = {}
        BY <3>6, Renamed
      <3> QED
        BY <2>3, <3>1, <3>3, <3>4, <3>7, <3>8, <3>9 DEF RequestSurvives
    <2>4. CASE ~ToMessages
      <3> DEFINE request == call.request
      <3>1. /\ Endpoint(call.path) = "responses" /\ request \in ResponsesRequest
            /\ EffectiveProtocol(call.protocol, call.path) = "anthropic"
        BY <2>1, <2>4, CallsAssumption DEF Converts
      <3>2. /\ sent.path = "/v1/messages"
            /\ sent.request = ResponsesToMessagesRequest(request)
        BY <2>1, <2>4 DEF Prepared
      <3>3. Endpoint(sent.path) = "messages"
        BY <3>2 DEF Endpoint
      <3>4. EffectiveProtocol(call.protocol, sent.path) = "anthropic"
        BY <2>2, <3>1, <3>3 DEF EffectiveProtocol
      <3>5. request.body \in Seq(ResponsesItem)
            /\ request.choice \in {"auto", "required", "none", "function"}
        BY <3>1 DEF ResponsesRequest, Requests
      <3>6. /\ sent.request.body = AnthropicMessages(request.body)
            /\ sent.request.choice = AnthropicChoice(request.choice)
            /\ sent.request.keys =
                 RenameKeys(ResponsesToMessagesKey, request.keys \ Unsaid(request))
        BY <3>2 DEF ResponsesToMessagesRequest
      <3>7. ConversationOfItems(request.body) = ConversationOf(sent.request.body)
        BY <3>5, <3>6, AnthropicMessagesSays
      <3>8. ResponsesChoice(sent.request.choice) = request.choice
        BY <3>5, <3>6 DEF AnthropicChoice, ResponsesChoice
      <3>9. DOMAIN ResponsesToMessagesKey \cap sent.request.keys = {}
        BY <3>6, Renamed
      <3> QED
        BY <2>4, <3>1, <3>3, <3>4, <3>7, <3>8, <3>9 DEF RequestSurvives
    <2> QED
      BY <2>3, <2>4
  <1> QED
    BY <1>1, SentAlways, PTL

-----------------------------------------------------------------------------
(* Texts. *)

\* The parts a Messages stream has started are those before the part it has
\* come to, and a part that is no text is started only when it stops.
Reached ==
  IF up.part # NoPart /\ up.kind # "text" THEN up.next - 1 ELSE up.next

\* The converter has every delta, and has told of it; the finished item has
\* one entry for each part; a JSON answer is the conversion of the upstream's.
Whole ==
  /\ out.text = up.text /\ text = up.text
  /\ ~ToMessages =>
       /\ up.part # NoPart => up.next = up.part + 1
       /\ started = 0 .. Reached - 1
       /\ \A i \in Index : text[i] # <<>> => i \in started
       /\ out.ended => out.final = FinalContent
  /\ up.said = "answer" =>
       IF ToMessages
       THEN up.answer \in Answers["responses"]
            /\ out.answer = MessagesAnswer(up.answer)
       ELSE up.answer \in Answers["messages"]
            /\ out.answer = ResponsesAnswer(up.answer)

\* The entries of the finished item are the texts of the parts, by number.
LEMMA FinalContentIs ==
  ASSUME NEW n \in Nat, started = 0 .. n - 1
  PROVE  /\ DOMAIN FinalContent = 1 .. n
         /\ \A i \in started : FinalContent[i + 1] = text[i]
  <1>1. Cardinality(started) = n
    BY FS_Interval
  <1>2. ASSUME NEW i \in started
        PROVE  Cardinality({j \in started : j < i}) = i
    <2>1. {j \in started : j < i} = 0 .. i - 1
      OBVIOUS
    <2>2. Cardinality(0 .. i - 1) = i
      BY FS_Interval
    <2> QED
      BY <2>1, <2>2
  <1>3. FinalContent = [k \in 1 .. n |->
          text[CHOOSE i \in started :
                 Cardinality({j \in started : j < i}) = k - 1]]
    BY <1>1 DEF FinalContent
  <1>4. ASSUME NEW i \in started PROVE FinalContent[i + 1] = text[i]
    <2>1. i + 1 \in 1 .. n /\ (i + 1) - 1 = i
      OBVIOUS
    <2>2. (CHOOSE h \in started : Cardinality({j \in started : j < h}) = i) = i
      BY <1>2
    <2> QED
      BY <1>3, <2>1, <2>2
  <1> QED
    BY <1>3, <1>4

\* Steps that leave the parts and their texts alone.
LEMMA TextsStay ==
  ASSUME Whole, UNCHANGED <<call, started, text>>,
         up'.part = up.part, up'.kind = up.kind, up'.next = up.next,
         up'.text = up.text, out'.text = out.text,
         out'.ended => (out.ended /\ out'.final = out.final) \/ ToMessages,
         up'.said = "answer" =>
           /\ up.said = "answer" /\ up'.answer = up.answer
           /\ out'.answer = out.answer
  PROVE  Whole'
  <1>1. ToMessages' = ToMessages
    BY DEF ToMessages
  <1>2. FinalContent' = FinalContent
    BY DEF FinalContent
  <1>3. Reached' = Reached
    BY DEF Reached
  <1>4. out'.text = up'.text /\ text' = up'.text
    BY DEF Whole
  <1>5. ASSUME ~ToMessages
        PROVE  /\ up'.part # NoPart => up'.next = up'.part + 1
               /\ started' = 0 .. Reached' - 1
               /\ \A i \in Index : text'[i] # <<>> => i \in started'
               /\ out'.ended => out'.final = FinalContent'
    BY <1>2, <1>3, <1>5 DEF Whole
  <1>6. up'.said = "answer" =>
          IF ToMessages
          THEN up'.answer \in Answers["responses"]
               /\ out'.answer = MessagesAnswer(up'.answer)
          ELSE up'.answer \in Answers["messages"]
               /\ out'.answer = ResponsesAnswer(up'.answer)
    BY DEF Whole
  <1> QED
    BY <1>1, <1>4, <1>5, <1>6 DEF Whole

LEMMA TellDeltaTells ==
  ASSUME NEW o, OutType(o), NEW i \in Index, NEW d
  PROVE  /\ TellDelta(o, i, d).text = [o.text EXCEPT ![i] = Append(@, d)]
         /\ TellDelta(o, i, d).answer = o.answer
  BY DEF TellDelta, OutType

LEMMA StageKeepsWhole ==
  ASSUME IInv, Whole, PrepareExchange \/ AdaptFails \/ AdaptStream \/ Deliver
  PROVE  Whole'
  <1>1. UNCHANGED <<call, up, started, text, out>>
    BY DEF PrepareExchange, AdaptFails, AdaptStream, Deliver, converter
  <1> QED
    BY <1>1, TextsStay

LEMMA AdaptJSONKeepsWhole == IInv /\ Sent /\ Whole /\ AdaptJSON => Whole'
  <1> SUFFICES ASSUME IInv, Sent, Whole, AdaptJSON PROVE Whole'
    OBVIOUS
  <1>1. PICK answer \in Answers[Endpoint(sent.path)], reported \in Usages :
          /\ up' = [up EXCEPT !.answer = answer, !.said = "answer",
                              !.usage = Normalized(reported)]
          /\ out' = Log([out EXCEPT !.answer =
                           IF ToMessages THEN MessagesAnswer(answer)
                           ELSE ResponsesAnswer(answer)], reported)
    BY DEF AdaptJSON
  <1>2. UNCHANGED <<call, started, text>> /\ stage = "calling"
    BY DEF AdaptJSON
  <1>3. UpType(up) /\ OutType(out)
    BY DEF IInv, Typed
  <1>4. /\ up'.part = up.part /\ up'.kind = up.kind /\ up'.next = up.next
        /\ up'.text = up.text /\ up'.answer = answer
    BY <1>1, <1>3 DEF UpType
  <1>5. PICK mine : mine = IF ToMessages THEN MessagesAnswer(answer)
                           ELSE ResponsesAnswer(answer)
    OBVIOUS
  <1>6. /\ out'.text = out.text /\ out'.ended = out.ended
        /\ out'.final = out.final /\ out'.answer = mine
    <2>1. out' = Log([out EXCEPT !.answer = mine], reported)
      BY <1>1, <1>5
    <2> QED
      BY <1>3, <2>1 DEF Log, OutType
  <1>7. Converts /\ sent = Prepared
    BY <1>2 DEF Sent
  <1>8. IF ToMessages THEN Endpoint(sent.path) = "responses"
        ELSE Endpoint(sent.path) = "messages"
    BY <1>7 DEF Prepared, Endpoint
  <1>9. ToMessages' = ToMessages /\ FinalContent' = FinalContent /\ Reached' = Reached
    BY <1>2, <1>4 DEF ToMessages, FinalContent, Reached
  <1>10. IF ToMessages
         THEN up'.answer \in Answers["responses"]
              /\ out'.answer = MessagesAnswer(up'.answer)
         ELSE up'.answer \in Answers["messages"]
              /\ out'.answer = ResponsesAnswer(up'.answer)
    BY <1>4, <1>5, <1>6, <1>8
  <1>11. /\ out'.text = up'.text /\ text' = up'.text
         /\ ~ToMessages =>
              /\ up'.part # NoPart => up'.next = up'.part + 1
              /\ started' = 0 .. Reached' - 1
              /\ \A i \in Index : text'[i] # <<>> => i \in started'
              /\ out'.ended => out'.final = FinalContent'
    BY <1>2, <1>4, <1>6, <1>9 DEF Whole
  <1> QED
    BY <1>9, <1>10, <1>11 DEF Whole

\* The events of which nothing is a text or a part.
LEMMA OtherEventsKeepWhole ==
  ASSUME IInv, Whole,
         \/ \E r \in Usages : StreamBegins(r)
         \/ StreamFails \/ StreamStops \/ ItemStarts \/ ItemStops \/ ItemCalls
         \/ \E r \in Usages : ResponseCompleted(r)
         \/ \E r \in Usages : MessageDelta(r)
  PROVE  Whole'
  <1>1. Streams /\ UNCHANGED <<call, started, text>>
    BY DEF StreamBegins, StreamFails, StreamStops, ItemStarts, ItemStops,
           ItemCalls, ResponseCompleted, MessageDelta, Unanswered, converter
  <1>2. UpType(up) /\ OutType(out) /\ ~out.ended /\ up.said # "answer"
    BY <1>1, StreamingIs
  <1>3. CASE \E r \in Usages : StreamBegins(r)
    <2>1. PICK r \in Usages : StreamBegins(r)
      BY <1>3
    <2>2. r \in Usage
      OBVIOUS
    <2>3. /\ out' = EnsureHead(out, r)
          /\ up' = [[up EXCEPT !.usage = Merged(@, Normalized(r))]
                       EXCEPT !.said = "something"]
      BY <2>1 DEF StreamBegins, Upstream
    <2>4. out'.text = out.text /\ out'.ended = out.ended
      BY <1>2, <2>2, <2>3, TellHeadIs
    <2>5. /\ up'.part = up.part /\ up'.kind = up.kind /\ up'.next = up.next
          /\ up'.text = up.text /\ up'.said # "answer"
      BY <1>2, <2>3 DEF UpType
    <2> QED
      BY <1>1, <1>2, <2>4, <2>5, TextsStay
  <1>4. CASE StreamFails \/ StreamStops
    <2>1. /\ out'.text = out.text /\ out'.ended = out.ended
      BY <1>2, <1>4 DEF StreamFails, StreamStops, converter, OutType
    <2>2. /\ up'.part = up.part /\ up'.kind = up.kind /\ up'.next = up.next
          /\ up'.text = up.text /\ up'.said # "answer"
      BY <1>2, <1>4 DEF StreamFails, StreamStops, UpType
    <2> QED
      BY <1>1, <1>2, <2>1, <2>2, TextsStay
  <1>5. CASE ItemStops \/ ItemCalls
    <2>1. UNCHANGED out
      BY <1>5 DEF ItemStops, ItemCalls, converter
    <2>2. /\ up'.part = up.part /\ up'.kind = up.kind /\ up'.next = up.next
          /\ up'.text = up.text /\ up'.said # "answer"
      BY <1>2, <1>5 DEF ItemStops, ItemCalls, Upstream, UpType
    <2> QED
      BY <1>1, <1>2, <2>1, <2>2, TextsStay
  <1>6. CASE ItemStarts
    <2>1. UNCHANGED out /\ ToMessages
      BY <1>6 DEF ItemStarts, converter
    <2>2. up'.text = up.text /\ up'.said # "answer"
      BY <1>2, <1>6 DEF ItemStarts, Upstream, UpType
    <2>3. ToMessages'
      BY <1>1, <2>1 DEF ToMessages
    <2> QED
      BY <1>1, <2>1, <2>2, <2>3 DEF Whole
  <1>7. CASE \E r \in Usages : ResponseCompleted(r)
    <2>1. PICK r \in Usages : ResponseCompleted(r)
      BY <1>7
    <2>2. r \in Usage
      OBVIOUS
    <2>3. /\ ToMessages
          /\ out' = TellEnd(TellStops(EnsureHead(out, r), open), r, <<>>)
          /\ up' = [up EXCEPT !.said = "all", !.usage = Merged(@, Normalized(r))]
      BY <2>1 DEF ResponseCompleted, Completed
    <2>4. out'.text = out.text
      <3>1. PICK o, p : o = EnsureHead(out, r) /\ p = TellStops(o, open)
        OBVIOUS
      <3>2. OutType(o) /\ o.text = out.text
        BY <1>2, <2>2, <3>1, TellHeadIs
      <3>3. OutType(p) /\ p.text = o.text
        <4>1. open \in SUBSET Index
          BY DEF IInv, Typed
        <4> QED
          BY <3>1, <3>2, <4>1, TellStopsIs
      <3> QED
        BY <2>2, <2>3, <3>1, <3>2, <3>3, TellEndIs
    <2>5. up'.text = up.text /\ up'.said # "answer"
      BY <1>2, <2>3 DEF UpType
    <2>6. ToMessages'
      BY <1>1, <2>3 DEF ToMessages
    <2> QED
      BY <1>1, <2>4, <2>5, <2>6 DEF Whole
  <1>8. CASE \E r \in Usages : MessageDelta(r)
    <2>1. PICK r \in Usages : MessageDelta(r)
      BY <1>8
    <2>2. /\ UNCHANGED out
          /\ up' = [[up EXCEPT !.counted = TRUE,
                               !.usage = Merged(@, Normalized(r))]
                       EXCEPT !.said = "something"]
      BY <2>1 DEF MessageDelta, Upstream
    <2>3. /\ up'.part = up.part /\ up'.kind = up.kind /\ up'.next = up.next
          /\ up'.text = up.text /\ up'.said # "answer"
      BY <1>2, <2>2 DEF UpType
    <2> QED
      BY <1>1, <1>2, <2>2, <2>3, TextsStay
  <1> QED
    BY <1>3, <1>4, <1>5, <1>6, <1>7, <1>8

\* The events of a stream whose parts go on: what is left to show of each.
LEMMA PartsGoOn ==
  ASSUME UNCHANGED call, up'.said # "answer",
         out'.text = up'.text, text' = up'.text,
         ~ToMessages =>
           /\ up'.part # NoPart => up'.next = up'.part + 1
           /\ started' = 0 .. Reached' - 1
           /\ \A i \in Index : text'[i] # <<>> => i \in started'
           /\ out'.ended => out'.final = FinalContent'
  PROVE  Whole'
  <1>1. ToMessages' = ToMessages
    BY DEF ToMessages
  <1> QED
    BY <1>1 DEF Whole

LEMMA PartStartsKeepsWhole ==
  ASSUME IInv, Whole, NEW i \in Index, NEW kind \in {"text", "call", "other"},
         PartStarts(i, kind)
  PROVE  Whole'
  <1>1. /\ Streams /\ UNCHANGED <<call, text>>
        /\ up.part = NoPart /\ up.next = i
    BY DEF PartStarts, Unanswered
  <1>2. UpType(up) /\ OutType(out) /\ ~out.ended /\ i \in Nat
    BY <1>1, StreamingIs DEF Index
  <1>3. PICK next, calls :
          next = i + 1 /\ calls = IF kind = "call" THEN up.calls + 1 ELSE up.calls
    OBVIOUS
  <1>4. up' = [up EXCEPT !.part = i, !.kind = kind, !.next = next,
                         !.calls = calls, !.said = "something"]
    BY <1>1, <1>2, <1>3 DEF PartStarts, Upstream, UpType
  <1>5. /\ up'.part = i /\ up'.kind = kind /\ up'.next = i + 1
        /\ up'.said # "answer" /\ up'.text = up.text
    BY <1>2, <1>3, <1>4 DEF UpType
  <1>6. i # NoPart
    BY <1>2 DEF NoPart
  <1>7. ~ToMessages => started = 0 .. i - 1
    BY <1>1 DEF Whole, Reached
  <1>8. CASE kind = "text"
    <2>1. HeadAndPart(i) /\ out' = EnsurePart(EnsureHead(out, usage), i)
      BY <1>8 DEF PartStarts
    <2>2. out'.text = out.text /\ ~out'.ended
      BY <1>1, <2>1, PartIsTold
    <2>3. started' = started \cup {i}
      BY <2>1 DEF HeadAndPart
    <2>4. Reached' = i + 1
      BY <1>5, <1>8 DEF Reached
    <2>5. ASSUME ~ToMessages PROVE started' = 0 .. Reached' - 1
      <3>1. (0 .. i - 1) \cup {i} = 0 .. i
        BY <1>2
      <3>2. Reached' - 1 = i
        BY <1>2, <2>4
      <3> QED
        BY <1>7, <2>3, <2>5, <3>1, <3>2
    <2> QED
      BY <1>1, <1>5, <2>2, <2>3, <2>5, PartsGoOn DEF Whole
  <1>9. CASE kind # "text"
    <2>1. UNCHANGED <<out, started>>
      BY <1>9 DEF PartStarts
    <2>2. Reached' = i
      BY <1>2, <1>5, <1>6, <1>9 DEF Reached
    <2> QED
      BY <1>1, <1>2, <1>5, <1>7, <2>1, <2>2, PartsGoOn DEF Whole
  <1> QED
    BY <1>8, <1>9

LEMMA TextDeltaKeepsWhole == IInv /\ Whole /\ TextDelta => Whole'
  <1> SUFFICES ASSUME IInv, Whole, TextDelta PROVE Whole'
    OBVIOUS
  <1>1. /\ Streams /\ UNCHANGED call
        /\ up.part # NoPart /\ up.kind = "text" /\ up.deltas < MaxDeltas
    BY DEF TextDelta, Unanswered
  <1>2. PICK i, d : i = up.part /\ d = up.deltas + 1
    OBVIOUS
  <1>3. UpType(up) /\ OutType(out) /\ i \in Index /\ d \in Nat
    BY <1>1, <1>2, StreamingIs DEF UpType
  <1>4. /\ HeadAndPart(i) /\ text' = [text EXCEPT ![i] = Append(@, d)]
        /\ out' = TellDelta(EnsurePart(EnsureHead(out, usage), i), i, d)
    BY <1>2 DEF TextDelta
  <1>5. PICK t : t = [up.text EXCEPT ![i] = Append(@, d)]
    OBVIOUS
  <1>6. up' = [up EXCEPT !.deltas = d, !.text = t, !.said = "something"]
    BY <1>1, <1>2, <1>3, <1>5 DEF TextDelta, Upstream, UpType
  <1>7. /\ up'.part = i /\ up'.kind = "text" /\ up'.next = up.next
        /\ up'.said # "answer" /\ up'.text = t
    BY <1>1, <1>2, <1>3, <1>6 DEF UpType
  <1>8. text' = t
    BY <1>4, <1>5 DEF Whole
  <1>9. out'.text = t /\ ~out'.ended
    <2>1. PICK e : e = EnsurePart(EnsureHead(out, usage), i)
      OBVIOUS
    <2>2. OutType(e) /\ e.text = out.text /\ ~e.ended
      BY <1>1, <1>3, <2>1, PartIsTold
    <2>3. TellDelta(e, i, d).text = [e.text EXCEPT ![i] = Append(@, d)]
      BY <1>3, <2>2, TellDeltaTells
    <2>4. TellDelta(e, i, d).ended = e.ended
      BY <1>3, <2>2, TellDeltaIs
    <2>5. out' = TellDelta(e, i, d)
      BY <1>4, <2>1
    <2> QED
      BY <1>5, <2>2, <2>3, <2>4, <2>5 DEF Whole
  <1>10. started' = started \cup {i}
    BY <1>4 DEF HeadAndPart
  <1>11. ASSUME ~ToMessages
         PROVE  /\ up'.part # NoPart => up'.next = up'.part + 1
                /\ started' = 0 .. Reached' - 1
                /\ \A j \in Index : text'[j] # <<>> => j \in started'
    <2>1. up.next = i + 1
      BY <1>1, <1>2, <1>11 DEF Whole
    <2>2. Reached = up.next /\ Reached' = up.next
      BY <1>1, <1>7 DEF Reached
    <2>3. i \in Nat /\ (i + 1) - 1 = i
      BY <1>3 DEF Index
    <2>4. started = 0 .. i
      BY <1>11, <2>1, <2>2, <2>3 DEF Whole
    <2>5. started' = started
      BY <1>10, <2>3, <2>4
    <2>6. \A j \in Index : text'[j] # <<>> => j \in started'
      <3>1. SUFFICES ASSUME NEW j \in Index, j # i, text'[j] # <<>>
                     PROVE  j \in started
        BY <1>10
      <3>2. text \in [Index -> Seq(1 .. MaxDeltas)]
        BY DEF IInv, Typed
      <3>3. text'[j] = text[j]
        BY <1>4, <3>1, <3>2
      <3> QED
        BY <1>11, <3>1, <3>3 DEF Whole
    <2> QED
      BY <1>7, <2>1, <2>2, <2>3, <2>4, <2>5, <2>6
  <1> QED
    BY <1>1, <1>7, <1>8, <1>9, <1>11, PartsGoOn

LEMMA PartStopsKeepsWhole == IInv /\ Whole /\ PartStops => Whole'
  <1> SUFFICES ASSUME IInv, Whole, PartStops PROVE Whole'
    OBVIOUS
  <1>1. /\ Streams /\ UNCHANGED <<call, text>> /\ up.part # NoPart
        /\ up' = [up EXCEPT !.part = NoPart, !.said = "something"]
    BY StreamingIs DEF PartStops, Unanswered, Upstream, UpType
  <1>2. PICK i : i = up.part
    OBVIOUS
  <1>3. UpType(up) /\ OutType(out) /\ ~out.ended /\ i \in Index
    BY <1>1, <1>2, StreamingIs DEF UpType
  <1>4. /\ up'.part = NoPart /\ up'.next = up.next /\ up'.text = up.text
        /\ up'.said # "answer"
    BY <1>1, <1>3 DEF UpType
  <1>5. CASE ToMessages
    <2>1. out' = IF i \in open THEN TellStops(out, {i}) ELSE out
      BY <1>2, <1>5 DEF PartStops, PartDone
    <2>2. out'.text = out.text
      BY <1>3, <2>1, TellStopsIs
    <2> QED
      BY <1>1, <1>4, <1>5, <2>2, PartsGoOn DEF Whole
  <1>6. CASE ~ToMessages
    <2>1. PICK e : e = EnsurePart(EnsureHead(out, usage), i)
      OBVIOUS
    <2>2. /\ out' = IF i \in started \ open THEN e ELSE TellStops(e, {i})
          /\ started' = started \cup {i}
      BY <1>2, <1>6, <2>1 DEF PartStops, BlockStops
    <2>3. OutType(e) /\ e.text = out.text /\ ~e.ended
      BY <1>1, <1>3, <2>1, PartIsTold
    <2>4. out'.text = out.text /\ ~out'.ended
      BY <1>3, <2>2, <2>3, TellStopsIs
    <2>5. up.next = i + 1 /\ i \in Nat /\ (i + 1) - 1 = i
      BY <1>1, <1>2, <1>3, <1>6 DEF Whole, Index
    <2>6. Reached' = i + 1
      BY <1>4, <2>5 DEF Reached
    <2>7. started = 0 .. i - 1 \/ started = 0 .. i
      BY <1>1, <1>6, <2>5 DEF Whole, Reached
    <2>8. started' = 0 .. i
      BY <2>2, <2>5, <2>7
    <2>9. started' = 0 .. Reached' - 1
      BY <2>5, <2>6, <2>8
    <2>10. \A j \in Index : text'[j] # <<>> => j \in started'
      BY <1>1, <1>6, <2>2 DEF Whole
    <2> QED
      BY <1>1, <1>4, <2>4, <2>9, <2>10, PartsGoOn DEF Whole
  <1> QED
    BY <1>5, <1>6

LEMMA MessageStopKeepsWhole == IInv /\ Whole /\ MessageStop => Whole'
  <1> SUFFICES ASSUME IInv, Whole, MessageStop PROVE Whole'
    OBVIOUS
  <1>1. /\ Streams /\ ~ToMessages /\ UNCHANGED <<call, started, text>>
        /\ up' = [up EXCEPT !.said = "all"]
        /\ out' = TellEnd(TellStops(EnsureHead(out, usage), open), usage,
                          FinalContent)
    BY DEF MessageStop, Unanswered
  <1>2. /\ UpType(up) /\ OutType(out) /\ usage \in Usage
        /\ open \in SUBSET Index
    BY <1>1, StreamingIs DEF IInv, Typed
  <1>3. /\ up'.part = up.part /\ up'.kind = up.kind /\ up'.next = up.next
        /\ up'.text = up.text /\ up'.said # "answer"
    BY <1>1, <1>2 DEF UpType
  <1>4. PICK h, s : h = EnsureHead(out, usage) /\ s = TellStops(h, open)
    OBVIOUS
  <1>5. OutType(h) /\ h.text = out.text
    BY <1>2, <1>4, TellHeadIs
  <1>6. OutType(s) /\ s.text = h.text
    BY <1>2, <1>4, <1>5, TellStopsIs
  <1>7. out'.text = out.text /\ out'.final = FinalContent
    BY <1>1, <1>2, <1>4, <1>5, <1>6, TellEndIs
  <1>8. FinalContent' = FinalContent /\ Reached' = Reached
    BY <1>1, <1>3 DEF FinalContent, Reached
  <1> QED
    BY <1>1, <1>3, <1>7, <1>8, PartsGoOn DEF Whole

LEMMA WholeKeeps == IInv /\ Sent /\ Whole /\ [Next]_vars => Whole'
  <1> SUFFICES ASSUME IInv, Sent, Whole, [Next]_vars PROVE Whole'
    OBVIOUS
  <1>1. CASE PrepareExchange \/ AdaptFails \/ AdaptStream \/ Deliver
    BY <1>1, StageKeepsWhole
  <1>2. CASE AdaptJSON
    BY <1>2, AdaptJSONKeepsWhole
  <1>3. CASE Event
    <2>1. CASE \/ \E r \in Usages : StreamBegins(r)
               \/ StreamFails \/ StreamStops
               \/ ItemStarts \/ ItemStops \/ ItemCalls
               \/ \E r \in Usages : ResponseCompleted(r)
               \/ \E r \in Usages : MessageDelta(r)
      BY <2>1, OtherEventsKeepWhole
    <2>2. CASE \E i \in Index, kind \in {"text", "call", "other"} :
                 PartStarts(i, kind)
      BY <2>2, PartStartsKeepsWhole
    <2>3. CASE TextDelta
      BY <2>3, TextDeltaKeepsWhole
    <2>4. CASE PartStops
      BY <2>4, PartStopsKeepsWhole
    <2>5. CASE MessageStop
      BY <2>5, MessageStopKeepsWhole
    <2> QED
      BY <1>3, <2>1, <2>2, <2>3, <2>4, <2>5 DEF Event
  <1>4. CASE UNCHANGED vars
    <2>1. UNCHANGED <<call, up, started, text, out>>
      BY <1>4 DEF vars, converter
    <2> QED
      BY <2>1, TextsStay
  <1> QED
    BY <1>1, <1>2, <1>3, <1>4 DEF Next

LEMMA WholeStarts == Init => Whole
  <1> SUFFICES ASSUME Init PROVE Whole
    OBVIOUS
  <1>1. /\ started = {} /\ text = NoText /\ up.text = NoText
        /\ up.part = NoPart /\ up.next = 0 /\ up.said = "nothing"
        /\ out.text = NoText /\ ~out.ended
    BY DEF Init
  <1>2. Reached = 0
    BY <1>1 DEF Reached
  <1>3. 0 .. Reached - 1 = {}
    BY <1>2
  <1>4. \A i \in Index : NoText[i] = <<>>
    BY DEF NoText
  <1> QED
    BY <1>1, <1>3, <1>4 DEF Whole

LEMMA WholeAlways == Spec => []Whole
  BY Invariant, SentAlways, WholeStarts, WholeKeeps, PTL DEF Spec

\* The text of every part reaches the client whole and in order, in the
\* deltas and in the finished item, for any number of parts and deltas.
THEOREM TextsArrive == Spec => []TextArrives
  <1>1. IInv /\ Whole => TextArrives
    <2> SUFFICES ASSUME IInv, Whole PROVE TextArrives
      OBVIOUS
    <2>1. ASSUME out.ended, ~ToMessages, NEW i \in Index, up.text[i] # <<>>
          PROVE  i + 1 \in DOMAIN out.final /\ out.final[i + 1] = up.text[i]
      <3>1. /\ out.final = FinalContent /\ text = up.text
            /\ i \in started /\ started = 0 .. Reached - 1
        BY <2>1 DEF Whole
      <3>2. Reached \in Nat
        <4>1. up.next \in Nat /\ up.part \in Index \cup {NoPart}
          BY DEF IInv, Typed, UpType
        <4>2. up.part # NoPart => up.next = up.part + 1 /\ up.part \in Nat
          BY <2>1, <4>1 DEF Whole, Index
        <4> QED
          BY <4>1, <4>2 DEF Reached
      <3>3. /\ DOMAIN FinalContent = 1 .. Reached
            /\ FinalContent[i + 1] = text[i]
        BY <3>1, <3>2, FinalContentIs
      <3>4. i + 1 \in 1 .. Reached
        BY <3>1, <3>2
      <3> QED
        BY <3>1, <3>3, <3>4
    <2>2. out.text = up.text
      BY DEF Whole
    <2> QED
      BY <2>1, <2>2 DEF TextArrives
  <1> QED
    BY <1>1, Invariant, WholeAlways, PTL

\* A JSON answer of any length says after its conversion what it said before.
THEOREM AnswersSurvive == Spec => []AnswerSurvives
  <1>1. Whole => AnswerSurvives
    <2> SUFFICES ASSUME Whole, up.said = "answer" PROVE AnswerSurvives
      BY DEF AnswerSurvives
    <2>1. CASE ToMessages
      <3>1. /\ up.answer \in OutputAnswer
            /\ out.answer = MessagesAnswer(up.answer)
        BY <2>1, AnswersAssumption DEF Whole
      <3> QED
        BY <2>1, <3>1, MessagesAnswerSays DEF AnswerSurvives
    <2>2. CASE ~ToMessages
      <3>1. /\ up.answer \in Seq(MessagesBlock)
            /\ out.answer = ResponsesAnswer(up.answer)
        BY <2>2, AnswersAssumption DEF Whole
      <3> QED
        BY <2>2, <3>1, ResponsesAnswerSays DEF AnswerSurvives
    <2> QED
      BY <2>1, <2>2
  <1> QED
    BY <1>1, WholeAlways, PTL
=============================================================================
