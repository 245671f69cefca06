------------------------------ MODULE Exchange ------------------------------
(***************************************************************************)
(* One attempt at a backend that may speak another protocol than the       *)
(* client: PrepareExchange converts the request, the response is read to   *)
(* its end and converted, as one JSON body or event by event, and the      *)
(* token counts of the converted response go to the usage log.             *)
(*                                                                         *)
(* The upstream is external.  It keeps to the grammar of its protocol      *)
(* (parts of an item are announced, filled and done one after the other),  *)
(* but may leave out the first event or the end of a part, report usage or *)
(* not, fail, or stop anywhere.  A delta is the number of its place in the *)
(* stream, so that a text is the sequence of its deltas.                   *)
(*                                                                         *)
(* Content blocks of Messages and content parts of Responses are both      *)
(* called parts here.  ToMessages tells which converter runs: from a       *)
(* Responses stream to a Messages stream, or back.                         *)
(***************************************************************************)
EXTENDS Integers, FiniteSets, Conversation

CONSTANTS
  Calls,       \* what clients send: [path, protocol, stream, request]
  Answers,     \* JSON contents by the upstream's protocol
  Usages,      \* usage objects of an upstream, NoUsage among them
  MaxIndex,    \* parts of an item are 0 .. MaxIndex
  MaxDeltas,   \* text deltas in a stream
  MaxItems,    \* message items in a Responses stream
  MaxCalls     \* tool calls in a stream

ASSUME BoundsAssumption ==
  MaxIndex \in Nat /\ MaxDeltas \in Nat /\ MaxItems \in Nat /\ MaxCalls \in Nat

\* Token counts: written to the cache, read from it, beside or within the
\* input.
Usage == [input : Nat, written : Nat, read : Nat, output : Nat]

ASSUME UsagesAssumption == Usages \subseteq Usage

Protocols == {"openai", "anthropic", "both"}

Requests(bodies, choices) ==
  [body : bodies, keys : SUBSET STRING, blank : BOOLEAN, choice : choices]
MessagesRequest ==
  Requests(Seq(MessagesMessage), {"auto", "any", "none", "tool"})
ResponsesRequest ==
  Requests(Seq(ResponsesItem), {"auto", "required", "none", "function"})

VARIABLES
  call,     \* the client's request and the protocol of the backend
  stage,    \* where the attempt is
  sent,     \* what the upstream gets
  up,       \* what the upstream has said so far
  head,     \* messageStarted; created and itemAdded
  started,  \* the blocks with started set
  open,     \* the blocks with open set
  text,     \* the text of each block
  usage,    \* state.usage of the converter to Responses
  out       \* the events the converter has appended, as their reader sees them

converter == <<head, started, open, text, usage, out>>
vars == <<call, stage, sent, up, converter>>

Index == 0 .. MaxIndex
NoPart == -1
NoUsage == [input |-> 0, written |-> 0, read |-> 0, output |-> 0]

-----------------------------------------------------------------------------
(* Which way a request goes.                                               *)

Endpoint(path) ==
  CASE path \in {"/v1/messages", "/v1/messages/count_tokens"} -> "messages"
    [] path = "/v1/responses" -> "responses"
    [] OTHER -> "other"

\* Mutated form: "both" is taken for OpenAI on every path.
ProtocolIgnoringPath(protocol, path) ==
  IF protocol # "both" THEN protocol ELSE "openai"

EffectiveProtocol(protocol, path) ==
  IF protocol # "both" THEN protocol
  ELSE IF Endpoint(path) = "messages" THEN "anthropic" ELSE "openai"

\* A request is one of the protocol its path belongs to.
ASSUME CallsAssumption ==
  \A c \in Calls :
    /\ c.protocol \in Protocols
    /\ Endpoint(c.path) = "messages" => c.request \in MessagesRequest
    /\ Endpoint(c.path) = "responses" => c.request \in ResponsesRequest

ASSUME AnswersAssumption ==
  /\ Answers["messages"] \subseteq Seq(MessagesBlock)
  /\ Answers["responses"] \subseteq OutputAnswer

ToMessages == Endpoint(call.path) = "messages"

Converts ==
  \/ ToMessages /\ EffectiveProtocol(call.protocol, call.path) = "openai"
  \/ /\ Endpoint(call.path) = "responses"
     /\ EffectiveProtocol(call.protocol, call.path) = "anthropic"

\* A request that is not converted keeps its path and its body.
Prepared ==
  CASE Converts /\ ToMessages ->
         [path |-> "/v1/responses",
          request |-> MessagesToResponsesRequest(call.request)]
    [] Converts /\ ~ToMessages ->
         [path |-> "/v1/messages",
          request |-> ResponsesToMessagesRequest(call.request)]
    [] OTHER -> [path |-> call.path, request |-> call.request]

-----------------------------------------------------------------------------
(* Token counts.                                                           *)

\* Anthropic counts cached tokens beside the input, OpenAI within it.
Normalized(reported) ==
  LET cache == reported.written + reported.read
  IN  [input |-> reported.input + IF ToMessages THEN 0 ELSE cache,
       cache |-> cache, output |-> reported.output]

Merged(base, next) ==
  [field \in DOMAIN base |->
     IF next[field] > base[field] THEN next[field] ELSE base[field]]

-----------------------------------------------------------------------------
(* What the converter appends, and what a reader of it has then been told. *)

Log(o, reported) == [o EXCEPT !.logged = Merged(@, Normalized(reported))]

\* Mutated form: the first event leaves the usage out.
TellHeadUncounted(o, reported) == [o EXCEPT !.heads = @ + 1]

TellHead(o, reported) == Log([o EXCEPT !.heads = @ + 1], reported)

TellStart(o, i) ==
  [o EXCEPT !.starts[i] = @ + 1, !.reading = @ \cup {i}]

TellDelta(o, i, delta) ==
  [o EXCEPT !.text[i] = Append(@, delta), !.stray = @ \/ i \notin o.reading]

TellStops(o, parts) ==
  [o EXCEPT !.stops = [i \in Index |-> @[i] + IF i \in parts THEN 1 ELSE 0],
            !.reading = @ \ parts]

TellEnd(o, reported, final) ==
  Log([o EXCEPT !.ended = TRUE, !.final = final], reported)

EnsureHead(o, reported) == IF head THEN o ELSE TellHead(o, reported)
EnsurePart(o, i) == IF i \in started THEN o ELSE TellStart(o, i)

\* Mutated form: a part is not remembered as started.
HeadAndPartForgotten(i) ==
  head' = TRUE /\ open' = open \cup {i} /\ UNCHANGED started

\* Mutated form: parts are remembered by their number counted from 1.
HeadAndPartFromOne(i) ==
  /\ head' = TRUE
  /\ started' = started \cup {i + 1}
  /\ open' = open \cup ({i + 1} \ started)

\* Both in the converter's state: the first event and the start of part i.
HeadAndPart(i) ==
  /\ head' = TRUE
  /\ started' = started \cup {i}
  /\ open' = open \cup ({i} \ started)

\* The content of buildResponsesOutputItem: the parts by increasing index.
FinalContent ==
  [k \in 1 .. Cardinality(started) |->
     text[CHOOSE i \in started : Cardinality({j \in started : j < i}) = k - 1]]

-----------------------------------------------------------------------------

NoTokens == [input |-> 0, cache |-> 0, output |-> 0]
NoText == [i \in Index |-> <<>>]

Init ==
  /\ call \in Calls
  /\ stage = "preparing"
  /\ sent = [path |-> "", request |-> <<>>]
  /\ up = [item |-> ~ToMessages, items |-> IF ToMessages THEN 0 ELSE 1,
           part |-> NoPart, kind |-> "text", next |-> 0, deltas |-> 0,
           calls |-> 0, said |-> "nothing", usage |-> NoTokens,
           counted |-> FALSE, text |-> NoText, answer |-> <<>>]
  /\ head = FALSE
  /\ started = {}
  /\ open = {}
  /\ text = NoText
  /\ usage = NoUsage
  /\ out = [heads |-> 0, starts |-> [i \in Index |-> 0],
            stops |-> [i \in Index |-> 0], reading |-> {}, text |-> NoText,
            stray |-> FALSE, ended |-> FALSE, failed |-> FALSE,
            final |-> <<>>, logged |-> NoTokens, answer |-> <<>>]

PrepareExchange ==
  /\ stage = "preparing"
  /\ sent' = Prepared
  /\ stage' = IF Converts THEN "calling" ELSE "relayed"
  /\ UNCHANGED <<call, up, converter>>

-----------------------------------------------------------------------------
(* The response.                                                           *)

\* An answer that is no JSON object, or a body that breaks off, is an error
\* and nothing of it reaches the client; so is an event stream nobody asked
\* for.
AdaptFails ==
  /\ stage \in {"calling", "converting"}
  /\ stage' = "failed"
  /\ UNCHANGED <<call, sent, up, converter>>

AdaptJSON ==
  /\ stage = "calling"
  /\ \E answer \in Answers[Endpoint(sent.path)], reported \in Usages :
       /\ up' = [up EXCEPT !.answer = answer, !.said = "answer",
                           !.usage = Normalized(reported)]
       /\ out' = Log([out EXCEPT !.answer =
                        IF ToMessages THEN MessagesAnswer(answer)
                        ELSE ResponsesAnswer(answer)], reported)
  /\ stage' = "delivered"
  /\ UNCHANGED <<call, sent, head, started, open, text, usage>>

AdaptStream ==
  /\ stage = "calling"
  /\ call.stream
  /\ stage' = "converting"
  /\ UNCHANGED <<call, sent, up, converter>>

\* The stream goes on.
Streams == stage = "converting" /\ up.said \in {"nothing", "something"}

Upstream(said) == up' = [said EXCEPT !.said = "something"]

Unanswered == UNCHANGED <<call, stage, sent>>

-----------------------------------------------------------------------------
(* Events of either stream.                                                *)

\* response.created; message_start.
StreamBegins(reported) ==
  /\ Streams
  /\ up.said = "nothing"
  /\ Upstream([up EXCEPT !.usage = Merged(@, Normalized(reported))])
  /\ out' = EnsureHead(out, reported)
  /\ head' = TRUE
  /\ usage' = IF ToMessages THEN usage ELSE reported
  /\ UNCHANGED <<started, open, text>>
  /\ Unanswered

\* response.content_part.added; content_block_start.  A part that is no text
\* is passed over.
PartStarts(i, kind) ==
  /\ Streams
  /\ up.item /\ up.part = NoPart /\ up.next = i
  /\ kind = "call" => ~ToMessages /\ up.calls < MaxCalls
  /\ Upstream([up EXCEPT !.part = i, !.kind = kind, !.next = i + 1,
                 !.calls = IF kind = "call" THEN @ + 1 ELSE @])
  /\ IF kind = "text"
     THEN /\ out' = EnsurePart(EnsureHead(out, usage), i)
          /\ HeadAndPart(i)
     ELSE UNCHANGED <<out, head, started, open>>
  /\ UNCHANGED <<text, usage>>
  /\ Unanswered

\* response.output_text.delta; content_block_delta with a text_delta.
TextDelta ==
  /\ Streams
  /\ up.part # NoPart /\ up.kind = "text" /\ up.deltas < MaxDeltas
  /\ LET i == up.part
         delta == up.deltas + 1
     IN  /\ Upstream([up EXCEPT !.deltas = delta,
                                !.text[i] = Append(@, delta)])
         /\ out' = TellDelta(EnsurePart(EnsureHead(out, usage), i), i, delta)
         /\ HeadAndPart(i)
         /\ text' = [text EXCEPT ![i] = Append(@, delta)]
  /\ UNCHANGED usage
  /\ Unanswered

\* response.content_part.done: a part that is not open is not closed.
PartDone(i) ==
  /\ out' = IF i \in open THEN TellStops(out, {i}) ELSE out
  /\ open' = open \ {i}
  /\ UNCHANGED <<head, started>>

\* content_block_stop starts the part first when it has not been started, a
\* tool_use block's for one.
BlockStops(i) ==
  /\ out' = LET begun == EnsurePart(EnsureHead(out, usage), i)
            IN  IF i \in started \ open THEN begun
                ELSE TellStops(begun, {i})
  /\ head' = TRUE
  /\ started' = started \cup {i}
  /\ open' = open \ {i}

PartStops ==
  /\ Streams
  /\ up.part # NoPart
  /\ Upstream([up EXCEPT !.part = NoPart])
  /\ IF ToMessages THEN PartDone(up.part) ELSE BlockStops(up.part)
  /\ UNCHANGED <<text, usage>>
  /\ Unanswered

\* response.failed, error.
StreamFails ==
  /\ Streams
  /\ up' = [up EXCEPT !.said = "failure"]
  /\ out' = [out EXCEPT !.failed = TRUE]
  /\ UNCHANGED <<head, started, open, text, usage>>
  /\ Unanswered

\* The connection ends between two events, or the last one is
\* response.incomplete, which no case names.
StreamStops ==
  /\ Streams
  /\ up' = [up EXCEPT !.said = "broken"]
  /\ UNCHANGED converter
  /\ Unanswered

-----------------------------------------------------------------------------
(* Events of a Responses stream.                                           *)

\* response.output_item.added of a message: its parts count from 0 again.
ItemStarts ==
  /\ Streams /\ ToMessages
  /\ ~up.item /\ up.items < MaxItems
  /\ Upstream([up EXCEPT !.item = TRUE, !.items = @ + 1, !.next = 0])
  /\ UNCHANGED converter
  /\ Unanswered

\* response.output_item.done: no case names it.
ItemStops ==
  /\ Streams /\ ToMessages
  /\ up.item /\ up.part = NoPart
  /\ Upstream([up EXCEPT !.item = FALSE])
  /\ UNCHANGED converter
  /\ Unanswered

\* A function_call item: no case names its events but the first, which only
\* looks for a role.
ItemCalls ==
  /\ Streams /\ ToMessages
  /\ ~up.item /\ up.calls < MaxCalls
  /\ Upstream([up EXCEPT !.calls = @ + 1])
  /\ UNCHANGED converter
  /\ Unanswered

\* Mutated form: open blocks are left open.
CompletedLeavingOpen(reported) ==
  /\ out' = TellEnd(EnsureHead(out, reported), reported, <<>>)
  /\ head' = TRUE
  /\ UNCHANGED open

\* response.completed: message_start if it is missing, a stop for each open
\* block, message_delta with the usage, message_stop.
Completed(reported) ==
  /\ out' = TellEnd(TellStops(EnsureHead(out, reported), open), reported, <<>>)
  /\ head' = TRUE
  /\ open' = {}

ResponseCompleted(reported) ==
  /\ Streams /\ ToMessages
  /\ up' = [up EXCEPT !.said = "all",
                      !.usage = Merged(@, Normalized(reported))]
  /\ Completed(reported)
  /\ UNCHANGED <<started, text, usage>>
  /\ Unanswered

-----------------------------------------------------------------------------
(* Events of a Messages stream.                                            *)

\* message_delta, which an upstream sends once: its counts replace those of
\* message_start.
MessageDelta(reported) ==
  /\ Streams /\ ~ToMessages
  /\ reported # NoUsage /\ ~up.counted
  /\ Upstream([up EXCEPT !.counted = TRUE,
                         !.usage = Merged(@, Normalized(reported))])
  /\ usage' = reported
  /\ UNCHANGED <<head, started, open, text, out>>
  /\ Unanswered

\* message_stop: what is missing of the head, the end of each open part, the
\* finished item and response.completed.
MessageStop ==
  /\ Streams /\ ~ToMessages
  /\ up' = [up EXCEPT !.said = "all"]
  /\ out' = TellEnd(TellStops(EnsureHead(out, usage), open), usage,
                    FinalContent)
  /\ head' = TRUE
  /\ open' = {}
  /\ UNCHANGED <<started, text, usage>>
  /\ Unanswered

-----------------------------------------------------------------------------

\* The converted stream is complete: logged and written to the client.
Deliver ==
  /\ stage = "converting" /\ ~Streams
  /\ stage' = "delivered"
  /\ UNCHANGED <<call, sent, up, converter>>

Event ==
  \/ \E reported \in Usages : StreamBegins(reported)
  \/ \E i \in Index, kind \in {"text", "call", "other"} : PartStarts(i, kind)
  \/ TextDelta \/ PartStops \/ StreamFails \/ StreamStops
  \/ ItemStarts \/ ItemStops \/ ItemCalls
  \/ \E reported \in Usages : ResponseCompleted(reported)
  \/ \E reported \in Usages : MessageDelta(reported)
  \/ MessageStop

Next ==
  \/ PrepareExchange \/ AdaptFails \/ AdaptJSON \/ AdaptStream
  \/ Event \/ Deliver

Spec == Init /\ [][Next]_vars

-----------------------------------------------------------------------------

Tokens == [input : Nat, cache : Nat, output : Nat]

TypeOK ==
  /\ stage \in {"preparing", "relayed", "calling", "converting", "delivered",
               "failed"}
  /\ head \in BOOLEAN
  /\ started \subseteq Index /\ open \subseteq Index
  /\ text \in [Index -> Seq(1 .. MaxDeltas)]
  /\ usage \in Usages \cup {NoUsage}
  /\ up.said \in {"nothing", "something", "all", "failure", "broken",
                 "answer"}
  /\ up.part \in Index \cup {NoPart} /\ up.usage \in Tokens
  /\ out.heads \in Nat /\ out.logged \in Tokens
  /\ out.starts \in [Index -> Nat] /\ out.stops \in [Index -> Nat]
  /\ out.reading \subseteq Index

\* What a converted request says: the same turns, calls and results in the
\* same order and by the same speakers, its members under the names of the
\* other protocol, at a path the backend's protocol has
\* (PrepareExchange, ConvertMessagesToResponsesRequest and its inverse).
RequestSurvives ==
  stage \notin {"preparing", "relayed"} =>
    LET request == sent.request
        names == IF ToMessages THEN MessagesToResponsesKey
                 ELSE ResponsesToMessagesKey
    IN  /\ Endpoint(sent.path) # Endpoint(call.path)
        /\ EffectiveProtocol(call.protocol, sent.path) =
             IF ToMessages THEN "openai" ELSE "anthropic"
        /\ DOMAIN names \cap request.keys = {}
        /\ IF ToMessages
           THEN /\ ConversationOf(call.request.body) =
                     ConversationOfItems(request.body)
                /\ AnthropicChoice(request.choice) = call.request.choice
           ELSE /\ ConversationOfItems(call.request.body) =
                     ConversationOf(request.body)
                /\ ResponsesChoice(request.choice) = call.request.choice

\* A part is started and stopped at most once, in this order and after the
\* one first event.  Text outside of an open part comes only from a second
\* message of the upstream, whose parts are numbered from 0 again
\* (ensureAnthropicContentBlockStart, ensureResponsesContentPartAdded).
PartsNest ==
  /\ out.heads <= 1
  /\ \A i \in Index :
       /\ out.stops[i] <= out.starts[i] /\ out.starts[i] <= 1
       /\ out.starts[i] = 1 => out.heads = 1
  /\ out.stray => up.items > 1

\* The text of every part reaches the client whole and in order, in the
\* deltas and again in the finished item, where part i is the i-th entry
\* (ensureBlock, buildResponsesOutputItem).
TextArrives ==
  /\ out.text = up.text
  /\ out.ended /\ ~ToMessages =>
       \A i \in Index : up.text[i] # <<>> =>
         i + 1 \in DOMAIN out.final /\ out.final[i + 1] = up.text[i]

\* A JSON answer keeps what it says.  A Messages client gets the texts, the
\* calls with their arguments and all else in the upstream's order, but for
\* blank texts, and the output_text of an answer without items; a Responses client gets the texts (ToolCallsArrive is about
\* its calls).
AnswerSurvives ==
  up.said = "answer" =>
    IF ToMessages THEN MessageSpeech(out.answer) = AnswerSpeech(up.answer)
    ELSE ItemTexts(out.answer) = MessageTexts(up.answer)

\* A delivered stream ends the way the upstream's did: message_stop or
\* response.completed when the upstream's came, with every part that was
\* started stopped, an error when the upstream failed, neither when its
\* stream broke off.
EndsAsUpstream ==
  stage = "delivered" /\ up.said # "answer" =>
    /\ out.ended <=> up.said = "all"
    /\ out.failed <=> up.said = "failure"
    /\ out.ended => out.heads = 1 /\ out.starts = out.stops

\* The token counts logged from a converted response are those the upstream
\* reported over the whole of its own, although message_delta's usage takes
\* the place of message_start's (extractNormalizedTokenUsage).
TokensLogged ==
  stage = "delivered" /\ (out.ended \/ up.said = "answer") =>
    out.logged = up.usage

CallsOf(content) ==
  Cardinality({k \in DOMAIN content :
                 content[k].type = IF ToMessages THEN "tool_use"
                                   ELSE "function_call"})

\* What the documents say of the conversion, that it covers tool calls in
\* JSON responses and in event streams: an exchange that ended well hands
\* the client every call of the upstream in the client's own protocol.  No
\* event of a call is converted in a stream, and a tool_use block of a JSON
\* answer is copied into the content of a Responses message as it is.
ToolCallsArrive ==
  stage = "delivered" =>
    /\ up.said = "answer" /\ ~ToMessages =>
         CallsOf(out.answer) =
           Cardinality({k \in DOMAIN up.answer :
                          up.answer[k].type = "tool_use"})
    /\ out.ended => up.calls = 0
=============================================================================
