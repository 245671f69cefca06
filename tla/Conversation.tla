---------------------------- MODULE Conversation ----------------------------
(***************************************************************************)
(* The conversions of translate.go between an Anthropic Messages body and  *)
(* an OpenAI Responses body, for requests and for JSON responses.          *)
(*                                                                         *)
(* A text is a string, and "" and " " are the blank ones.  A content is a  *)
(* string or a list of blocks.  A block keeps its type and one value: the  *)
(* text, what identifies a call and carries its input, or the content of a *)
(* tool's result.  "other" stands for the types no conversion names.       *)
(***************************************************************************)
EXTENDS SequencesExt

IsBlank(text) == text \in {"", " "}

Text(text) == [form |-> "string", text |-> text]
List(blocks) == [form |-> "list", blocks |-> blocks]
Block(type, value) == [type |-> type, value |-> value]
Message(role, blocks) == [role |-> role, content |-> List(blocks)]

MapSeq(Op(_), seq) == [k \in DOMAIN seq |-> Op(seq[k])]

(* What either protocol can say. *)
Roles == {"user", "assistant"}
Plain(types) == [type : types, value : STRING]
Contents(blocks) ==
  [form : {"string"}, text : STRING] \cup [form : {"list"}, blocks : Seq(blocks)]

MessagesBlock ==
  Plain({"text", "tool_use", "other"})
  \cup [type : {"tool_result"}, value : Contents(Plain({"text", "other"}))]
MessagesMessage == [role : Roles, content : Contents(MessagesBlock)]

ResponsesBlock == Plain({"input_text", "output_text", "text", "other"})
Contentful(types) ==
  [type : types, role : Roles, content : Contents(ResponsesBlock)]
ResponsesMessage == Contentful({"message"})

\* A reasoning item may have content, and so may items of other types.
ResponsesItem ==
  Contentful({"message", "reasoning", "other"})
  \cup [type : {"input_text"}, role : Roles, value : STRING]
  \cup Plain({"string", "reasoning", "function_call"})
  \cup [type : {"function_call_output"}, value : Contents(ResponsesBlock)]

\* An item of an answer.  What is in a reasoning item is not told apart.
OutputItem ==
  ResponsesMessage
  \cup Plain({"output_text", "text", "reasoning", "function_call"})

\* An answer: its items, and its output_text without the blanks around it.
OutputAnswer == [output : Seq(OutputItem), text : STRING]

-----------------------------------------------------------------------------
(* Messages to Responses.                                                  *)

InputBlock(block) ==
  CASE block.type = "text" -> <<Block("input_text", block.value)>>
    [] block.type \in {"tool_use", "tool_result"} -> <<>>
    [] OTHER -> <<block>>

InputBlocks(content) ==
  IF content.form = "list"
  THEN FlattenSeq(MapSeq(InputBlock, content.blocks))
  ELSE IF IsBlank(content.text) THEN <<>>
       ELSE <<Block("input_text", content.text)>>

\* A result that is one text becomes a string.
CallOutput(content) ==
  IF content.form = "string" THEN content
  ELSE IF Len(content.blocks) = 1 /\ content.blocks[1].type = "text"
       THEN Text(content.blocks[1].value)
       ELSE List(InputBlocks(content))

CallItem(block) ==
  IF block.type = "tool_use" THEN Block("function_call", block.value)
  ELSE Block("function_call_output", CallOutput(block.value))

\* appendMessage: what was gathered becomes an item, nothing becomes none.
Flushed(role, gathered) ==
  IF gathered.blocks = <<>> THEN gathered.items
  ELSE Append(gathered.items,
              [type |-> "message", role |-> role,
               content |-> List(gathered.blocks)])

\* A call or a result closes the message before it.
Gather(role, gathered, block) ==
  IF block.type \in {"tool_use", "tool_result"}
  THEN [items |-> Append(Flushed(role, gathered), CallItem(block)),
        blocks |-> <<>>]
  ELSE [gathered EXCEPT !.blocks = @ \o InputBlock(block)]

Nothing == [items |-> <<>>, blocks |-> <<>>]

GatheredBlocks(role, blocks) ==
  LET gather(gathered, block) == Gather(role, gathered, block)
  IN  FoldLeft(gather, Nothing, blocks)

MessageItems(message) ==
  LET content == message.content
  IN  Flushed(message.role,
              IF content.form = "string"
              THEN [Nothing EXCEPT !.blocks = InputBlocks(content)]
              ELSE GatheredBlocks(message.role, content.blocks))

ResponsesInput(messages) == FlattenSeq(MapSeq(MessageItems, messages))

-----------------------------------------------------------------------------
(* Responses to Messages.                                                  *)

AnthropicBlock(block) ==
  IF block.type \in {"input_text", "output_text", "text"}
  THEN Block("text", block.value) ELSE block

AnthropicContent(content) ==
  IF content.form = "list" THEN MapSeq(AnthropicBlock, content.blocks)
  ELSE IF IsBlank(content.text) THEN <<>>
       ELSE <<Block("text", content.text)>>

\* Arguments that are no JSON object become an empty one.
ToolUse(item) ==
  Block("tool_use", IF item.value = "invalid" THEN "empty" ELSE item.value)

ToolResult(item) ==
  Block("tool_result",
        IF item.value.form = "string" THEN item.value
        ELSE List(AnthropicContent(item.value)))

\* Mutated form: blocks of a message that is not the last are merged too.
AppendBlocksAnywhere(messages, role, blocks) ==
  LET same == {k \in DOMAIN messages : messages[k].role = role}
  IN  IF blocks = <<>> THEN messages
      ELSE IF same = {} THEN Append(messages, Message(role, blocks))
      ELSE LET k == CHOOSE k \in same : \A j \in same : j <= k
           IN  [messages EXCEPT ![k].content = List(@.blocks \o blocks)]

\* appendAnthropicMessageContent and appendAnthropicContentBlock: blocks of
\* the role that spoke last join its message.
AppendBlocks(messages, role, blocks) ==
  IF blocks = <<>> THEN messages
  ELSE IF messages # <<>> /\ Last(messages).role = role
  THEN [messages EXCEPT ![Len(messages)].content = List(@.blocks \o blocks)]
  ELSE Append(messages, Message(role, blocks))

HasContent(item) == "content" \in DOMAIN item

\* A string is a message of its own; of the items with content only calls and
\* their results are told from a message; an item with neither content nor
\* text is left out.
AddItem(messages, item) ==
  CASE item.type = "string" ->
         Append(messages, Message("user", <<Block("text", item.value)>>))
    [] item.type = "function_call" ->
         AppendBlocks(messages, "assistant", <<ToolUse(item)>>)
    [] item.type = "function_call_output" ->
         AppendBlocks(messages, "user", <<ToolResult(item)>>)
    [] HasContent(item) ->
         AppendBlocks(messages, item.role, AnthropicContent(item.content))
    [] item.type = "input_text" /\ item.value # "" ->
         AppendBlocks(messages, item.role, <<Block("text", item.value)>>)
    [] OTHER -> messages

AnthropicMessages(input) == FoldLeft(AddItem, <<>>, input)

-----------------------------------------------------------------------------
(* The other members of a request.                                         *)

\* Members with a counterpart are renamed, thinking and top_k are dropped,
\* every other one stays.
MessagesToResponsesKey ==
  [messages |-> "input", system |-> "instructions",
   max_tokens |-> "max_output_tokens", stop_sequences |-> "stop"]

ResponsesToMessagesKey ==
  [input |-> "messages", instructions |-> "system",
   max_output_tokens |-> "max_tokens", stop |-> "stop_sequences"]

RenameKeys(names, keys) ==
  {IF key \in DOMAIN names THEN names[key] ELSE key : key \in keys}

\* An Anthropic tool choice and its OpenAI counterpart; one that is neither
\* stays what it is.
ResponsesChoice(choice) ==
  CASE choice = "any" -> "required"
    [] choice = "tool" -> "function"
    [] OTHER -> choice

AnthropicChoice(choice) ==
  CASE choice = "required" -> "any"
    [] choice = "function" -> "tool"
    [] OTHER -> choice

\* A system text that is blank, or an instruction, gets no counterpart.
Unsaid(request) == IF request.blank THEN {"system", "instructions"} ELSE {}

MessagesToResponsesRequest(request) ==
  [body |-> ResponsesInput(request.body),
   keys |-> RenameKeys(MessagesToResponsesKey,
              request.keys \ (Unsaid(request) \cup {"thinking", "top_k"})),
   choice |-> ResponsesChoice(request.choice)]

ResponsesToMessagesRequest(request) ==
  [body |-> AnthropicMessages(request.body),
   keys |-> RenameKeys(ResponsesToMessagesKey,
                       request.keys \ Unsaid(request)),
   choice |-> AnthropicChoice(request.choice)]

-----------------------------------------------------------------------------
(* JSON responses.                                                         *)

\* Mutated form: calls are left out.
OutputItemContentUncalled(item) ==
  CASE item.type = "message" -> AnthropicContent(item.content)
    [] item.type \in {"output_text", "text"} /\ ~IsBlank(item.value) ->
         <<Block("text", item.value)>>
    [] OTHER -> <<>>

OutputItemContent(item) ==
  CASE item.type = "message" -> AnthropicContent(item.content)
    [] item.type = "function_call" -> <<ToolUse(item)>>
    [] item.type \in {"output_text", "text"} /\ ~IsBlank(item.value) ->
         <<Block("text", item.value)>>
    [] OTHER -> <<>>

\* convertResponsesOutputToAnthropicContent.
MessagesContent(output) == FlattenSeq(MapSeq(OutputItemContent, output))

\* The output_text stands in for items that make no content.
MessagesAnswer(answer) ==
  LET content == MessagesContent(answer.output)
  IN  IF content = <<>> /\ answer.text # "" THEN <<Block("text", answer.text)>>
      ELSE content

\* convertAnthropicContentToResponsesOutputContent, in the one message item
\* of the answer: a tool_use block is no text and is copied as it is.
OutputBlock(block) ==
  IF block.type = "text" THEN Block("output_text", block.value) ELSE block

ResponsesAnswer(content) ==
  <<[type |-> "message", role |-> "assistant",
     content |-> List(MapSeq(OutputBlock, content))]>>

-----------------------------------------------------------------------------
(* What a conversation says, whatever protocol it is written in: who says  *)
(* what, in order.                                                         *)

IsTextType(type) == type \in {"text", "input_text", "output_text"}

\* A result that is a single text says what the string says.
Said(content) ==
  IF content.form = "string" THEN content
  ELSE IF Len(content.blocks) = 1 /\ IsTextType(content.blocks[1].type)
       THEN Text(content.blocks[1].value)
       ELSE List(MapSeq(AnthropicBlock, content.blocks))

\* A call is the assistant's and its result the user's.
Saying(role, block) ==
  CASE block.type \in {"tool_use", "function_call"} ->
         <<"assistant", "call",
           IF block.value = "invalid" THEN "empty" ELSE block.value>>
    [] block.type \in {"tool_result", "function_call_output"} ->
         <<"user", "result", Said(block.value)>>
    [] IsTextType(block.type) -> <<role, "text", block.value>>
    [] OTHER -> <<role, block.type, block.value>>

Sayings(role, content) ==
  LET saying(block) == Saying(role, block)
  IN  IF content.form = "list" THEN MapSeq(saying, content.blocks)
      ELSE IF IsBlank(content.text) THEN <<>>
           ELSE <<<<role, "text", content.text>>>>

MessageSayings(message) == Sayings(message.role, message.content)
ItemSayings(item) ==
  CASE HasContent(item) -> Sayings(item.role, item.content)
    [] item.type = "string" -> <<<<"user", "text", item.value>>>>
    [] item.type = "input_text" /\ item.value # "" ->
         <<Saying(item.role, item)>>
    [] item.type \in {"output_text", "text"} -> <<Saying("assistant", item)>>
    [] item.type \in {"function_call", "function_call_output"} ->
         <<Saying("user", item)>>
    [] OTHER -> <<>>

ConversationOf(messages) == FlattenSeq(MapSeq(MessageSayings, messages))
ConversationOfItems(input) == FlattenSeq(MapSeq(ItemSayings, input))

\* What is said, by whomever, but for blank texts.
Spoken(saying) ==
  IF saying[2] = "text" /\ IsBlank(saying[3]) THEN <<>>
  ELSE <<<<saying[2], saying[3]>>>>
Speech(sayings) == FlattenSeq(MapSeq(Spoken, sayings))
MessageSpeech(content) == Speech(Sayings("assistant", List(content)))
ItemSpeech(items) == Speech(ConversationOfItems(items))

\* An item says nothing; of a message, not even a blank text.
IsSilent(item) ==
  IF item.type = "message" THEN ItemSayings(item) = <<>>
  ELSE Speech(ItemSayings(item)) = <<>>

\* What an answer says: what its items say, and if all are silent, what its
\* output_text says.
AnswerSpeech(answer) ==
  IF \A k \in DOMAIN answer.output : IsSilent(answer.output[k])
  THEN Speech(<<<<"assistant", "text", answer.text>>>>)
  ELSE ItemSpeech(answer.output)

\* The texts among sayings that are not blank, in order, and those of a JSON
\* answer.
TextSaid(saying) ==
  IF saying[2] = "text" /\ ~IsBlank(saying[3]) THEN <<saying[3]>> ELSE <<>>
TextsSaid(sayings) == FlattenSeq(MapSeq(TextSaid, sayings))
MessageTexts(content) == TextsSaid(Sayings("assistant", List(content)))
ItemTexts(items) == TextsSaid(ConversationOfItems(items))
=============================================================================
