----------------------------- MODULE MCExchange -----------------------------
(* Values for the CONSTANTS of Exchange that a .cfg cannot write.          *)
EXTENDS Exchange

Result == {Block("tool_result", content) : content \in
             {Text("done"), List(<<Block("text", "done")>>),
              List(<<Block("text", "done"), Block("other", "image")>>)}}

MessagesBlocks ==
  {Block("text", "hello"), Block("text", ""), Block("other", "image"),
   Block("tool_use", "get")} \cup Result

MessagesContents ==
  {Text("hello"), Text(" ")} \cup {List(bs) : bs \in SeqOf(MessagesBlocks, 2)}
  \cup {List(<<Block("text", "hello"), b, Block("text", "bye")>>) :
          b \in MessagesBlocks}

SomeMessages ==
  [role : {"user", "assistant"}, content : MessagesContents]

ShortMessages ==
  [role : {"user", "assistant"},
   content : {Text("hello"), List(<<>>), List(<<Block("tool_use", "get")>>),
              List(<<Block("text", "a"), CHOOSE r \in Result : TRUE>>)}]

MessagesBodies == SeqOf(SomeMessages, 1) \cup SeqOf(ShortMessages, 3)

ResponsesContents ==
  {Text("hello"), Text(" "), List(<<>>), List(<<Block("input_text", "a")>>),
   List(<<Block("output_text", "a"), Block("other", "image")>>)}

ResponsesItems ==
  [type : {"message"}, role : {"user", "assistant"},
   content : ResponsesContents]
  \cup [type : {"reasoning"}, role : {"user"},
        content : {List(<<Block("other", "why")>>)}]
  \cup [type : {"input_text"}, role : {"user"}, value : {"", "a"}]
  \cup {Block("string", "a"), Block("reasoning", "why"),
        Block("function_call", "get"), Block("function_call", "invalid")}
  \cup {Block("function_call_output", content) : content \in
          {Text("done"), List(<<Block("input_text", "done")>>)}}

ResponsesBodies == SeqOf(ResponsesItems, 3)

Request(body, keys, blank, choice) ==
  [body |-> body, keys |-> keys, blank |-> blank, choice |-> choice]

MessagesKeys ==
  {"messages", "system", "max_tokens", "stop_sequences", "thinking", "top_k",
   "model"}
ResponsesKeys ==
  {"input", "instructions", "max_output_tokens", "stop", "model"}

OneMessage ==
  <<[role |-> "user", content |-> Text("hello")]>>

MessagesRequests ==
  {Request(body, MessagesKeys, FALSE, "any") : body \in MessagesBodies}
  \cup {Request(OneMessage, MessagesKeys, blank, choice) :
          blank \in BOOLEAN, choice \in {"auto", "any", "none", "tool"}}

ResponsesRequests ==
  {Request(body, ResponsesKeys, FALSE, "required") : body \in ResponsesBodies}
  \cup {Request(<<Block("string", "hello")>>, ResponsesKeys, blank, choice) :
          blank \in BOOLEAN,
          choice \in {"auto", "required", "none", "function"}}

Call(path, protocol, stream, request) ==
  [path |-> path, protocol |-> protocol, stream |-> stream,
   request |-> request]

\* Every conversation with one backend of the other protocol; every path,
\* protocol and stream flag with one conversation.
AllCalls ==
  {Call("/v1/messages", "openai", FALSE, r) : r \in MessagesRequests}
  \cup {Call("/v1/responses", "anthropic", FALSE, r) : r \in ResponsesRequests}
  \cup {Call(path, protocol, stream,
             Request(OneMessage, MessagesKeys, FALSE, "auto")) :
          path \in {"/v1/messages", "/v1/messages/count_tokens",
                    "/v1/chat/completions"},
          protocol \in {"openai", "anthropic", "both"}, stream \in BOOLEAN}
  \cup {Call("/v1/responses", protocol, stream,
             Request(<<Block("string", "hello")>>, ResponsesKeys, FALSE,
                     "auto")) :
          protocol \in {"openai", "anthropic", "both"}, stream \in BOOLEAN}

JSONAnswers ==
  [messages |-> SeqOf({Block("text", "a"), Block("text", "b"),
                       Block("tool_use", "get")}, 2),
   responses |->
     [output : SeqOf(
        [type : {"message"}, role : {"assistant"},
         content : {List(<<Block("output_text", "a"),
                           Block("other", "image")>>),
                    List(<<Block("output_text", " ")>>), Text(" ")}]
        \cup {Block("output_text", "b"), Block("text", " "),
              Block("reasoning", "why"), Block("function_call", "get"),
              Block("function_call", "invalid")}, 2),
      text : {"", "c"}]]

\* Nothing; the input of a message, part of it cached; its output alone; both.
Reports ==
  {NoUsage,
   [input |-> 3, written |-> 0, read |-> 2, output |-> 0],
   [input |-> 0, written |-> 0, read |-> 0, output |-> 4],
   [input |-> 3, written |-> 0, read |-> 2, output |-> 4]}
=============================================================================
