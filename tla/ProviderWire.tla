---------------------------- MODULE ProviderWire ----------------------------
(***************************************************************************)
(* What the provider clients (cleargate-providers/src) put on the wire and *)
(* read back from it: the request each one builds, the response body each  *)
(* one accepts, and what one line of a streamed answer means to it.        *)
(*                                                                         *)
(* Data is abstracted to what these functions tell apart.  The text of the *)
(* i-th message is the number i and the text of the i-th streamed line is  *)
(* the number i; token counts are numbers; a model name is the sequence of *)
(* its dash-separated parts, a base URL the sequence of its path segments. *)
(* None is an Option without a value; negative texts are not the server's. *)
(***************************************************************************)
EXTENDS Integers, Sequences, SequencesExt

CONSTANT None

Optional(v, default) == IF v = None THEN default ELSE v

--------------------------------------------------------------------------
(* Models and prices.                                                      *)

HasPart(model, parts) == \E i \in 0..(Len(model) - Len(parts)) :
                           SubSeq(model, i + 1, i + Len(parts)) = parts

uses_max_completion_tokens(model) ==
  \/ model[1] \in {"o1", "o3"}
  \/ HasPart(model, <<"gpt", "4", "turbo">>)
  \/ \E family \in {"4o", "4.5", "5"} : HasPart(model, <<"gpt", family>>)
  \/ HasPart(model, <<"chatgpt", "4o">>)

add_model(pricing, entry) ==
  [m \in DOMAIN pricing \cup {entry[1]} |-> IF m = entry[1] THEN entry[2] ELSE pricing[m]]
NoPricing == [m \in {} |-> 0]
OpenAIProvider_new(models) == FoldLeft(add_model, NoPricing, models)
OpenAICompatibleProvider_new(models) == FoldLeft(add_model, NoPricing, models)
AnthropicProvider_new(models) == FoldLeft(add_model, NoPricing, models)
GeminiProvider_new(models) == FoldLeft(add_model, NoPricing, models)
OllamaProvider_new(models) == FoldLeft(add_model, NoPricing, models)
MockProvider_new(models) == FoldLeft(add_model, NoPricing, models)
MockNumChunks(n) == IF n = 0 THEN 20 ELSE n

get_pricing(pricing, model) == IF model \in DOMAIN pricing THEN pricing[model] ELSE None

\* The price per token is one number for prompts and twice it for completions.
calculate_cost(pricing, model, prompt, completion) ==
  IF model \in DOMAIN pricing THEN pricing[model] * prompt + 2 * pricing[model] * completion
                              ELSE None

\* Defect: the suffix is stripped before the full name is looked up.
normalize_model_name_strips(pricing, model) ==
  IF Len(model) > 1 /\ get_pricing(pricing, Front(model)) # None THEN Front(model) ELSE model
normalize_model_name(pricing, model) ==
  IF get_pricing(pricing, model) # None THEN model
  ELSE IF Len(model) > 1 /\ get_pricing(pricing, Front(model)) # None THEN Front(model)
  ELSE model

--------------------------------------------------------------------------
(* Requests.  A message is [role, text, call]: call is the state of the    *)
(* arguments of its tool call, "json", "bad" (not JSON) or None.           *)

Content(role, texts, call) == [role |-> role, texts |-> texts, call |-> call]
\* OpenAI's and compatible APIs receive the Message as it serialises.
Verbatim(m) == Content(m.role, <<m.text>>, m.call)

OpenAIRequest(r, stream) ==
  [contents |-> [i \in DOMAIN r.messages |-> Verbatim(r.messages[i])],
   temperature |-> r.temperature,
   limits |-> IF uses_max_completion_tokens(r.model)
              THEN [max_tokens |-> None, max_completion_tokens |-> r.max_tokens]
              ELSE [max_tokens |-> r.max_tokens, max_completion_tokens |-> None],
   stream |-> stream, tools |-> None, url |-> <<"openai", "v1", "chat", "completions">>]

\* base_url without its trailing slashes; the path is added unless it is there.
compatible_api_url(base) ==
  IF HasPart(base, <<"v1", "chat", "completions">>) THEN base
  ELSE IF Last(base) = "v1" THEN base \o <<"chat", "completions">>
  ELSE base \o <<"v1", "chat", "completions">>

CompatibleRequest(r, stream) ==
  [contents |-> [i \in DOMAIN r.messages |-> Verbatim(r.messages[i])],
   temperature |-> r.temperature, limits |-> [max_tokens |-> r.max_tokens],
   stream |-> stream, tools |-> None, url |-> compatible_api_url(r.base_url)]

DefaultMaxTokens == 4096
AnthropicMessage(m) == Content(m.role, <<m.text>>, None)
AnthropicRequest(r, stream) ==
  [contents |-> [i \in DOMAIN r.messages |-> AnthropicMessage(r.messages[i])],
   temperature |-> r.temperature,
   limits |-> [max_tokens |-> Optional(r.max_tokens, DefaultMaxTokens)],
   stream |-> stream, tools |-> None, url |-> <<"anthropic", "v1", "messages">>]

\* Defect: a second system message replaces the first and other roles are skipped.
GeminiContent_drops(acc, m) ==
  IF m.role = "system" THEN [acc EXCEPT !.system = <<m.text>>]
  ELSE IF m.role = "user" THEN [contents |-> Append(acc.contents,
                             Content("user", Append(acc.system, m.text), None)), system |-> <<>>]
  ELSE acc
GeminiContent(acc, m) ==
  CASE m.role = "system" -> [acc EXCEPT !.system = Append(@, m.text)]
    [] m.role = "user" -> [contents |-> Append(acc.contents,
                             Content("user", Append(acc.system, m.text), None)), system |-> <<>>]
    [] m.role = "assistant" -> [acc EXCEPT !.contents = Append(@, Content("model", <<m.text>>, None))]
    [] OTHER -> [acc EXCEPT !.contents = Append(@, Content("user", <<m.text>>, None))]
messages_to_contents(messages) ==
  FoldLeft(GeminiContent, [contents |-> <<>>, system |-> <<>>], messages).contents
GeminiRequest(r, stream) ==
  [contents |-> messages_to_contents(r.messages),
   temperature |-> r.temperature, limits |-> [max_output_tokens |-> r.max_tokens],
   stream |-> FALSE, tools |-> None,
   url |-> <<"gemini", "models", IF stream THEN "streamGenerateContent" ELSE "generateContent">>]

\* Arguments that are not JSON become an empty object.
OllamaMessage(m) == Content(m.role, <<m.text>>, IF m.call = "bad" THEN "empty" ELSE m.call)
convert_messages(messages) == [i \in DOMAIN messages |-> OllamaMessage(messages[i])]
OllamaRequest(r, stream) ==
  [contents |-> convert_messages(r.messages),
   temperature |-> r.temperature, limits |-> [num_predict |-> r.max_tokens],
   stream |-> stream, tools |-> r.tools, url |-> <<"ollama", "api", "chat">>]

--------------------------------------------------------------------------
(* Response bodies.  A body is [text, usage, calls]: text is None when     *)
(* the list of answers is empty, "null" when the first answer carries no   *)
(* text; usage names the counts that are present; calls is the list of     *)
(* tool calls: None, "empty", or one call with or without an id.  The      *)
(* server counts 2 prompt and 3 completion tokens.                         *)

Bodies == [text : {None, "null", "text"}, usage : {None, "prompt", "both"},
           calls : {None, "empty", "with_id", "without_id"}]
Err(kind) == [ok |-> FALSE, error |-> kind]
Completion(provider, text, prompt, completion, model, calls, reason) ==
  [ok |-> TRUE, provider |-> provider, content |-> text, prompt_tokens |-> prompt,
   completion_tokens |-> completion, model |-> model, tool_calls |-> calls,
   finish_reason |-> reason]
Text(b) == IF b.text = "text" THEN "text" ELSE ""
PromptCount(b) == IF b.usage \in {"prompt", "both"} THEN 2 ELSE 0
CompletionCount(b) == IF b.usage = "both" THEN 3 ELSE 0

\* The list may be empty; each answer must have a text, and both counts are required.
OpenAIResponse(b, model) ==
  IF b.text = "null" \/ b.usage # "both" THEN Err("InvalidResponse")
  ELSE Completion("openai", Text(b), 2, 3, "served", None, "stop")
CompatibleResponse(b, model) ==
  IF b.text = "null" \/ b.usage # "both" THEN Err("InvalidResponse")
  ELSE Completion("openai-compatible", Text(b), 2, 3, "served", None, "stop")
AnthropicResponse(b, model) ==
  IF b.text = "null" \/ b.usage # "both" THEN Err("InvalidResponse")
  ELSE Completion("anthropic", Text(b), 2, 3, "served", None, "stop")
\* The parts of a truncated answer and either count may be missing.
GeminiResponse(b, model) ==
  Completion("gemini", Text(b), PromptCount(b), CompletionCount(b), model, None, "stop")

\* A call that came without an id is given a fresh one.
convert_tool_calls(calls) == IF calls = "without_id" THEN "fresh_id" ELSE calls
OllamaResponse(b, model) ==
  IF b.text = None THEN Err("InvalidResponse")
  ELSE LET calls == IF b.calls \notin {None, "empty"} THEN convert_tool_calls(b.calls) ELSE None
       IN Completion("ollama", Text(b), PromptCount(b), CompletionCount(b), "served", calls,
                     IF calls # None THEN "tool_calls" ELSE "stop")

--------------------------------------------------------------------------
(* Streamed lines.  The k-th line carries the text k or the counts k.      *)
(*   text   an answer with text       final  the same, with finish_reason  *)
(*   usage  counts without an answer  done   the end marker                *)
(*   start  Anthropic's message_start blank  a separator, comment or ping  *)
(*   bad    JSON the client refuses                                        *)

Tokens(p, c) == [prompt |-> p, completion |-> c]
NoTokens == Tokens(None, None)
Chunk(text, final, tokens) ==
  [text |-> text, is_final |-> final, prompt |-> tokens.prompt, completion |-> tokens.completion]
ErrorText == -1
DamagedText == -2
ErrorItem == Chunk(ErrorText, FALSE, NoTokens)
\* What a line does: the totals after it, and the item poll_next returns, if any.
Meaning(tokens, item) == [tokens |-> tokens, item |-> item]

OpenAITokens(kind, k, t) == IF kind = "usage" THEN Tokens(k, k) ELSE t
OpenAILine(kind, k, t) ==
  LET t2 == OpenAITokens(kind, k, t)
  IN CASE kind = "done" -> Meaning(t, Chunk(0, TRUE, t))
       [] kind \in {"text", "final"} -> Meaning(t2, Chunk(k, kind = "final", NoTokens))
       [] kind = "usage" -> Meaning(t2, Chunk(0, FALSE, NoTokens))
       [] kind = "bad" -> Meaning(t, ErrorItem)
       [] OTHER -> Meaning(t, None)

CompatibleTokens(kind, k, t) == IF kind = "usage" THEN Tokens(k, k) ELSE t
CompatibleLine(kind, k, t) ==
  LET t2 == CompatibleTokens(kind, k, t)
  IN CASE kind = "done" -> Meaning(t, Chunk(0, TRUE, t))
       [] kind \in {"text", "final"} -> Meaning(t2, Chunk(k, kind = "final", NoTokens))
       [] kind = "usage" -> Meaning(t2, Chunk(0, FALSE, NoTokens))
       [] kind = "bad" -> Meaning(t, ErrorItem)
       [] OTHER -> Meaning(t, None)

AnthropicStartTokens(k, t) == Tokens(k, t.completion)
AnthropicUsageTokens(k, t) == Tokens(t.prompt, k)
AnthropicLine(kind, k, t) ==
  CASE kind = "start" -> Meaning(AnthropicStartTokens(k, t), None)
    [] kind = "text" -> Meaning(t, Chunk(k, FALSE, NoTokens))
    [] kind = "usage" -> Meaning(AnthropicUsageTokens(k, t), None)
    [] kind = "done" -> Meaning(t, Chunk(0, TRUE, t))
    [] kind = "bad" -> Meaning(t, ErrorItem)
    [] OTHER -> Meaning(t, None)

\* Gemini sends its counts with an answer.
GeminiTokens(kind, k, t) == IF kind \in {"usage", "final"} THEN Tokens(k, k) ELSE t
GeminiLine(kind, k, t) ==
  LET t2 == GeminiTokens(kind, k, t)
  IN CASE kind = "done" -> Meaning(t, Chunk(0, TRUE, t))
       [] kind \in {"text", "final"} -> Meaning(t2, Chunk(k, kind = "final", NoTokens))
       [] kind = "usage" -> Meaning(t2, Chunk(0, FALSE, NoTokens))
       [] kind = "bad" -> Meaning(t, ErrorItem)
       [] OTHER -> Meaning(t, None)

\* Ollama's lines are bare JSON; the one that is done carries the counts.
OllamaTokens(kind, k, t) == IF kind \in {"usage", "final"} THEN Tokens(k, k) ELSE t
OllamaLine(kind, k, t) ==
  LET t2 == OllamaTokens(kind, k, t)
  IN CASE kind = "text" -> Meaning(t2, Chunk(k, FALSE, NoTokens))
       [] kind = "final" -> Meaning(t2, Chunk(k, TRUE, t2))
       [] kind = "usage" -> Meaning(t2, Chunk(0, FALSE, NoTokens))
       [] kind = "blank" -> Meaning(t, None)
       [] OTHER -> Meaning(t, ErrorItem)

--------------------------------------------------------------------------
(* The mock provider: a fixed text of MockLength characters in n chunks.   *)

MockLength == 30
MockChunk(i, n) ==
  LET size == MockLength \div n
  IN [from |-> (i - 1) * size, to |-> IF i = n THEN MockLength ELSE i * size, is_final |-> i = n]
MockChunks(n) == [i \in 1..n |-> MockChunk(i, n)]
mock_completion_tokens(max_tokens) ==
  IF max_tokens = None THEN 30
  ELSE LET min == max_tokens \div 2 IN min + (max_tokens - min) \div 2
MockResponse(r) ==
  LET n == Len(r.messages) \div 4
  IN Completion("mock", "text", IF n > 1 THEN n ELSE 1, mock_completion_tokens(r.max_tokens),
                r.model, None, "stop")
=============================================================================
