------------------------------ MODULE Providers ------------------------------
(***************************************************************************)
(* One call of an LLM provider (cleargate-providers/src): complete, or     *)
(* stream and the polling of the stream adapter it returns, against a      *)
(* server and a network that cut, delay, fail and end as they like.        *)
(*                                                                         *)
(* The bytes of a streamed answer are counted in half lines: the k-th line *)
(* is the units 2k-1 (its first part) and 2k (the rest, with the newline). *)
(* A read takes any number of the units that have arrived, so it may stop  *)
(* inside a line, or bring several lines at once.  The adapter's buffer is *)
(* the units after 2 * parsed up to read.  All five adapters have the same *)
(* poll_next around their own reading of a line.                           *)
(***************************************************************************)
EXTENDS ProviderWire, FiniteSets

CONSTANTS MaxMessages,   \* messages of a prompt
          MaxLines       \* lines of a streamed answer

ASSUME ProvidersAssumption == MaxMessages \in Nat \ {0} /\ MaxLines \in Nat

VARIABLES prov, pricing, req,
          phase,     \* "new", "complete" or "stream" (sent), "streaming", "done"
          wire,      \* the request body, until the answer arrives
          result,    \* what complete or stream returned
          cost,      \* what calculate_cost says of it
          lines, closed, arrived,   \* the server and the network
          read, parsed, totals,     \* the adapter: buffer and token totals
          out,       \* the items poll_next has returned
          coalesced, \* some read brought the ends of several lines
          damaged    \* lines in which a read boundary split a character

server == <<lines, closed, arrived>>
adapter == <<read, parsed, totals, out, coalesced, damaged>>
vars == <<prov, pricing, req, phase, wire, result, cost, server, adapter>>

Models == {<<"gpt", "4">>, <<"gpt", "4", "0613">>, <<"gpt", "4", "turbo">>, <<"o1">>}
PriceLists == {<<>>, << <<<<"gpt", "4">>, 1>> >>,
               << <<<<"gpt", "4">>, 1>>, <<<<"gpt", "4", "0613">>, 2>>, <<<<"gpt", "4">>, 3>> >>}
Shapes == [role : {"system", "user", "tool"}, call : {None}]
            \cup [role : {"assistant"}, call : {None, "json", "bad"}]
Numbered(shapes) == [i \in DOMAIN shapes |->
                       [role |-> shapes[i].role, text |-> i, call |-> shapes[i].call]]
Prompts == {Numbered(s) : s \in UNION {[1..n -> Shapes] : n \in 1..MaxMessages}}
Request(messages, model, temperature, max_tokens, tools, base) ==
  [messages |-> messages, model |-> model, temperature |-> temperature,
   max_tokens |-> max_tokens, tools |-> tools, base_url |-> base]
OneMessage == <<[role |-> "user", text |-> 1, call |-> None]>>
BaseUrls == {<<"host">>, <<"host", "v1">>, <<"host", "v1", "chat", "completions">>}
\* Every prompt with one choice of options, every choice of options with one prompt.
Requests ==
  {Request(p, <<"gpt", "4">>, None, 5, None, <<"host">>) : p \in Prompts}
    \cup {Request(OneMessage, m, t, n, tools, u) :
            m \in Models, t \in {None, "warm"}, n \in {None, 1, 5}, tools \in {None, "tools"}, u \in BaseUrls}
NotAsked == -1
NoRequest == Request(<<>>, <<>>, None, None, None, <<>>)

Init ==
  /\ prov = None /\ pricing = NoPricing
  /\ req \in Requests
  /\ phase = "new" /\ wire = None /\ result = None /\ cost = NotAsked
  /\ lines = <<>> /\ closed = FALSE /\ arrived = 0
  /\ read = 0 /\ parsed = 0 /\ totals = NoTokens /\ out = <<>>
  /\ coalesced = FALSE /\ damaged = {}

--------------------------------------------------------------------------
(* The request and its answer.                                             *)

Send(p, how, table, body) ==
  /\ phase = "new"
  /\ prov' = p /\ pricing' = table /\ wire' = body /\ phase' = how
  /\ UNCHANGED <<req, result, cost, server, adapter>>

Return(r) ==
  /\ result' = r /\ phase' = "done" /\ wire' = None
  /\ UNCHANGED <<prov, pricing, req, cost, server, adapter>>

Receive(p, answers) ==
  /\ phase = "complete" /\ prov = p
  /\ \/ Return(Err("RequestFailed"))
     \/ Return(Err("ApiError"))            \* whether or not its text can be read
     \/ Return(Err("InvalidResponse"))     \* the body cannot be read
     \/ \E r \in answers : Return(r)

\* stream() drops the request it has sent and hands out the adapter.
Open(p) ==
  /\ phase = "stream" /\ prov = p
  /\ \/ \E e \in {"RequestFailed", "ApiError"} : Return(Err(e))
     \/ /\ phase' = "streaming" /\ wire' = None /\ req' = NoRequest /\ pricing' = NoPricing
        /\ UNCHANGED <<prov, result, cost, server, adapter>>

openai_complete ==
  \/ \E models \in PriceLists :
       Send("openai", "complete", OpenAIProvider_new(models), OpenAIRequest(req, FALSE))
  \/ Receive("openai", {OpenAIResponse(b, req.model) : b \in Bodies})
openai_stream ==
  \/ Send("openai", "stream", NoPricing, OpenAIRequest(req, TRUE))
  \/ Open("openai")
compatible_complete ==
  \/ \E models \in PriceLists :
       Send("compatible", "complete", OpenAICompatibleProvider_new(models), CompatibleRequest(req, FALSE))
  \/ Receive("compatible", {CompatibleResponse(b, req.model) : b \in Bodies})
compatible_stream ==
  \/ Send("compatible", "stream", NoPricing, CompatibleRequest(req, TRUE))
  \/ Open("compatible")
anthropic_complete ==
  \/ \E models \in PriceLists :
       Send("anthropic", "complete", AnthropicProvider_new(models), AnthropicRequest(req, FALSE))
  \/ Receive("anthropic", {AnthropicResponse(b, req.model) : b \in Bodies})
anthropic_stream ==
  \/ Send("anthropic", "stream", NoPricing, AnthropicRequest(req, TRUE))
  \/ Open("anthropic")
gemini_complete ==
  \/ \E models \in PriceLists :
       Send("gemini", "complete", GeminiProvider_new(models), GeminiRequest(req, FALSE))
  \/ Receive("gemini", {GeminiResponse(b, req.model) : b \in Bodies})
gemini_stream ==
  \/ Send("gemini", "stream", NoPricing, GeminiRequest(req, TRUE))
  \/ Open("gemini")
ollama_complete ==
  \/ \E models \in PriceLists :
       Send("ollama", "complete", OllamaProvider_new(models), OllamaRequest(req, FALSE))
  \/ Receive("ollama", {OllamaResponse(b, req.model) : b \in Bodies})
ollama_stream ==
  \/ Send("ollama", "stream", NoPricing, OllamaRequest(req, TRUE))
  \/ Open("ollama")

mock_complete ==
  /\ phase = "new"
  /\ \E models \in PriceLists : pricing' = MockProvider_new(models)
  /\ prov' = "mock" /\ result' = MockResponse(req) /\ phase' = "done"
  /\ UNCHANGED <<req, wire, cost, server, adapter>>
\* The whole stream is made at once; n is the configured number of chunks.
mock_stream ==
  /\ phase = "new"
  /\ \E n \in {0, 1, 7, 30, 31} : out' = MockChunks(MockNumChunks(n))
  /\ prov' = "mock" /\ phase' = "done" /\ req' = NoRequest
  /\ UNCHANGED <<pricing, wire, result, cost, server, read, parsed, totals, coalesced, damaged>>

\* A caller prices a response under the provider's name for its model.
Price ==
  /\ phase = "done" /\ cost = NotAsked /\ result # None /\ result.ok
  /\ cost' = calculate_cost(pricing, normalize_model_name(pricing, req.model),
                            result.prompt_tokens, result.completion_tokens)
  /\ UNCHANGED <<prov, pricing, req, phase, wire, result, server, adapter>>

--------------------------------------------------------------------------
(* The stream.                                                             *)

Kinds(p) == CASE p \in {"openai", "compatible"} -> {"text", "final", "usage", "done", "blank", "bad"}
              [] p = "gemini" -> {"text", "final", "done", "blank", "bad"}
              [] p = "ollama" -> {"text", "final", "blank", "bad"}
              [] OTHER -> {"start", "text", "usage", "done", "blank", "bad"}

\* external: the server writes a line, and closes after it or inside it.
Serve(kind) ==
  /\ phase = "streaming" /\ ~closed /\ Len(lines) < MaxLines
  /\ lines' = Append(lines, kind) /\ arrived' = 2 * Len(lines')
  /\ UNCHANGED <<prov, pricing, req, phase, wire, result, cost, closed, adapter>>
Close ==
  /\ phase = "streaming" /\ ~closed
  /\ closed' = TRUE /\ arrived' \in {arrived, arrived - 1} /\ arrived' >= read
  /\ UNCHANGED <<prov, pricing, req, phase, wire, result, cost, lines, adapter>>

LineOf(p, kind, k, t) ==
  CASE p = "openai" -> OpenAILine(kind, k, t)
    [] p = "compatible" -> CompatibleLine(kind, k, t)
    [] p = "anthropic" -> AnthropicLine(kind, k, t)
    [] p = "gemini" -> GeminiLine(kind, k, t)
    [] OTHER -> OllamaLine(kind, k, t)

\* Defect: the loop goes on over lines that make an item.
Scan_all(upto) ==
  LET after[k \in parsed..upto] ==
        IF k = parsed THEN [parsed |-> k, tokens |-> totals, item |-> None]
        ELSE [parsed |-> k] @@ LineOf(prov, lines[k], k, after[k - 1].tokens)
  IN after[upto]

\* The line loop of poll_next: lines are taken until one makes an item.
Scan(upto) ==
  LET after[k \in parsed..upto] ==
        IF k = parsed THEN [parsed |-> k, tokens |-> totals, item |-> None]
        ELSE IF after[k - 1].item # None THEN after[k - 1]
        ELSE [parsed |-> k] @@ LineOf(prov, lines[k], k, after[k - 1].tokens)
  IN after[upto]

\* An item as from_utf8_lossy leaves it.
Intact(item, hurt) == IF item.text \in hurt THEN [item EXCEPT !.text = DamagedText] ELSE item

PollBytes(units, split) ==
  /\ read' = read + units
  /\ damaged' = IF split THEN damaged \cup {(read' + 1) \div 2} ELSE damaged
  /\ LET s == Scan(read' \div 2)
     IN /\ parsed' = s.parsed /\ totals' = s.tokens
        /\ out' = IF s.item = None THEN out ELSE Append(out, Intact(s.item, damaged'))
  /\ coalesced' = (coalesced \/ read' \div 2 > (read \div 2) + 1)
  /\ UNCHANGED <<prov, pricing, req, phase, wire, result, cost, server>>
PollError ==
  /\ ~closed /\ closed' = TRUE /\ arrived' = read
  /\ out' = Append(out, ErrorItem)
  /\ UNCHANGED <<prov, pricing, req, phase, wire, result, cost, lines, read, parsed, totals,
                 coalesced, damaged>>
PollEnd ==
  /\ closed /\ read = arrived /\ phase' = "done"
  /\ UNCHANGED <<prov, pricing, req, wire, result, cost, server, adapter>>
poll_next(p) ==
  /\ phase = "streaming" /\ prov = p
  /\ \/ \E units \in 1..(arrived - read), split \in BOOLEAN :
          (split => (read + units) % 2 = 1) /\ PollBytes(units, split)
     \/ PollError
     \/ PollEnd

OpenAIStreamAdapter == poll_next("openai")
OpenAICompatibleStreamAdapter == poll_next("compatible")
AnthropicStreamAdapter == poll_next("anthropic")
GeminiStreamAdapter == poll_next("gemini")
OllamaChatStreamAdapter == poll_next("ollama")

Next ==
  \/ openai_complete \/ compatible_complete \/ anthropic_complete
  \/ gemini_complete \/ ollama_complete \/ mock_complete
  \/ openai_stream \/ compatible_stream \/ anthropic_stream
  \/ gemini_stream \/ ollama_stream \/ mock_stream
  \/ Price
  \/ \E kind \in Kinds(prov) : Serve(kind)
  \/ Close
  \/ OpenAIStreamAdapter \/ OpenAICompatibleStreamAdapter \/ AnthropicStreamAdapter
  \/ GeminiStreamAdapter \/ OllamaChatStreamAdapter

Spec == Init /\ [][Next]_vars

--------------------------------------------------------------------------
(* Properties.                                                             *)

Sent == phase \in {"complete", "stream"}
Carriers(i) == {j \in DOMAIN wire.contents : i \in Range(wire.contents[j].texts)}
Moved(i) == prov = "gemini" /\ req.messages[i].role = "system"
Users == {u \in DOMAIN req.messages : req.messages[u].role = "user"}
FirstUser == CHOOSE u \in Users : \A v \in Users : u <= v

\* The role a message has on the wire: Gemini knows "user" and "model" only.
RoleSent(m) == IF prov # "gemini" THEN m.role
               ELSE IF m.role = "assistant" THEN "model" ELSE "user"

\* Each message reaches the wire in exactly one content, under its role, in the caller's
\* order; a system message for Gemini is never sent twice, never leaves the user contents,
\* stands before the text it is prepended to, and is in the first user content when it
\* comes before the first user message.  Of a later one nothing more is asked here: the
\* code and its comments disagree about it (SystemReachesFirstUser).
MessagesFaithful ==
  /\ \A i \in DOMAIN req.messages :
       /\ IF Moved(i) THEN Cardinality(Carriers(i)) <= 1 ELSE Cardinality(Carriers(i)) = 1
       /\ \A j \in Carriers(i) : wire.contents[j].role = RoleSent(req.messages[i])
       /\ (Moved(i) /\ Users # {} /\ i < FirstUser) => Carriers(i) = Carriers(FirstUser)
  /\ \A i, k \in DOMAIN req.messages :
       i < k /\ ~Moved(i) /\ ~Moved(k) => \A a \in Carriers(i), b \in Carriers(k) : a < b
  /\ \A j \in DOMAIN wire.contents : \A a, b \in DOMAIN wire.contents[j].texts :
       a < b => wire.contents[j].texts[a] < wire.contents[j].texts[b]

\* The request on the wire: its messages as MessagesFaithful says; the limit in exactly one
\* field and unchanged (Anthropic's default when there is none); tool arguments as JSON for
\* Ollama, as given for OpenAI and the compatible APIs; the path of a compatible API's URL
\* exactly once; the offered tools with Ollama, the only client whose request type has a
\* field for them.  The other four drop the tools the caller offers, and Anthropic and
\* Gemini the tool calls of earlier answers: this property does not ask for them.
RequestFaithful ==
  Sent =>
    /\ MessagesFaithful
    /\ LET asked == IF prov = "anthropic" THEN Optional(req.max_tokens, DefaultMaxTokens)
                                          ELSE req.max_tokens
       IN {wire.limits[f] : f \in DOMAIN wire.limits} \ {None} = {asked} \ {None}
    /\ prov = "openai" => Cardinality({f \in DOMAIN wire.limits : wire.limits[f] # None}) <= 1
    /\ prov = "ollama" => wire.tools = req.tools /\ \A j \in DOMAIN wire.contents : wire.contents[j].call # "bad"
    /\ prov \in {"openai", "compatible"} =>
         \A i \in DOMAIN wire.contents : wire.contents[i].call = req.messages[i].call
    /\ prov = "compatible" => wire.url = <<"host", "v1", "chat", "completions">>

\* What gemini.rs says three times of system messages: they are prepended to the FIRST user
\* message.  The code prepends them to the next user message, and drops those that no user
\* message follows (violated by hand: Providers_system.cfg).
SystemReachesFirstUser ==
  Sent /\ Users # {} =>
    \A i \in DOMAIN req.messages : Moved(i) => Carriers(i) = Carriers(FirstUser)

Spoken == {k \in 1..parsed : lines[k] \in {"text", "final"}}
SpokenInOrder == SelectSeq([k \in 1..parsed |-> k], LAMBDA k : k \in Spoken)
HasText(c) == c.text \notin {0, ErrorText}

\* However the network cuts the answer, the texts the caller receives are those of the lines
\* taken from the buffer, each once and in the server's order; a text can differ from what
\* was served only when a read boundary fell inside its line (from_utf8_lossy per read).
ChunksFaithful ==
  prov # "mock" =>
    LET got == SelectSeq(out, HasText)
    IN /\ Len(got) = Cardinality(Spoken)
       /\ \A i \in DOMAIN got :
            got[i].text = IF SpokenInOrder[i] \in damaged THEN DamagedText ELSE SpokenInOrder[i]

\* The counts that come with the last chunk are the latest the server sent before it, each
\* on its own: Anthropic sends the prompt's with message_start and the answer's with
\* message_delta, two lines that make no chunk.
LatestOf(kinds) ==
  LET ks == {k \in 1..parsed : lines[k] \in kinds}
  IN IF ks = {} THEN None ELSE CHOOSE k \in ks : \A j \in ks : j <= k
PromptKinds == CASE prov = "anthropic" -> {"start"}
                 [] prov \in {"gemini", "ollama"} -> {"final"}
                 [] OTHER -> {"usage"}
CompletionKinds == IF prov = "anthropic" THEN {"usage"} ELSE PromptKinds
TotalsLatest ==
  (phase = "streaming" /\ out # <<>> /\ parsed > 0 /\ Last(out).is_final
     /\ lines[parsed] \in (IF prov = "ollama" THEN {"final"} ELSE {"done"}))
  => /\ Last(out).prompt = LatestOf(PromptKinds)
     /\ Last(out).completion = LatestOf(CompletionKinds)

\* poll_next asks the network before it looks at what it has buffered, and returns one item
\* per read: a complete line waits in the buffer only if some read brought several.
BacklogOnlyWhenCoalesced == ~coalesced => parsed = read \div 2

\* The mock provider's chunks are its text, whatever number of them is configured.
MockCovers ==
  (prov = "mock" /\ out # <<>>) =>
    /\ out[1].from = 0 /\ Last(out).to = MockLength
    /\ \A i \in DOMAIN out : out[i].from <= out[i].to /\ out[i].is_final = (i = Len(out))
    /\ \A i \in 1..(Len(out) - 1) : out[i].to = out[i + 1].from

\* What poll_next hands out is what was served, however the network cuts it: texts in order,
\* the latest totals, the whole of the mock's text; and a line stays behind only when a read
\* brought several.
StreamFaithful == ChunksFaithful /\ TotalsLatest /\ BacklogOnlyWhenCoalesced /\ MockCovers

\* A response is priced under the most specific name that has a price, at the price set last
\* for it, and the providers whose APIs must report usage never price missing counts as 0.
CostOfMostSpecific ==
  (cost \notin {NotAsked, None}) =>
    LET name == IF req.model \in DOMAIN pricing THEN req.model ELSE Front(req.model)
    IN /\ name \in DOMAIN pricing
       /\ name = <<"gpt", "4">> => pricing[name] \in {1, 3} /\ (pricing[name] = 1 => DOMAIN pricing = {name})
       /\ prov \in {"openai", "compatible", "anthropic"} => cost = 8 * pricing[name]

\* What traits.rs says of stream: chunks are returned as they arrive.  When the caller sees
\* the end of a stream that met no error, every line that arrived whole has been handed out.
ChunksArrive ==
  (phase = "done" /\ prov # "mock" /\ \A i \in DOMAIN out : out[i].text # ErrorText)
    => parsed = arrived \div 2
=============================================================================
