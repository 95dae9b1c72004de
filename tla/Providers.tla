----------------------------- MODULE Providers ------------------------------
(***************************************************************************)
(* The tools of the language-model providers: one call of one method, from *)
(* its parameters to its result, with the answer read at once or streamed. *)
(*                                                                         *)
(* The providers' handlers follow one scheme and differ in what they need, *)
(* whose key they use and what they take from the answer.  A handler is a  *)
(* record of these, and the scheme is a state machine that reads it.       *)
(*                                                                         *)
(* A streamed body is a sequence of lines.  A line travels in two pieces,  *)
(* the second of which holds the newline, and the network cuts the body    *)
(* between any two pieces.  Piece 2i - 1 and piece 2i make line i.         *)
(***************************************************************************)
EXTENDS Naturals, Sequences, FiniteSets, SequencesExt, Filtering

CONSTANT MaxLines  \* bound: lines of a streamed body

-----------------------------------------------------------------------------
(* Handlers.                                                               *)

\* needs: the parameters checked, in this order; key: where the API key comes
\* from; reply: what the answer must hold; yields: the fields of an event that
\* are passed on as chunks, in this order; single: an event yields one chunk.
Handler(needs, key, reply) ==
  [needs |-> needs, key |-> key, reply |-> reply, yields |-> <<>>, single |-> FALSE]

Streaming(h, yields, single) == [h EXCEPT !.yields = yields, !.single = single]

Chat  == <<"apiKey", "messages">>
Text  == <<"apiKey", "prompt">>
Keyed == <<"apiKey">>

AnthropicEvent == <<"delta", "message_start", "message_delta">>
AnthropicCompletion == Handler(Chat, "caller", {"json", "content"})
AnthropicGenerate   == Handler(Text, "caller", {"json", "content"})
AnthropicListModels == Handler(Keyed, "caller", {"json"})
AnthropicModelInfo  == Handler(Keyed, "caller", {"json", "data", "model"})
AnthropicStatus     == Handler(Keyed, "caller", {})
AnthropicStreamCompletion == Streaming(AnthropicCompletion, AnthropicEvent, TRUE)
AnthropicStreamGenerate   == Streaming(AnthropicGenerate, AnthropicEvent, TRUE)

OpenAIEvent == <<"delta", "finish_reason", "usage">>
OpenAICompletion     == Handler(Chat, "caller", {"json", "choices"})
OpenAIGenerate       == Handler(Text, "caller", {"json", "choices"})
OpenAIListModels     == Handler(Keyed, "caller", {"json"})
OpenAIModelInfo      == Handler(Keyed, "caller", {"json"})
OpenAIStatus         == Handler(Keyed, "caller", {})
OpenAIEmbedDocuments == Handler(<<"apiKey", "input">>, "caller", {"json", "data"})
OpenAIEmbedQuery     == Handler(<<"apiKey", "input">>, "caller", {"json", "data", "embedding"})
OpenAIGenerateImage  == Handler(<<"apiKey", "prompt", "size", "n">>, "caller", {"json"})
OpenAIStreamCompletion == Streaming(OpenAICompletion, OpenAIEvent, FALSE)
OpenAIStreamGenerate   == Streaming(OpenAIGenerate, OpenAIEvent, FALSE)

GeminiEvent == <<"delta", "usage", "finish_reason">>
GeminiCompletion    == Handler(Chat, "caller", {"json", "candidates", "parts"})
GeminiGenerate      == Handler(Text, "caller", {"json", "candidates", "parts"})
GeminiListModels    == Handler(Keyed, "own", {"json"})
GeminiModelInfo     == Handler(Keyed, "own", {"json"})
GeminiStatus        == Handler(Keyed, "own", {})
GeminiGenerateImage == Handler(Text, "own", {"json", "candidates", "inlineData"})
GeminiEditImage     == Handler(<<"apiKey", "prompt", "image", "dataUrl", "file">>, "own",
                               {"json", "candidates", "inline_data"})
GeminiStreamCompletion == Streaming(GeminiCompletion, GeminiEvent, FALSE)
GeminiStreamGenerate   == Streaming(GeminiGenerate, GeminiEvent, FALSE)

OllamaEvent == <<"delta", "done">>
OllamaCompletion  == Handler(<<"messages">>, "none", {"json", "message"})
OllamaGenerate    == Handler(<<"prompt">>, "none", {"json"})
OllamaListModels  == Handler(<<>>, "none", {"json"})
\* The progress of a pull is read to its end and not looked at: an error in it is
\* told as a success.
OllamaPullModel   == Handler(<<"model">>, "none", {"body"})
OllamaDeleteModel == Handler(<<"model">>, "none", {})
OllamaModelInfo   == Handler(<<>>, "none", {"json"})
OllamaStatus      == Handler(<<>>, "none", {})
OllamaStreamCompletion == Streaming(OllamaCompletion, OllamaEvent, FALSE)
OllamaStreamGenerate   == Streaming(OllamaGenerate, OllamaEvent, FALSE)

PerplexityEvent == <<"delta", "finish_reason", "usage", "citations", "images",
                     "related_questions">>
PerplexityCompletion == Handler(<<"messages", "apiKey">>, "caller", {"json", "choices"})
PerplexityGenerate   == Handler(<<"prompt", "apiKey">>, "caller", {"json", "choices"})
PerplexityListModels == Handler(Keyed, "caller", {"json"})
PerplexitySearch     == Handler(<<"query", "apiKey">>, "caller", {"json", "choices"})
PerplexityStatus     == Handler(Keyed, "caller", {})
PerplexityStreamCompletion == Streaming(PerplexityCompletion, PerplexityEvent, FALSE)
PerplexityStreamGenerate   == Streaming(PerplexityGenerate, PerplexityEvent, FALSE)

GrokEvent == <<"delta", "finish_reason", "usage">>
GrokCompletion == Handler(Chat, "env", {"json"})
GrokGenerate   == Handler(Text, "env", {"json"})
GrokListModels == Handler(Keyed, "env", {"json"})
GrokModelInfo  == Handler(Keyed, "env", {"json"})
GrokStatus     == Handler(Keyed, "env", {})
GrokStreamCompletion == Streaming(GrokCompletion, GrokEvent, FALSE)
GrokStreamGenerate   == Streaming(GrokGenerate, GrokEvent, FALSE)

Handlers ==
  {AnthropicCompletion, AnthropicGenerate, AnthropicListModels, AnthropicModelInfo,
   AnthropicStatus, AnthropicStreamCompletion, AnthropicStreamGenerate,
   OpenAICompletion, OpenAIGenerate, OpenAIListModels, OpenAIModelInfo, OpenAIStatus,
   OpenAIEmbedDocuments, OpenAIEmbedQuery, OpenAIGenerateImage,
   OpenAIStreamCompletion, OpenAIStreamGenerate,
   GeminiCompletion, GeminiGenerate, GeminiListModels, GeminiModelInfo, GeminiStatus,
   GeminiGenerateImage, GeminiEditImage, GeminiStreamCompletion, GeminiStreamGenerate,
   OllamaCompletion, OllamaGenerate, OllamaListModels, OllamaPullModel,
   OllamaDeleteModel, OllamaModelInfo, OllamaStatus,
   OllamaStreamCompletion, OllamaStreamGenerate,
   PerplexityCompletion, PerplexityGenerate, PerplexityListModels, PerplexitySearch,
   PerplexityStatus, PerplexityStreamCompletion, PerplexityStreamGenerate,
   GrokCompletion, GrokGenerate, GrokListModels, GrokModelInfo, GrokStatus,
   GrokStreamCompletion, GrokStreamGenerate}

Streams(h) == h.yields # <<>>

-----------------------------------------------------------------------------
VARIABLES
  call,     \* the handler that runs
  stage,    \* how far it is
  body,     \* the lines of the answer
  read,     \* pieces of the body read so far
  buffer,   \* pieces that await their newline
  chunks,   \* chunks sent to the caller
  text,     \* aggregatedResult: the lines whose delta is in it
  lost      \* the caller's stream did not take a chunk

vars == <<call, stage, body, read, buffer, chunks, text, lost>>

Init ==
  /\ call = AnthropicStatus
  /\ stage = "idle"
  /\ body = <<>> /\ read = 0 /\ buffer = <<>>
  /\ chunks = <<>> /\ text = <<>> /\ lost = FALSE

Finish(how) == stage' = how /\ UNCHANGED <<call, body, read, buffer, text>>

\* Chunks are sent.  A stream that is missing, closed or cannot be written to is
\* only logged, and takes no later chunk either; the generator goes on.
Send(new) ==
  \E k \in 0..Len(new) :
    /\ lost => k = 0
    /\ chunks' = chunks \o SubSeq(new, 1, k)
    /\ lost' = (lost \/ k < Len(new))

\* What a handler answers when it cannot go on: a plain call returns an error;
\* a generator yields it as a chunk and returns, and the call then succeeds
\* with the text there is.
Refusal(h) ==
  IF Streams(h) THEN stage' = "success" /\ Send(<<"error">>)
  ELSE stage' = "error" /\ UNCHANGED <<chunks, lost>>

Refuse == Refusal(call) /\ UNCHANGED <<call, body, read, buffer, text>>

\* The key a handler works with: a default applies to a parameter that is
\* absent, not to one that is empty; Grok then looks at the environment.
KeyUsed(h, param, own) ==
  CASE h.key = "own"    -> own
    [] h.key = "caller" -> IF param = "absent" THEN own ELSE param
    [] h.key = "env"    -> IF param \in {"absent", "empty"} THEN own ELSE param
    [] h.key = "none"   -> "none"

\* Every parameter that is needed is given, and is well formed.
Accepts(h, given, param, own) ==
  \A i \in DOMAIN h.needs :
    IF h.needs[i] = "apiKey" THEN KeyUsed(h, param, own) # "empty"
    ELSE h.needs[i] \in given

Call(h, given, param, own) ==
  /\ stage = "idle"
  /\ call' = h
  /\ body' = <<>> /\ read' = 0 /\ buffer' = <<>> /\ text' = <<>>
  /\ IF Accepts(h, given, param, own)
     THEN stage' = "fetching" /\ UNCHANGED <<chunks, lost>>
     ELSE Refusal(h)

\* fetch() throws, or the status is not OK.
FetchFails == stage = "fetching" /\ Refuse

\* A plain call has its answer; without what it looks for there it fails.
Answered(holds) ==
  /\ stage = "fetching" /\ ~Streams(call)
  /\ IF call.reply \subseteq holds
     THEN Finish("success") /\ UNCHANGED <<chunks, lost>> ELSE Refuse

\* A line is an event, the end mark, or something else that yields nothing: a
\* comment, an event name, an empty line, an error that the provider reports in
\* the stream.  Ollama, which needs no key, knows no end mark.
EndMark == {"[DONE]"}
Events(h) == {e \in SUBSET Range(h.yields) : Cardinality(e) = 1
                                             \/ (Cardinality(e) = 2 /\ ~h.single)}
Bodies(h) ==
  SeqOf(Events(h) \cup {{}} \cup {m \in {EndMark} : h.key # "none"}, MaxLines)

BodyOpens(b) ==
  /\ stage = "fetching" /\ Streams(call)
  /\ stage' = "streaming"
  /\ body' = b
  /\ UNCHANGED <<call, read, buffer, chunks, text, lost>>

NoBody == stage = "fetching" /\ Streams(call) /\ Refuse

\* What a line of the body yields.
Yields(h, e) ==
  LET ys == Filter(h.yields, e)
  IN  IF h.single /\ ys # <<>> THEN <<Head(ys)>> ELSE ys

\* The lines that the pieces of s complete, without those that lost a piece
\* and do not parse.
Ends(s)   == Filter(s, {p \in Nat : p % 2 = 0})
Lines(s)  == [i \in DOMAIN Ends(s) |-> Ends(s)[i] \div 2]
Parsed(s) == Filter(Lines(s), {l \in Nat : 2 * l - 1 \in Range(s)})

\* The lines whose chunks hold a delta.
Deltas == {l \in DOMAIN body : "delta" \in Range(Yields(call, body[l]))}

\* Mutant: what follows the last newline is forgotten.
RestForgotten(s) == <<>>

\* lines.pop(): what follows the last newline waits for the next read.
Rest(s) == IF s # <<>> /\ Last(s) % 2 = 1 THEN <<Last(s)>> ELSE <<>>

\* The break at the end mark leaves the lines of this read only: those after the
\* mark are dropped, those of a later read are not.
Reached(ls) == {l \in Nat : \A m \in Range(ls) : body[m] = EndMark => l <= m}

\* A read of n pieces, and the chunks it gives.
Read(n) ==
  LET s  == buffer \o [i \in 1..n |-> read + i]
      ls == Parsed(s)
      Says(l) == IF l \in Reached(ls) THEN Yields(call, body[l]) ELSE <<>>
  IN  /\ stage = "streaming"
      /\ n \in 1..(2 * Len(body) - read)
      /\ read' = read + n
      /\ buffer' = Rest(s)
      /\ Send(FlattenSeq([i \in DOMAIN ls |-> Says(ls[i])]))
      /\ text' = text \o Filter(ls, Deltas \cap Reached(ls))
      /\ UNCHANGED <<call, stage, body>>

\* The body is over, wherever it stopped; what is in the buffer is not read.
BodyEnds == stage = "streaming" /\ Finish("success") /\ UNCHANGED <<chunks, lost>>

\* The connection breaks while the body is read.
ReadFails == stage = "streaming" /\ Refuse

\* The tool is ready for the next call.
Forget ==
  /\ stage \in {"success", "error"}
  /\ stage' = "idle" /\ call' = AnthropicStatus /\ lost' = FALSE
  /\ body' = <<>> /\ read' = 0 /\ buffer' = <<>> /\ chunks' = <<>> /\ text' = <<>>

Next ==
  \/ \E h \in Handlers, param \in {"absent", "empty", "given"}, own \in {"empty", "own"} :
       \E missing \in Range(h.needs) \cup {"nothing"} :
         Call(h, Range(h.needs) \ {missing}, param, own)
  \/ \E holds \in {call.reply \ {f} : f \in call.reply \cup {"nothing"}} : Answered(holds)
  \/ \E b \in Bodies(call) : BodyOpens(b)
  \/ \E n \in 1..2 * MaxLines : Read(n)
  \/ FetchFails \/ NoBody \/ BodyEnds \/ ReadFails \/ Forget

Spec == Init /\ [][Next]_vars

-----------------------------------------------------------------------------
(* Properties.                                                             *)

TypeOK ==
  /\ call \in Handlers
  /\ stage \in {"idle", "fetching", "streaming", "success", "error"}
  /\ read \in 0..2 * Len(body) /\ Len(body) <= MaxLines
  /\ Len(buffer) <= 1

\* Nothing that says something follows an end mark.
EndIsLast ==
  \A i, j \in DOMAIN body : i < j /\ body[i] = EndMark => Yields(call, body[j]) = <<>>

\* However the network cuts such a body, the caller is sent what its complete
\* lines say, each once and in their order, as long as its stream takes the
\* chunks, and the text of the call is made of all their deltas even when it
\* does not.
CutsDoNotMatter ==
  EndIsLast =>
    LET whole == [i \in 1..(read \div 2) |-> Yields(call, body[i])]
        said  == FlattenSeq(whole)
    IN  /\ lost  => IsPrefix(chunks, said)
        /\ ~lost => IsPrefix(said, chunks) /\ (stage = "streaming" => chunks = said)
        /\ text = Filter([i \in 1..(read \div 2) |-> i], Deltas)
=============================================================================
