-------------------------- MODULE MessageConversion --------------------------
(***************************************************************************)
(* Chat requests and whole answers between protocols. A client's request   *)
(* is decoded to the canonical form and encoded for the upstream of the    *)
(* channel that is tried, or refused; an answer takes the way back. Where  *)
(* the protocols agree the body is passed on.                              *)
(*                                                                         *)
(* A conversation is a sequence of turns of numbered parts, whose wording  *)
(* does not matter; options are a function of the names that are set.      *)
(***************************************************************************)
EXTENDS Integers, Sequences, SequencesExt, FiniteSets

\* kinds: text, image (inline), link (an image by its address), call, result of
\* call "of", thinking. A part is numbered by its turn and its place in it.
NoPart == <<0, 0>>
Part(kind, n) == [kind |-> kind, n |-> n, of |-> NoPart, err |-> FALSE]
Concat(f(_), seq) == FoldLeft(LAMBDA all, s : all \o s, <<>>, [i \in DOMAIN seq |-> f(seq[i])])
OfKinds(parts, kinds) == Concat(LAMBDA p : IF p.kind \in kinds THEN <<p>> ELSE <<>>, parts)

-----------------------------------------------------------------------------
(* How clients say it *)

OpenAIMessage(role, content, calls) == [role |-> role, content |-> content, calls |-> calls]
AnthropicMessage(role, content) == [role |-> role, content |-> content]

\* A tool message says nothing of failure.
ResultMessages(parts) ==
    Concat(LAMBDA p : <<OpenAIMessage("tool", <<[p EXCEPT !.err = FALSE]>>, <<>>)>>,
           OfKinds(parts, {"result"}))

SayOpenAI(conversation) ==
    Concat(LAMBDA t :
        LET said == OfKinds(t.parts, {"text", "image", "link"})
            calls == OfKinds(t.parts, {"call"})
        IN  ResultMessages(t.parts)
              \o (IF said \o calls = <<>> THEN <<>> ELSE <<OpenAIMessage(t.who, said, calls)>>),
        conversation)

SayAnthropic(conversation) ==
    Concat(LAMBDA t : IF t.who = "system" THEN <<>> ELSE <<AnthropicMessage(t.who, t.parts)>>,
           conversation)

SystemOf(conversation) ==
    Concat(LAMBDA t : IF t.who = "system" THEN t.parts ELSE <<>>, conversation)

ClientBody(protocol, conversation, options) ==
    IF protocol = "openai"
    THEN [system |-> <<>>, messages |-> SayOpenAI(conversation), options |-> options]
    ELSE [system |-> SystemOf(conversation), messages |-> SayAnthropic(conversation),
          options |-> options]

-----------------------------------------------------------------------------
(* Requests: to the canonical form *)

ReasoningEffortToBudget(effort) ==
    CASE effort = "low" -> 4 [] effort = "high" -> 32 [] OTHER -> 16

BudgetToReasoningEffort(budget) ==
    CASE budget < 8 -> "low" [] budget >= 8 /\ budget < 24 -> "medium" [] OTHER -> "high"

\* An option under another name, with its value in the other protocol's terms.
Renamed(options, old, new, value) ==
    IF old \notin DOMAIN options THEN options
    ELSE [x \in (DOMAIN options \ {old}) \cup {new} |->
            IF x = new THEN value ELSE options[x]]
Without(options, names) == [x \in DOMAIN options \ names |-> options[x]]

DecodeOpenAIMessage(m) ==
    CASE m.role \in {"system", "developer"} -> <<>>
      [] m.role = "tool" -> <<[role |-> "tool", parts |-> m.content]>>
      [] OTHER -> <<[role |-> m.role, parts |-> m.content \o m.calls]>>

DecodeOpenAIRequest(body) ==
    LET system(m) == IF m.role \in {"system", "developer"} THEN m.content ELSE <<>>
    IN  [system |-> Concat(system, body.messages),
         messages |-> Concat(DecodeOpenAIMessage, body.messages),
         options |-> Renamed(body.options, "effort", "thinking",
                             ReasoningEffortToBudget(body.options["effort"]))]

\* An inline image becomes a data URI; its address is not looked for, and
\* thinking is left out.
DecodeAnthropicRequest(body) ==
    LET message(m) == <<[role |-> m.role,
                         parts |-> OfKinds(m.content, {"text", "image", "call", "result"})]>>
    IN  [system |-> body.system, messages |-> Concat(message, body.messages),
         options |-> body.options]

-----------------------------------------------------------------------------
(* Requests: from the canonical form *)

RejectOpenAIUnsupported(options) == {"top_k", "serial"} \cap DOMAIN options # {}

RejectAnthropicUnsupported(options) ==
    {"logprobs", "seed", "response_format"} \cap DOMAIN options # {}

RejectGeminiUnsupported(options) == {"logprobs", "seed", "serial"} \cap DOMAIN options # {}

EncodeOpenAIRequest(canon) ==
    LET message(m) ==
            LET said == OfKinds(m.parts, {"text", "image", "link"})
                calls == OfKinds(m.parts, {"call"})
            IN  ResultMessages(m.parts)
                  \o (IF said \o calls = <<>> THEN <<>> ELSE <<OpenAIMessage(m.role, said, calls)>>)
    IN  [options |-> Renamed(canon.options, "thinking", "effort",
                           BudgetToReasoningEffort(canon.options["thinking"])),
         system |-> <<>>,
         messages |-> (IF canon.system = <<>> THEN <<>>
                       ELSE <<OpenAIMessage("system", canon.system, <<>>)>>)
                         \o Concat(message, canon.messages)]

\* splitDataURI finds no data in an address: the image is sent blank.
InlineImage(p) == IF p.kind = "link" THEN [p EXCEPT !.kind = "blank"] ELSE p

\* max_tokens is set where it is missing, the parts of a tool message are the
\* user's.
EncodeAnthropicRequest(canon) ==
    LET block(p) == <<InlineImage(p)>>
        message(m) == <<AnthropicMessage(IF m.role = "tool" THEN "user" ELSE m.role,
                                         Concat(block, m.parts))>>
        options == canon.options
    IN  [options |-> [x \in DOMAIN options \cup {"max_tokens"} |->
                        IF x \in DOMAIN options THEN options[x] ELSE "default"],
         system |-> canon.system, messages |-> Concat(message, canon.messages)]

\* user and tool_choice have no place in the body, nor has a format of text; a
\* result names no function, because results carry no name.
EncodeGeminiRequest(canon) ==
    LET part(p) == <<IF p.kind = "result" THEN [p EXCEPT !.of = NoPart, !.err = FALSE]
                     ELSE InlineImage(p)>>
        plain == "response_format" \in DOMAIN canon.options
                   /\ canon.options["response_format"] = "text"
        contents(m) == IF m.parts = <<>> THEN <<>>
                       ELSE <<AnthropicMessage(IF m.role = "assistant" THEN "model" ELSE "user",
                                               Concat(part, m.parts))>>
    IN  [options |-> Without(canon.options, {"user", "tool_choice"}
                                \cup (IF plain THEN {"response_format"} ELSE {})),
         system |-> canon.system, messages |-> Concat(contents, canon.messages)]

Refused == [refused |-> TRUE]

\* EncodeBody of the upstream's codec.
EncodeBody(protocol, canon) ==
    CASE protocol = "openai" ->
            IF RejectOpenAIUnsupported(canon.options) THEN Refused ELSE EncodeOpenAIRequest(canon)
      [] protocol = "anthropic" ->
            IF RejectAnthropicUnsupported(canon.options) THEN Refused
            ELSE EncodeAnthropicRequest(canon)
      [] protocol = "gemini" ->
            IF RejectGeminiUnsupported(canon.options) THEN Refused ELSE EncodeGeminiRequest(canon)

\* The channel's name for the model and its parameters are set in the body; for
\* Gemini the name is in the URL, and there are no parameters.
BuildHTTPRequest(protocol, body) ==
    LET own == {"model", "override"}
        options == body.options
    IN  IF body = Refused \/ protocol = "gemini" THEN body
        ELSE [body EXCEPT !.options = [x \in DOMAIN options \cup own |->
                                         IF x \in own THEN protocol ELSE options[x]]]

\* newConduit and BuildRequest.
BuildRequest(client, upstream, body) ==
    LET canon == IF client = "openai" THEN DecodeOpenAIRequest(body)
                 ELSE DecodeAnthropicRequest(body)
    IN  BuildHTTPRequest(upstream, IF client = upstream THEN body
                                   ELSE EncodeBody(upstream, canon))

-----------------------------------------------------------------------------
(* Answers *)

\* finish reasons of the protocols
FinishReasons(protocol) ==
    CASE protocol = "openai" -> {"stop", "length", "tool_calls"}
      [] protocol = "anthropic" -> {"end_turn", "max_tokens", "tool_use", "stop_sequence"}
      [] protocol = "gemini" -> {"STOP", "MAX_TOKENS"}

OpenAIFinishToCanon(reason) ==
    CASE reason = "length" -> "max_tokens"
      [] reason = "tool_calls" -> "tool_use"
      [] OTHER -> "end_turn"

CanonStopToOpenAI(reason) ==
    CASE reason = "max_tokens" -> "length"
      [] reason = "tool_use" -> "tool_calls"
      [] OTHER -> "stop"

\* In Gemini a call overrides the reason; a thought is text as well.
DecodeGeminiResponse(answer) ==
    LET part(p) == IF p.kind = "thinking" THEN <<[p EXCEPT !.kind = "text"], p>> ELSE <<p>>
    IN  [parts |-> Concat(part, answer.parts),
         stop |-> IF OfKinds(answer.parts, {"call"}) # <<>> THEN "tool_use"
                  ELSE IF answer.stop = "MAX_TOKENS" THEN "max_tokens" ELSE "end_turn"]

DecodeOpenAIResponse(answer) == [answer EXCEPT !.stop = OpenAIFinishToCanon(answer.stop)]

\* The canonical stop reasons are Anthropic's.
DecodeAnthropicResponse(answer) == answer

DecodeResponse(protocol, answer) ==
    CASE protocol = "openai" -> DecodeOpenAIResponse(answer)
      [] protocol = "anthropic" -> DecodeAnthropicResponse(answer)
      [] protocol = "gemini" -> DecodeGeminiResponse(answer)

\* The text in one piece, then the calls.
EncodeOpenAIResponse(canon) ==
    [parts |-> OfKinds(canon.parts, {"text"}) \o OfKinds(canon.parts, {"call"}),
     stop |-> CanonStopToOpenAI(canon.stop)]

EncodeAnthropicResponse(canon) ==
    [parts |-> canon.parts, stop |-> IF canon.stop = "" THEN "end_turn" ELSE canon.stop]

\* TransformResponse of the conduit.
TransformResponse(client, upstream, answer) ==
    IF client = upstream THEN answer
    ELSE LET canon == DecodeResponse(upstream, answer)
         IN  IF client = "openai" THEN EncodeOpenAIResponse(canon)
             ELSE EncodeAnthropicResponse(canon)

\* Tokens of an answer: OpenAI counts cached and audio tokens among the
\* prompt's, Gemini the cached ones, Anthropic neither.
Less(total, part) == IF total < part THEN 0 ELSE total - part

NormalizeOpenAIUsage(u) ==
    [base |-> Less(u.prompt, u.cached + u.audioIn), cached |-> u.cached, written |-> 0,
     output |-> Less(u.output, u.audioOut), audioIn |-> u.audioIn, audioOut |-> u.audioOut]

NormalizeAnthropicUsage(u) ==
    [base |-> u.prompt, cached |-> u.cached, written |-> u.written, output |-> u.output,
     audioIn |-> 0, audioOut |-> 0]

NormalizeGeminiUsage(u) ==
    [base |-> Less(u.prompt, u.cached), cached |-> u.cached, written |-> 0,
     output |-> u.output, audioIn |-> 0, audioOut |-> 0]

NormalizeUsage(protocol, u) ==
    CASE protocol = "openai" -> NormalizeOpenAIUsage(u)
      [] protocol = "anthropic" -> NormalizeAnthropicUsage(u)
      [] protocol = "gemini" -> NormalizeGeminiUsage(u)
=============================================================================
