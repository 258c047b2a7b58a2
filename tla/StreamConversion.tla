--------------------------- MODULE StreamConversion ---------------------------
(***************************************************************************)
(* A streamed answer on its way through streamResponse: payloads of the    *)
(* upstream's protocol are decoded to canonical events and encoded as      *)
(* frames of the client's protocol, or passed through where they agree.    *)
(*                                                                         *)
(* A reader reconstructs the content of a stream in either protocol and    *)
(* notices what the protocol forbids. One reads what the upstream sends,   *)
(* one what the client gets. Content is a sequence of pieces, numbered in  *)
(* the order they are sent; their wording does not matter.                 *)
(***************************************************************************)
EXTENDS MessageConversion

CONSTANTS
    MaxPieces       \* bound on the pieces of an answer

ASSUME StreamAssumption == MaxPieces \in Nat

VARIABLES
    up, down,       \* the protocols: openai, anthropic, and gemini upstream
    source,         \* reader of what the upstream has sent
    dec, enc,       \* stream decoder and encoder
    client,         \* reader of what the client has received
    clientGone,
    doneSent, ended,    \* of the loop over the upstream's lines
    basis           \* what is settled: reported usage or an estimate

streamVars == <<up, down, source, dec, enc, client, clientGone, doneSent, ended, basis>>

\* A direct passage exists for equal protocols; gemini is upstream only.
Passthrough == up = down

-----------------------------------------------------------------------------
(* Protocols: frames and their readers *)

Text(n) == [kind |-> "text", tool |-> 0, piece |-> n]
Tool(k, n) == [kind |-> "tool", tool |-> k, piece |-> n]
Args(k, n) == [kind |-> "args", tool |-> k, piece |-> n]

\* A chunk of OpenAI: 0 for what it does not carry. usage comes in a chunk of
\* its own at the end. done is the line [DONE].
Chunk == [text |-> 0, calls |-> <<>>, finish |-> "", usage |-> FALSE, done |-> FALSE]
Call(index, id, args) == [index |-> index, id |-> id, args |-> args]

\* An event of Anthropic.
Event(type) == [type |-> type, index |-> 0, block |-> "", piece |-> 0, stop |-> ""]

\* usage: how much of it has been reported, "none", "input" or "all".
NewReader ==
    [started |-> FALSE, open |-> FALSE, block |-> "", blocks |-> 0, tools |-> 0,
     content |-> <<>>, stop |-> "", usage |-> "none", ended |-> FALSE, bad |-> FALSE]

Check(reader, ok) == [reader EXCEPT !.bad = @ \/ ~ok]
Take(reader, item) == [reader EXCEPT !.content = Append(@, item)]

\* Tool calls come one after the other: arguments belong to the last one.
ReadCall(reader, call) ==
    LET begun == IF call.id = 0 THEN reader
                 ELSE [Take(Check(reader, call.index = reader.tools),
                            Tool(reader.tools + 1, call.id)) EXCEPT !.tools = @ + 1,
                                                                    !.block = "tool_use"]
    IN  IF call.args = 0 THEN begun
        ELSE Take(Check(begun, call.index = begun.tools - 1 /\ begun.block = "tool_use"),
                  Args(call.index + 1, call.args))

ReadCalls(reader, calls) == FoldLeft(ReadCall, reader, calls)

ReadChunk(reader, chunk) ==
    LET text == IF chunk.text = 0 THEN reader
                ELSE [Take(reader, Text(chunk.text)) EXCEPT !.block = "text"]
        calls == ReadCalls(text, chunk.calls)
        late == reader.stop # "" /\ (chunk.text # 0 \/ chunk.calls # <<>> \/ chunk.finish # "")
    IN  [Check(calls, ~reader.ended /\ ~late) EXCEPT
            !.stop = IF chunk.finish = "" THEN @ ELSE chunk.finish,
            !.usage = IF chunk.usage THEN "all" ELSE @,
            !.ended = @ \/ chunk.done]

ReadEvent(reader, ev) ==
    LET r == Check(reader, ~reader.ended /\ (ev.type = "message_start" <=> ~reader.started))
        current == reader.open /\ ev.index = reader.blocks - 1
    IN  CASE ev.type = "message_start" ->
                [r EXCEPT !.started = TRUE, !.usage = "input"]
          [] ev.type = "content_block_start" ->
                LET s == [Check(r, ~r.open /\ ev.index = r.blocks /\ r.stop = "") EXCEPT
                             !.open = TRUE, !.block = ev.block, !.blocks = @ + 1]
                IN  IF ev.block # "tool_use" THEN s
                    ELSE [Take(s, Tool(s.tools + 1, ev.piece)) EXCEPT !.tools = @ + 1]
          [] ev.type = "content_block_delta" ->
                LET s == Check(r, current /\ ev.block = r.block)
                IN  CASE ev.block = "text" -> Take(s, Text(ev.piece))
                      [] ev.block = "tool_use" -> Take(s, Args(s.tools, ev.piece))
                      [] OTHER -> s
          [] ev.type = "content_block_stop" -> [Check(r, current) EXCEPT !.open = FALSE]
          [] ev.type = "message_delta" ->
                [Check(r, ~r.open /\ r.stop = "") EXCEPT !.stop = ev.stop, !.usage = "all"]
          [] ev.type = "message_stop" -> [Check(r, r.stop # "") EXCEPT !.ended = TRUE]

\* A chunk of Gemini: parts, each text or a whole function call.
ReadPart(r, p) ==
    IF p.kind = "text" THEN Take(r, Text(p.piece))
    ELSE [Take(Take(r, Tool(r.tools + 1, p.piece)), Args(r.tools + 1, p.piece))
            EXCEPT !.tools = @ + 1]

ReadParts(reader, parts) == FoldLeft(ReadPart, reader, parts)

ReadGemini(reader, chunk) ==
    [Check(ReadParts(reader, chunk.parts), reader.stop = "") EXCEPT
        !.stop = chunk.finish, !.usage = IF chunk.usage THEN "all" ELSE @]

Read(protocol, reader, frame) ==
    CASE protocol = "openai" -> ReadChunk(reader, frame)
      [] protocol = "anthropic" -> ReadEvent(reader, frame)
      [] protocol = "gemini" -> ReadGemini(reader, frame)

ReadAll(protocol, reader, frames) ==
    FoldLeft(LAMBDA r, f : Read(protocol, r, f), reader, frames)

-----------------------------------------------------------------------------
(* Stop reasons *)

GeminiFinishToCanon(reason) == IF reason = "MAX_TOKENS" THEN "max_tokens" ELSE "end_turn"

-----------------------------------------------------------------------------
(* Decoders: a payload becomes canonical events *)

Canon(type, n) == [type |-> type, piece |-> n, stop |-> ""]
Finish(stop) == [type |-> "finish", piece |-> 0, stop |-> stop]

\* The decoder after a payload, and the events in order.
NewDecoder == [tool |-> FALSE, text |-> FALSE, block |-> "", usage |-> "none", events |-> <<>>]
Produce(d, events) == [d EXCEPT !.events = @ \o events]

\* The block that is open, of text or of a tool, is closed.
StopBlock(d, when) == IF when THEN Produce(d, <<Canon("block_stop", 0)>>) ELSE d

OpenAIText(d, n) ==
    [Produce(StopBlock(d, d.tool), <<Canon("text_delta", n)>>) EXCEPT !.tool = FALSE,
                                                                      !.text = TRUE]

\* Mutant: the delta that begins a call is not looked at for arguments.
OpenAICallOrArgs(d, call) ==
    IF call.id = 0 THEN Produce(d, <<Canon("tool_args_delta", call.args)>>)
    ELSE [Produce(StopBlock(d, d.tool \/ d.text), <<Canon("tool_use_start", call.id)>>)
            EXCEPT !.tool = TRUE, !.text = FALSE]

OpenAICall(d, call) ==
    LET begun == IF call.id = 0 THEN d
                 ELSE [Produce(StopBlock(d, d.tool \/ d.text), <<Canon("tool_use_start", call.id)>>)
                         EXCEPT !.tool = TRUE, !.text = FALSE]
    IN  IF call.args = 0 THEN begun
        ELSE Produce(begun, <<Canon("tool_args_delta", call.args)>>)

OpenAICalls(d, calls) == FoldLeft(OpenAICall, d, calls)

OpenAIFinish(d, reason) ==
    [Produce(StopBlock(d, d.tool \/ d.text), <<Finish(OpenAIFinishToCanon(reason))>>)
        EXCEPT !.tool = FALSE, !.text = FALSE]

DecodeOpenAI(d, chunk) ==
    LET read == IF chunk.usage THEN [d EXCEPT !.usage = "all"] ELSE d
        text == IF chunk.text = 0 THEN read ELSE OpenAIText(read, chunk.text)
        calls == OpenAICalls(text, chunk.calls)
    IN  IF chunk.finish = "" THEN calls ELSE OpenAIFinish(calls, chunk.finish)

\* Blocks of thinking have no canonical form: nothing of them is passed on.
DecodeAnthropic(d, ev) ==
    LET hidden == d.block = "thinking"
    IN  CASE ev.type = "message_start" -> [d EXCEPT !.usage = "input"]
          [] ev.type = "content_block_start" ->
                Produce([d EXCEPT !.block = ev.block],
                        IF ev.block = "tool_use" THEN <<Canon("tool_use_start", ev.piece)>>
                        ELSE <<>>)
          [] ev.type = "content_block_delta" /\ ~hidden ->
                Produce(d, <<Canon(IF ev.block = "text" THEN "text_delta"
                                   ELSE "tool_args_delta", ev.piece)>>)
          [] ev.type = "content_block_stop" ->
                StopBlock([d EXCEPT !.block = ""], ~hidden)
          [] ev.type = "message_delta" ->
                Produce([d EXCEPT !.usage = "all"], <<Finish(ev.stop)>>)
          [] OTHER -> d

\* A function call is a whole block; the end of text is left to the encoder.
GeminiPart(d, p) ==
    IF p.kind = "text" THEN Produce(d, <<Canon("text_delta", p.piece)>>)
    ELSE Produce(d, <<Canon("tool_use_start", p.piece), Canon("tool_args_delta", p.piece),
                      Canon("block_stop", 0)>>)

GeminiParts(d, parts) == FoldLeft(GeminiPart, d, parts)

DecodeGemini(d, chunk) ==
    LET parts == GeminiParts(d, chunk.parts)
        read == IF chunk.usage THEN [parts EXCEPT !.usage = "all"] ELSE parts
    IN  IF chunk.finish = "" THEN read
        ELSE Produce(read, <<Finish(GeminiFinishToCanon(chunk.finish))>>)

Decode(payload) ==
    LET d == [dec EXCEPT !.events = <<>>]
    IN  CASE up = "openai" -> DecodeOpenAI(d, payload)
          [] up = "anthropic" -> DecodeAnthropic(d, payload)
          [] up = "gemini" -> DecodeGemini(d, payload)

-----------------------------------------------------------------------------
(* Encoders: a canonical event becomes frames *)

NewEncoder == [started |-> FALSE, index |-> -1, open |-> FALSE, block |-> "", tools |-> -1,
               stop |-> "", done |-> FALSE, frames |-> <<>>]
Emit(e, frame) == [e EXCEPT !.frames = Append(@, frame)]

EnsureStart(e) ==
    IF e.started THEN e ELSE Emit([e EXCEPT !.started = TRUE], Event("message_start"))

\* Mutant: a block that was never opened is closed as well.
CloseAnyBlock(e) ==
    Emit([e EXCEPT !.open = FALSE], [Event("content_block_stop") EXCEPT !.index = e.index])

CloseBlock(e) ==
    IF ~e.open THEN e
    ELSE Emit([e EXCEPT !.open = FALSE], [Event("content_block_stop") EXCEPT !.index = e.index])

OpenBlock(e, type, n) ==
    LET c == CloseBlock(e)
    IN  Emit([c EXCEPT !.index = @ + 1, !.open = TRUE, !.block = type],
             [Event("content_block_start") EXCEPT !.index = c.index + 1, !.block = type,
                                                  !.piece = n])

Delta(e, type, n) ==
    Emit(e, [Event("content_block_delta") EXCEPT !.index = e.index, !.block = type, !.piece = n])

EncodeAnthropic(enc0, ev) ==
    LET e == EnsureStart(enc0)
    IN  CASE ev.type = "text_delta" ->
                Delta(IF e.open /\ e.block = "text" THEN e ELSE OpenBlock(e, "text", 0),
                      "text", ev.piece)
          [] ev.type = "tool_use_start" -> OpenBlock(e, "tool_use", ev.piece)
          [] ev.type = "tool_args_delta" -> Delta(e, "tool_use", ev.piece)
          [] ev.type = "block_stop" -> CloseBlock(e)
          [] ev.type = "finish" -> [e EXCEPT !.stop = ev.stop]

EncodeOpenAI(e, ev) ==
    CASE ev.type = "text_delta" -> Emit(e, [Chunk EXCEPT !.text = ev.piece])
      [] ev.type = "tool_use_start" ->
            Emit([e EXCEPT !.tools = @ + 1],
                 [Chunk EXCEPT !.calls = <<Call(e.tools + 1, ev.piece, 0)>>])
      [] ev.type = "tool_args_delta" ->
            Emit(e, [Chunk EXCEPT !.calls = <<Call(e.tools, 0, ev.piece)>>])
      [] ev.type = "finish" -> [e EXCEPT !.stop = ev.stop]
      [] OTHER -> e

FinishAnthropic(enc0) ==
    LET e == CloseBlock(EnsureStart(enc0))
        stop == IF e.stop = "" THEN "end_turn" ELSE e.stop
    IN  Emit(Emit(e, [Event("message_delta") EXCEPT !.stop = stop]), Event("message_stop"))

FinishOpenAI(e) ==
    LET final == [Chunk EXCEPT !.finish = CanonStopToOpenAI(e.stop)]
    IN  Emit(Emit(Emit(e, final), [Chunk EXCEPT !.usage = TRUE]), [Chunk EXCEPT !.done = TRUE])

\* canonicalStream.ProcessPayload and ProcessDone; the passages hand payloads
\* on, and the one of OpenAI ends with [DONE].
Encode(e, ev) == IF down = "anthropic" THEN EncodeAnthropic(e, ev) ELSE EncodeOpenAI(e, ev)

EncodeAll(e, events) == FoldLeft(Encode, e, events)

Converted(d) == EncodeAll([enc EXCEPT !.frames = <<>>], d.events)

ProcessDone ==
    LET e == [enc EXCEPT !.frames = <<>>]
    IN  CASE Passthrough /\ down = "openai" -> Emit(e, [Chunk EXCEPT !.done = TRUE])
          [] Passthrough /\ down = "anthropic" -> e
          [] ~Passthrough /\ e.done -> e
          [] ~Passthrough /\ ~e.done /\ down = "openai" -> FinishOpenAI([e EXCEPT !.done = TRUE])
          [] OTHER -> FinishAnthropic([e EXCEPT !.done = TRUE])

-----------------------------------------------------------------------------
(* streamResponse *)

\* writeFrames: nothing is written to a client that has left.
WriteFrames(frames) ==
    client' = IF clientGone THEN client
              ELSE ReadAll(down, client, frames)

\* The upstream keeps to its protocol.
Payload(payload) ==
    /\ ~ended /\ ~doneSent
    /\ source' = Read(up, source, payload) /\ ~source'.bad
    /\ Len(source'.content) <= MaxPieces
    /\ dec' = Decode(payload)
    /\ IF Passthrough THEN WriteFrames(<<payload>>) /\ UNCHANGED enc
       ELSE enc' = Converted(dec') /\ WriteFrames(enc'.frames)
    /\ UNCHANGED <<up, down, clientGone, doneSent, ended, basis>>

NextPiece == Len(source.content) + 1

OpenAIPayload ==
    /\ up = "openai"
    /\ \E text, args, more \in BOOLEAN, id \in BOOLEAN,
          finish \in {"", "stop", "length", "tool_calls"}, usage \in BOOLEAN :
        LET n == IF text THEN NextPiece + 1 ELSE NextPiece
            k == source.tools - (IF id THEN 0 ELSE 1)
            call == Call(k, IF id THEN n ELSE 0, IF args THEN (IF id THEN n + 1 ELSE n) ELSE 0)
            calls == (IF id \/ args THEN <<call>> ELSE <<>>)
                       \o (IF more /\ id THEN <<Call(k + 1, n + 2, 0)>> ELSE <<>>)
        IN  /\ more => id /\ args
            /\ text \/ id \/ args \/ finish # "" \/ usage
            /\ usage => ~text /\ ~id /\ ~args /\ finish = "" /\ source.stop # ""
            /\ Payload([Chunk EXCEPT !.text = IF text THEN NextPiece ELSE 0, !.calls = calls,
                                     !.finish = finish, !.usage = usage])

AnthropicPayload ==
    /\ up = "anthropic"
    /\ \E ev \in {Event("message_start"), Event("message_stop"),
                  [Event("content_block_stop") EXCEPT !.index = source.blocks - 1]}
              \cup {[Event("content_block_start") EXCEPT !.index = source.blocks, !.block = b,
                         !.piece = IF b = "tool_use" THEN NextPiece ELSE 0] :
                      b \in {"text", "tool_use", "thinking"}}
              \cup {[Event("content_block_delta") EXCEPT !.index = source.blocks - 1,
                         !.block = source.block, !.piece = NextPiece]}
              \cup {[Event("message_delta") EXCEPT !.stop = s] :
                      s \in {"end_turn", "max_tokens", "tool_use", "stop_sequence"}} :
        /\ ev.type = "content_block_start" => source.blocks < MaxPieces
        /\ Payload(ev)

GeminiPayload ==
    /\ up = "gemini"
    /\ \E parts \in {<<"text">>, <<"call">>, <<"text", "call">>, <<"call", "call">>,
                     <<"call", "text">>, <<>>},
          finish \in {"", "STOP", "MAX_TOKENS"}, usage \in BOOLEAN :
        LET at(i) == NextPiece + i - 1
        IN  /\ parts # <<>> \/ finish # ""
            /\ finish # "" => usage
            /\ Payload([parts |-> [i \in DOMAIN parts |-> [kind |-> parts[i], piece |-> at(i)]],
                        finish |-> finish, usage |-> usage])

\* The line [DONE]; only OpenAI sends one.
DoneMarker ==
    /\ ~ended /\ ~doneSent /\ up = "openai"
    /\ doneSent' = TRUE
    /\ source' = [source EXCEPT !.ended = TRUE]
    /\ enc' = ProcessDone /\ WriteFrames(enc'.frames)
    /\ UNCHANGED <<up, down, dec, clientGone, ended, basis>>

\* The upstream closes the stream, orderly or not, and the request is settled.
EndOfStream ==
    /\ ~ended /\ ended' = TRUE
    /\ IF doneSent THEN UNCHANGED <<enc, client>>
       ELSE enc' = ProcessDone /\ WriteFrames(enc'.frames)
    /\ basis' = IF dec.usage = "none" THEN "estimate" ELSE dec.usage
    /\ UNCHANGED <<up, down, source, dec, clientGone, doneSent>>

\* The upstream is read to its end all the same.
ClientLeaves ==
    /\ ~ended /\ ~clientGone /\ clientGone' = TRUE
    /\ UNCHANGED <<up, down, source, dec, enc, client, doneSent, ended, basis>>

-----------------------------------------------------------------------------
StreamInit ==
    /\ up \in {"openai", "anthropic", "gemini"} /\ down \in {"openai", "anthropic"}
    /\ source = NewReader /\ client = NewReader
    /\ dec = NewDecoder /\ enc = NewEncoder
    /\ clientGone = FALSE /\ doneSent = FALSE /\ ended = FALSE /\ basis = ""

StreamNext ==
    OpenAIPayload \/ AnthropicPayload \/ GeminiPayload \/ DoneMarker \/ EndOfStream
        \/ ClientLeaves

StreamSpec == StreamInit /\ [][StreamNext]_streamVars

-----------------------------------------------------------------------------
(* Properties *)

\* The canonical stop reason of a stream read to its end.
StopOf(protocol, stop) ==
    CASE stop = "" -> "end_turn"
      [] protocol = "openai" -> OpenAIFinishToCanon(stop)
      [] protocol = "gemini" -> GeminiFinishToCanon(stop)
      [] OTHER -> stop

\* Whatever the upstream sends within its protocol and wherever it breaks off,
\* the client gets a stream its own protocol allows: blocks are opened, filled
\* and closed in order, nothing follows the end, and the end is there. Only the
\* passage of a stream Anthropic broke off has none.
StreamWellFormed ==
    /\ ~client.bad
    /\ ended /\ ~clientGone =>
           /\ client.ended \/ (Passthrough /\ up = "anthropic" /\ ~source.ended)
           /\ client.open => Passthrough

\* The client reads the pieces the upstream sent, all of them, in their order
\* and under the tool call they belong to, and in the end why it stopped, as
\* far as its protocol can say it; the request is settled by the usage the
\* upstream reported, also when the client has left, and estimated only when
\* there was none.
NothingLost ==
    /\ ~clientGone => client.content = source.content
    /\ ended /\ ~clientGone /\ client.stop # "" =>
           LET sent == StopOf(up, source.stop)
           IN  StopOf(down, client.stop) \in
                   {sent, IF down = "openai" /\ sent = "stop_sequence" THEN "end_turn" ELSE sent}
    /\ ended => basis = IF source.usage = "none" THEN "estimate" ELSE source.usage
=============================================================================
