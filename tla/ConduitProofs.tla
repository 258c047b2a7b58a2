----------------------------- MODULE ConduitProofs -----------------------------
(***************************************************************************)
(* Proofs about the streams of Conduit, for any pieces, tables, prices and *)
(* models: what a client reads is a stream its protocol allows, and it is  *)
(* what the upstream has sent.                                             *)
(*                                                                         *)
(* A payload goes through three folds: the decoder turns it into events,   *)
(* the encoder turns each event into frames, the client reads each frame.  *)
(* So the argument is by one event, one call, one part at a time.          *)
(*   - Follows: how the client stands to the encoder. Each canonical event *)
(*     that is encoded keeps it, with what the event says added to what    *)
(*     the client has read (TextEncoded ... FinishEncoded).                *)
(*   - Along: the same, for all the events a decoder has produced.         *)
(*   - OpenAILinked, AnthropicLinked, GeminiLinked: how the decoder stands *)
(*     to a reader of the upstream's own protocol. Whatever that reader    *)
(*     finds nothing wrong with keeps it (OpenAIDecoded, AnthropicDecoded, *)
(*     GeminiDecoded).                                                     *)
(*   - DoneEnds: after any of it, processDone ends the client's stream.    *)
(* ConduitInv joins them with the phases of a stream, the pass-through of  *)
(* a stream whose protocols agree, and the usage that settles it.          *)
(***************************************************************************)
EXTENDS Conduit, SequenceTheorems, FiniteSetTheorems, TLAPS

-----------------------------------------------------------------------------
(* Folds over events, frames, calls and parts, step by step *)

\* The folds of the model, in the order their lists are in.
Encodes == INSTANCE FoldProofs WITH Op <- LAMBDA x, y : Encode(y, x),
                                    Pick <- LAMBDA S : Max(S)
Reads == INSTANCE FoldProofs WITH Op <- LAMBDA x, y : Read(down, y, x),
                                  Pick <- LAMBDA S : Max(S)
CallsRead == INSTANCE FoldProofs WITH Op <- LAMBDA x, y : ReadCall(y, x),
                                      Pick <- LAMBDA S : Max(S)
CallsDecoded == INSTANCE FoldProofs WITH Op <- LAMBDA x, y : OpenAICall(y, x),
                                         Pick <- LAMBDA S : Max(S)
PartsRead == INSTANCE FoldProofs WITH Op <- LAMBDA x, y : ReadPart(y, x),
                                      Pick <- LAMBDA S : Max(S)
PartsDecoded == INSTANCE FoldProofs WITH Op <- LAMBDA x, y : GeminiPart(y, x),
                                         Pick <- LAMBDA S : Max(S)

\* A sequence, of whatever it is.
Listed(s) == \E T : s \in Seq(T)

\* A sequence with one more element is a sequence.
LEMMA ListedAppend ==
    ASSUME NEW s, Listed(s), NEW x
    PROVE  /\ \E T : s \in Seq(T) /\ x \in T
           /\ Listed(Append(s, x)) /\ s \o <<x>> = Append(s, x)
<1>1. PICK T : s \in Seq(T)
  BY DEF Listed
<1>2. s \in Seq(T \cup {x}) /\ x \in T \cup {x}
  <2>1. \A i \in 1..Len(s) : s[i] \in T \cup {x}
    BY <1>1, ElementOfSeq
  <2>2. s = [i \in 1..Len(s) |-> s[i]] /\ Len(s) \in Nat
    BY <1>1, LenProperties
  <2>3. [i \in 1..Len(s) |-> s[i]] \in Seq(T \cup {x})
    BY <2>1, <2>2
  <2> QED BY <2>2, <2>3
<1>3. Append(s, x) \in Seq(T \cup {x}) /\ s \o <<x>> = Append(s, x)
  BY <1>2, AppendProperties, AppendIsConcat
<1> QED BY <1>2, <1>3 DEF Listed

LEMMA ListedEmpty == Listed(<<>>)
<1>1. <<>> \in Seq({})
  OBVIOUS
<1> QED BY <1>1 DEF Listed

\* The frames of a list of events: the last event is encoded last.
LEMMA EncodeAllSteps ==
    /\ \A e : EncodeAll(e, <<>>) = e
    /\ \A e, s, x : Listed(s) => EncodeAll(e, Append(s, x)) = Encode(EncodeAll(e, s), x)
<1>1. ASSUME NEW e, NEW s PROVE EncodeAll(e, s) = Encodes!Fold(s, e, DOMAIN s)
  BY Zenon DEF EncodeAll, FoldLeft, MapThenFoldSet, Encodes!Fold, Encodes!MapThenFoldSet
<1>2. Encodes!PicksLast
  BY Encodes!MaxPicks DEF Encodes!PicksLast, Max, Encodes!Max
<1>3. ASSUME NEW e PROVE EncodeAll(e, <<>>) = e
  BY <1>1, <1>2, Encodes!FoldNothing
<1>4. ASSUME NEW e, NEW s, Listed(s), NEW x
      PROVE  EncodeAll(e, Append(s, x)) = Encode(EncodeAll(e, s), x)
  <2>1. PICK T : s \in Seq(T) /\ x \in T
    BY <1>4, ListedAppend
  <2> QED BY <1>1, <1>2, <2>1, Encodes!FoldOneMore
<1> QED BY <1>3, <1>4

\* A client reads a list of frames up to the last one.
LEMMA ReadAllSteps ==
    /\ \A r : ReadAll(down, r, <<>>) = r
    /\ \A r, x : ReadAll(down, r, <<x>>) = Read(down, r, x)
    /\ \A r, s, x : Listed(s) => ReadAll(down, r, Append(s, x)) = Read(down, ReadAll(down, r, s), x)
<1>1. ASSUME NEW r, NEW s PROVE ReadAll(down, r, s) = Reads!Fold(s, r, DOMAIN s)
  BY Zenon DEF ReadAll, FoldLeft, MapThenFoldSet, Reads!Fold, Reads!MapThenFoldSet
<1>2. Reads!PicksLast
  BY Reads!MaxPicks DEF Reads!PicksLast, Max, Reads!Max
<1>3. ASSUME NEW r PROVE ReadAll(down, r, <<>>) = r
  BY <1>1, <1>2, Reads!FoldNothing
<1>4. ASSUME NEW r, NEW s, Listed(s), NEW x
      PROVE  ReadAll(down, r, Append(s, x)) = Read(down, ReadAll(down, r, s), x)
  <2>1. PICK T : s \in Seq(T) /\ x \in T
    BY <1>4, ListedAppend
  <2>2. Reads!Fold(Append(s, x), r, DOMAIN Append(s, x)) =
           Read(down, Reads!Fold(s, r, DOMAIN s), x)
    BY <1>2, <2>1, Reads!FoldOneMore
  <2>3. /\ ReadAll(down, r, Append(s, x)) = Reads!Fold(Append(s, x), r, DOMAIN Append(s, x))
        /\ ReadAll(down, r, s) = Reads!Fold(s, r, DOMAIN s)
    BY <1>1, Zenon
  <2> QED BY <2>2, <2>3, Zenon
<1>5. ASSUME NEW r, NEW x PROVE ReadAll(down, r, <<x>>) = Read(down, r, x)
  BY <1>1, <1>2, Reads!FoldOfOne
<1> QED BY <1>3, <1>4, <1>5

\* The calls of a chunk, read one after the other.
LEMMA ReadCallsSteps ==
    /\ \A a : ReadCalls(a, <<>>) = a
    /\ \A a, x : ReadCalls(a, <<x>>) = ReadCall(a, x)
    /\ \A a, x, y : ReadCalls(a, <<x, y>>) = ReadCall(ReadCall(a, x), y)
<1>1. ASSUME NEW a, NEW s PROVE ReadCalls(a, s) = CallsRead!Fold(s, a, DOMAIN s)
  BY Zenon DEF ReadCalls, FoldLeft, MapThenFoldSet, CallsRead!Fold, CallsRead!MapThenFoldSet
<1>2. CallsRead!PicksLast
  BY CallsRead!MaxPicks DEF CallsRead!PicksLast, Max, CallsRead!Max
<1> QED BY <1>1, <1>2, CallsRead!FoldNothing, CallsRead!FoldOfOne, CallsRead!FoldOfTwo

\* The calls of a chunk, decoded one after the other.
LEMMA OpenAICallsSteps ==
    /\ \A a : OpenAICalls(a, <<>>) = a
    /\ \A a, x : OpenAICalls(a, <<x>>) = OpenAICall(a, x)
    /\ \A a, x, y : OpenAICalls(a, <<x, y>>) = OpenAICall(OpenAICall(a, x), y)
<1>1. ASSUME NEW a, NEW s PROVE OpenAICalls(a, s) = CallsDecoded!Fold(s, a, DOMAIN s)
  BY Zenon DEF OpenAICalls, FoldLeft, MapThenFoldSet, CallsDecoded!Fold, CallsDecoded!MapThenFoldSet
<1>2. CallsDecoded!PicksLast
  BY CallsDecoded!MaxPicks DEF CallsDecoded!PicksLast, Max, CallsDecoded!Max
<1> QED BY <1>1, <1>2, CallsDecoded!FoldNothing, CallsDecoded!FoldOfOne, CallsDecoded!FoldOfTwo

\* The parts of a chunk, read one after the other.
LEMMA ReadPartsSteps ==
    /\ \A a : ReadParts(a, <<>>) = a
    /\ \A a, x : ReadParts(a, <<x>>) = ReadPart(a, x)
    /\ \A a, x, y : ReadParts(a, <<x, y>>) = ReadPart(ReadPart(a, x), y)
<1>1. ASSUME NEW a, NEW s PROVE ReadParts(a, s) = PartsRead!Fold(s, a, DOMAIN s)
  BY Zenon DEF ReadParts, FoldLeft, MapThenFoldSet, PartsRead!Fold, PartsRead!MapThenFoldSet
<1>2. PartsRead!PicksLast
  BY PartsRead!MaxPicks DEF PartsRead!PicksLast, Max, PartsRead!Max
<1> QED BY <1>1, <1>2, PartsRead!FoldNothing, PartsRead!FoldOfOne, PartsRead!FoldOfTwo

\* The parts of a chunk, decoded one after the other.
LEMMA GeminiPartsSteps ==
    /\ \A a : GeminiParts(a, <<>>) = a
    /\ \A a, x : GeminiParts(a, <<x>>) = GeminiPart(a, x)
    /\ \A a, x, y : GeminiParts(a, <<x, y>>) = GeminiPart(GeminiPart(a, x), y)
<1>1. ASSUME NEW a, NEW s PROVE GeminiParts(a, s) = PartsDecoded!Fold(s, a, DOMAIN s)
  BY Zenon DEF GeminiParts, FoldLeft, MapThenFoldSet, PartsDecoded!Fold, PartsDecoded!MapThenFoldSet
<1>2. PartsDecoded!PicksLast
  BY PartsDecoded!MaxPicks DEF PartsDecoded!PicksLast, Max, PartsDecoded!Max
<1> QED BY <1>1, <1>2, PartsDecoded!FoldNothing, PartsDecoded!FoldOfOne, PartsDecoded!FoldOfTwo

-----------------------------------------------------------------------------
(* The client of an encoder *)

\* What the client reads, by the time the encoder has come to e in a payload.
Seen(e) == ReadAll(down, client, e.frames)

\* An encoder and a reader, of which only these are changed.
EncoderShape(e) ==
    /\ DOMAIN e = DOMAIN NewEncoder /\ Listed(e.frames)
    /\ e.started \in BOOLEAN /\ e.open \in BOOLEAN /\ e.index \in Int /\ e.tools \in Int

ReaderShape(r) == DOMAIN r = DOMAIN NewReader /\ r.blocks \in Nat /\ r.tools \in Nat

\* Neither is at its end.
Going(e, r) == r.bad = FALSE /\ r.ended = FALSE /\ r.stop = "" /\ e.done = FALSE

\* The client has read content, tools of it calls, and nothing is wrong.
Following(e, r, content, tools) ==
    /\ EncoderShape(e) /\ ReaderShape(r)
    /\ r.content = content /\ r.tools = tools
    /\ Going(e, r)

LEMMA EncoderFields ==
    DOMAIN NewEncoder = {"started", "index", "open", "block", "tools", "stop", "done", "frames"}
BY DEF NewEncoder

LEMMA ReaderFields ==
    DOMAIN NewReader = {"started", "open", "block", "blocks", "tools", "content", "stop", "usage",
                        "ended", "bad"}
BY DEF NewReader

\* A frame reaches the client.
LEMMA EmitStep ==
    ASSUME NEW e, EncoderShape(e), NEW frame
    PROVE  /\ EncoderShape(Emit(e, frame)) /\ Seen(Emit(e, frame)) = Read(down, Seen(e), frame)
           /\ \A x \in DOMAIN NewEncoder : x # "frames" => Emit(e, frame)[x] = e[x]
<1> DEFINE x == Emit(e, frame)
<1>1. DOMAIN x = DOMAIN NewEncoder /\ x.frames = Append(e.frames, frame)
  BY EncoderFields DEF EncoderShape, Emit
<1>2. \A y \in DOMAIN NewEncoder : y # "frames" => x[y] = e[y]
  BY EncoderFields DEF EncoderShape, Emit
<1>3. Listed(x.frames)
  BY <1>1, ListedAppend DEF EncoderShape
<1>4. ReadAll(down, client, Append(e.frames, frame)) = Read(down, ReadAll(down, client, e.frames), frame)
  BY ReadAllSteps DEF EncoderShape
<1> HIDE DEF x
<1>5. /\ x.started = e.started /\ x.open = e.open /\ x.index = e.index /\ x.tools = e.tools
  BY <1>2, EncoderFields
<1>6. EncoderShape(x)
  BY <1>1, <1>3, <1>5 DEF EncoderShape
<1> QED BY <1>1, <1>2, <1>4, <1>6 DEF Seen, x

-----------------------------------------------------------------------------
(* A client of Anthropic *)

\* It has the encoder's block open.
AnthropicFollows(e, r, content, tools) ==
    /\ Following(e, r, content, tools)
    /\ r.started = e.started /\ r.open = e.open /\ r.blocks = e.index + 1
    /\ e.open => r.block = e.block

\* Such an encoder, in a given state.
At(e, content, tools, started, open, block, stop) ==
    /\ AnthropicFollows(e, Seen(e), content, tools)
    /\ e.started = started /\ e.open = open /\ e.block = block /\ e.stop = stop

\* ensureStart: message_start is sent once, before anything else.
LEMMA AnthropicStart ==
    ASSUME NEW e, NEW content, NEW tools, down = "anthropic",
           AnthropicFollows(e, Seen(e), content, tools)
    PROVE  LET x == EnsureStart(e)
           IN  /\ AnthropicFollows(x, Seen(x), content, tools)
               /\ x.started = TRUE /\ x.open = e.open /\ x.block = e.block /\ x.stop = e.stop
<1>1. CASE e.started
  BY <1>1 DEF EnsureStart
<1>2. CASE ~e.started
  <2> DEFINE y == [e EXCEPT !.started = TRUE]
             x == EnsureStart(e)
             r == Seen(e)
             s == Seen(x)
  <2>1. EncoderShape(y) /\ y.frames = e.frames /\ x = Emit(y, Event("message_start"))
    BY <1>2, EncoderFields DEF EncoderShape, AnthropicFollows, Following, EnsureStart
  <2>2. /\ EncoderShape(x) /\ s = ReadEvent(r, Event("message_start"))
        /\ \A z \in DOMAIN NewEncoder : z # "frames" => x[z] = y[z]
    <3> HIDE DEF y, x
    <3>1. Seen(y) = r
      BY <2>1 DEF Seen
    <3> QED BY <2>1, <3>1, EmitStep DEF Read
  <2>3. /\ x.started = TRUE /\ x.open = e.open /\ x.block = e.block /\ x.stop = e.stop
        /\ x.index = e.index /\ x.done = e.done
    <3>1. /\ y.started = TRUE /\ y.open = e.open /\ y.block = e.block /\ y.stop = e.stop
          /\ y.index = e.index /\ y.done = e.done
      BY EncoderFields DEF AnthropicFollows, Following, EncoderShape
    <3> HIDE DEF y, x
    <3> QED BY <2>2, <3>1, EncoderFields
  <2> HIDE DEF x, y, s, r
  <2>4. /\ DOMAIN r = DOMAIN NewReader /\ r.bad = FALSE /\ r.ended = FALSE /\ r.started = FALSE
    BY <1>2 DEF AnthropicFollows, Following, Going, ReaderShape, EncoderShape, r
  <2>5. s = [r EXCEPT !.started = TRUE, !.usage = "input", !.bad = FALSE]
    BY <2>2, <2>4, ReaderFields DEF ReadEvent, Check, Event
  <2>6. Going(e, r) /\ Going(x, s)
    BY <2>3, <2>4, <2>5, ReaderFields DEF AnthropicFollows, Following, Going, r
  <2>7. AnthropicFollows(x, s, content, tools)
    BY <2>2, <2>3, <2>4, <2>5, <2>6, ReaderFields DEF AnthropicFollows, Following, ReaderShape, r
  <2> QED BY <2>3, <2>7 DEF x, s
<1> QED BY <1>1, <1>2

\* closeBlock: the block that is open is closed, and only that one.
LEMMA AnthropicClose ==
    ASSUME NEW e, NEW content, NEW tools, down = "anthropic",
           AnthropicFollows(e, Seen(e), content, tools), e.started = TRUE
    PROVE  LET x == CloseBlock(e)
           IN  /\ AnthropicFollows(x, Seen(x), content, tools)
               /\ x.started = TRUE /\ x.open = FALSE /\ x.stop = e.stop
<1>1. CASE ~e.open
  BY <1>1 DEF CloseBlock, AnthropicFollows, Following, EncoderShape
<1>2. CASE e.open
  <2> DEFINE y == [e EXCEPT !.open = FALSE]
             frame == [Event("content_block_stop") EXCEPT !.index = e.index]
             x == CloseBlock(e)
             r == Seen(e)
             s == Seen(x)
  <2>1. EncoderShape(y) /\ y.frames = e.frames /\ x = Emit(y, frame)
    BY <1>2, EncoderFields DEF EncoderShape, AnthropicFollows, Following, CloseBlock
  <2>2. /\ EncoderShape(x) /\ s = ReadEvent(r, frame)
        /\ \A z \in DOMAIN NewEncoder : z # "frames" => x[z] = y[z]
    <3> HIDE DEF y, x, frame
    <3>1. Seen(y) = r
      BY <2>1 DEF Seen
    <3> QED BY <2>1, <3>1, EmitStep DEF Read
  <2>3. /\ x.started = TRUE /\ x.open = FALSE /\ x.stop = e.stop
        /\ x.index = e.index /\ x.done = e.done
    <3>1. /\ y.started = TRUE /\ y.open = FALSE /\ y.stop = e.stop
          /\ y.index = e.index /\ y.done = e.done
      BY EncoderFields DEF AnthropicFollows, Following, EncoderShape
    <3> HIDE DEF y, x
    <3> QED BY <2>2, <3>1, EncoderFields
  <2>4. frame.type = "content_block_stop" /\ frame.index = e.index
    BY DEF Event
  <2> HIDE DEF x, y, s, r, frame
  <2>a. /\ DOMAIN r = DOMAIN NewReader /\ r.started = TRUE /\ r.open = TRUE
        /\ e.index = r.blocks - 1
    BY <1>2 DEF AnthropicFollows, Following, ReaderShape, EncoderShape, r
  <2>b. r.bad = FALSE /\ r.ended = FALSE
    BY DEF AnthropicFollows, Following, Going, r
  <2>5. /\ DOMAIN r = DOMAIN NewReader /\ r.bad = FALSE /\ r.ended = FALSE /\ r.started = TRUE
        /\ r.open = TRUE /\ e.index = r.blocks - 1
    BY <2>a, <2>b
  <2>6. s = [r EXCEPT !.open = FALSE, !.bad = FALSE]
    BY <2>2, <2>4, <2>5, ReaderFields DEF ReadEvent, Check
  <2>c. Going(x, s)
    BY <2>3, <2>5, <2>6, ReaderFields DEF AnthropicFollows, Following, Going, r
  <2>7. AnthropicFollows(x, s, content, tools)
    BY <2>2, <2>3, <2>5, <2>6, <2>c, ReaderFields DEF AnthropicFollows, Following, ReaderShape, r
  <2> QED BY <2>3, <2>7 DEF x, s
<1> QED BY <1>1, <1>2 DEF AnthropicFollows, Following, EncoderShape

\* An event, checked against what came before, and the start of a block.
Checked(r, ev) == Check(r, ~r.ended /\ (ev.type = "message_start" <=> ~r.started))
Started(r, ev) ==
    LET c == Checked(r, ev)
    IN  [Check(c, ~c.open /\ ev.index = c.blocks /\ c.stop = "") EXCEPT
            !.open = TRUE, !.block = ev.block, !.blocks = @ + 1]

LEMMA ReadStart ==
    ASSUME NEW r, NEW ev, ev.type = "content_block_start"
    PROVE  LET s == Started(r, ev)
           IN  ReadEvent(r, ev) = IF ev.block # "tool_use" THEN s
                                  ELSE [Take(s, Tool(s.tools + 1, ev.piece)) EXCEPT !.tools = @ + 1]
BY Zenon DEF ReadEvent, Started, Checked

\* openBlock: a block is opened when none is open, with the next index.
LEMMA AnthropicOpen ==
    ASSUME NEW e, NEW content, NEW tools, down = "anthropic",
           AnthropicFollows(e, Seen(e), content, tools), e.started = TRUE,
           NEW type \in {"text", "tool_use"}, NEW n
    PROVE  LET x == OpenBlock(e, type, n)
           IN  /\ type = "text" => At(x, content, tools, TRUE, TRUE, type, e.stop)
               /\ type = "tool_use" => At(x, Append(content, Tool(tools + 1, n)), tools + 1,
                                          TRUE, TRUE, type, e.stop)
<1> DEFINE c == CloseBlock(e)
           y == [c EXCEPT !.index = @ + 1, !.open = TRUE, !.block = type]
           frame == [Event("content_block_start") EXCEPT !.index = c.index + 1, !.block = type,
                                                         !.piece = n]
           x == OpenBlock(e, type, n)
           r == Seen(c)
           s == Seen(x)
<1>1. /\ AnthropicFollows(c, r, content, tools)
      /\ c.started = TRUE /\ c.open = FALSE /\ c.stop = e.stop
  BY AnthropicClose
<1> HIDE DEF c
<1>2. EncoderShape(y) /\ y.frames = c.frames /\ x = Emit(y, frame)
  <2>1. x = Emit(y, frame)
    BY DEF OpenBlock, c
  <2>2. EncoderShape(c)
    BY <1>1 DEF AnthropicFollows, Following
  <2> HIDE DEF x, frame
  <2> QED BY <2>1, <2>2, EncoderFields DEF EncoderShape
<1>3. /\ EncoderShape(x) /\ s = ReadEvent(r, frame)
      /\ \A z \in DOMAIN NewEncoder : z # "frames" => x[z] = y[z]
  <2> HIDE DEF y, x, frame
  <2>1. Seen(y) = r
    BY <1>2 DEF Seen
  <2> QED BY <1>2, <2>1, EmitStep DEF Read
<1>4. /\ x.started = TRUE /\ x.open = TRUE /\ x.block = type /\ x.stop = e.stop
      /\ x.index = c.index + 1 /\ x.done = c.done
  <2>1. /\ y.started = TRUE /\ y.open = TRUE /\ y.block = type /\ y.stop = e.stop
        /\ y.index = c.index + 1 /\ y.done = c.done
    <3>1. EncoderShape(c)
      BY <1>1 DEF AnthropicFollows, Following
    <3> QED BY <1>1, <3>1, EncoderFields DEF EncoderShape
  <2> HIDE DEF y, x
  <2> QED BY <1>3, <2>1, EncoderFields
<1>5. /\ frame.type = "content_block_start" /\ frame.index = c.index + 1 /\ frame.block = type
      /\ frame.piece = n
  BY DEF Event
<1> HIDE DEF x, y, r, s, frame
<1>a. /\ DOMAIN r = DOMAIN NewReader /\ r.started = TRUE /\ r.open = FALSE
      /\ c.index + 1 = r.blocks /\ r.tools = tools /\ tools \in Nat
      /\ r.blocks \in Nat /\ r.content = content
  BY <1>1 DEF AnthropicFollows, Following, ReaderShape, EncoderShape
<1>b. r.bad = FALSE /\ r.ended = FALSE /\ r.stop = "" /\ c.done = FALSE
  BY <1>1 DEF AnthropicFollows, Following, Going
<1> DEFINE began == [r EXCEPT !.open = TRUE, !.block = type, !.blocks = r.blocks + 1, !.bad = FALSE]
<1>c. Started(r, frame) = began
  <2>1. Checked(r, frame) = [r EXCEPT !.bad = FALSE]
    BY <1>5, <1>a, <1>b, ReaderFields DEF Checked, Check
  <2> QED BY <1>5, <1>a, <1>b, <2>1, ReaderFields DEF Started, Check
<1>d. s = IF type # "tool_use" THEN began
          ELSE [Take(began, Tool(began.tools + 1, n)) EXCEPT !.tools = @ + 1]
  <2> HIDE DEF began
  <2> QED BY <1>3, <1>5, <1>c, ReadStart, Zenon
<1>e. DOMAIN began = DOMAIN NewReader
  BY <1>a
<1>7. CASE type = "text"
  <2>1. s = began
    BY <1>d, <1>7
  <2>2. Going(x, s)
    BY <1>4, <1>a, <1>b, <2>1, ReaderFields DEF Going
  <2> HIDE DEF began
  <2>3. DOMAIN s = DOMAIN NewReader /\ s.content = content /\ s.tools = tools
        /\ s.started = TRUE /\ s.open = TRUE /\ s.block = type /\ s.blocks = r.blocks + 1
    BY <1>a, <2>1, ReaderFields DEF began
  <2>4. AnthropicFollows(x, s, content, tools)
    <3>1. EncoderShape(x)
      BY <1>3
    <3>2. s.blocks = x.index + 1
      BY ONLY <1>4, <1>a, <2>2, <2>3
    <3>3. ReaderShape(s)
      BY ONLY <1>a, <2>2, <2>3 DEF ReaderShape
    <3> QED BY ONLY <1>4, <3>1, <3>2, <3>3, <2>2, <2>3 DEF AnthropicFollows, Following
  <2> QED BY <1>4, <1>7, <2>4 DEF x, s, At
<1>8. CASE type = "tool_use"
  <2>1. s = [Take(began, Tool(began.tools + 1, n)) EXCEPT !.tools = @ + 1]
    BY <1>d, <1>8
  <2> HIDE DEF began
  <2>2. DOMAIN began = DOMAIN NewReader /\ began.content = content /\ began.tools = tools
        /\ began.started = TRUE /\ began.open = TRUE /\ began.block = type
        /\ began.blocks = r.blocks + 1
    BY <1>a, ReaderFields DEF began
  <2>3. DOMAIN s = DOMAIN NewReader /\ s.content = Append(content, Tool(tools + 1, n))
        /\ s.tools = tools + 1
        /\ s.started = TRUE /\ s.open = TRUE /\ s.block = type /\ s.blocks = r.blocks + 1
    BY <1>a, <2>1, <2>2, ReaderFields DEF Take
  <2>4. Going(x, s)
    <3>1. Going(x, began)
      BY <1>4, <1>a, <1>b, ReaderFields DEF Going, began
    <3> QED BY <2>1, <2>2, <3>1, ReaderFields DEF Going, Take
  <2>5. AnthropicFollows(x, s, Append(content, Tool(tools + 1, n)), tools + 1)
    <3>1. EncoderShape(x)
      BY <1>3
    <3>2. s.blocks = x.index + 1
      BY ONLY <1>4, <1>a, <2>3, <2>4
    <3>3. ReaderShape(s)
      BY ONLY <1>a, <2>3, <2>4 DEF ReaderShape
    <3> QED BY ONLY <1>4, <3>1, <3>2, <3>3, <2>3, <2>4 DEF AnthropicFollows, Following
  <2> QED BY <1>4, <1>8, <2>5 DEF x, s, At
<1> QED BY <1>7, <1>8

\* A block for text that is opened adds nothing to what is read.
LEMMA TextOpened ==
    ASSUME down = "anthropic", NEW e, NEW content, NEW tools, NEW open, NEW block, NEW stop,
           At(e, content, tools, TRUE, open, block, stop)
    PROVE  At(OpenBlock(e, "text", 0), content, tools, TRUE, TRUE, "text", stop)
<1>1. AnthropicFollows(e, Seen(e), content, tools) /\ e.started = TRUE /\ e.stop = stop
  BY DEF At
<1>2. "text" \in {"text", "tool_use"}
  OBVIOUS
<1>3. At(OpenBlock(e, "text", 0), content, tools, TRUE, TRUE, "text", e.stop)
  BY <1>1, <1>2, AnthropicOpen
<1> QED BY <1>1, <1>3

\* A block for a call that is opened is the next call.
LEMMA CallOpened ==
    ASSUME down = "anthropic", NEW e, NEW content, NEW tools, NEW open, NEW block, NEW stop,
           At(e, content, tools, TRUE, open, block, stop), NEW n
    PROVE  At(OpenBlock(e, "tool_use", n), Append(content, Tool(tools + 1, n)), tools + 1, TRUE,
              TRUE, "tool_use", stop)
<1>1. AnthropicFollows(e, Seen(e), content, tools) /\ e.started = TRUE /\ e.stop = stop
  BY DEF At
<1>2. "tool_use" \in {"text", "tool_use"}
  OBVIOUS
<1>3. At(OpenBlock(e, "tool_use", n), Append(content, Tool(tools + 1, n)), tools + 1, TRUE, TRUE,
         "tool_use", e.stop)
  BY <1>1, <1>2, AnthropicOpen
<1> QED BY <1>1, <1>3

\* What a delta of a block says.
Item(block, tools, n) == IF block = "text" THEN Text(n) ELSE Args(tools, n)

\* A delta is for the block that is open.
LEMMA AnthropicDelta ==
    ASSUME NEW e, NEW content, NEW tools, down = "anthropic",
           AnthropicFollows(e, Seen(e), content, tools), e.started = TRUE, e.open = TRUE,
           NEW block \in {"text", "tool_use"}, e.block = block, NEW n
    PROVE  At(Delta(e, block, n), Append(content, Item(block, tools, n)), tools, TRUE, TRUE, block,
              e.stop)
<1> DEFINE frame == [Event("content_block_delta") EXCEPT !.index = e.index, !.block = e.block,
                                                         !.piece = n]
           x == Delta(e, e.block, n)
           r == Seen(e)
           s == Seen(x)
<1>1. /\ EncoderShape(x) /\ s = ReadEvent(r, frame)
      /\ \A z \in DOMAIN NewEncoder : z # "frames" => x[z] = e[z]
  <2>1. x = Emit(e, frame) /\ EncoderShape(e)
    BY DEF Delta, AnthropicFollows, Following
  <2> HIDE DEF x, frame
  <2> QED BY <2>1, EmitStep DEF Read
<1>2. /\ x.started = TRUE /\ x.open = TRUE /\ x.block = e.block /\ x.stop = e.stop
      /\ x.index = e.index /\ x.done = e.done
  <2> HIDE DEF x
  <2> QED BY <1>1, EncoderFields
<1>3. /\ frame.type = "content_block_delta" /\ frame.index = e.index /\ frame.block = e.block
      /\ frame.piece = n
  BY DEF Event
<1> HIDE DEF x, r, s, frame
<1>a. /\ DOMAIN r = DOMAIN NewReader /\ r.started = TRUE /\ r.open = TRUE /\ r.block = e.block
      /\ e.index = r.blocks - 1 /\ r.tools = tools /\ r.content = content
  BY DEF AnthropicFollows, Following, ReaderShape, EncoderShape, r
<1>b. Going(e, r)
  BY DEF AnthropicFollows, Following, r
<1>4. /\ DOMAIN r = DOMAIN NewReader /\ r.bad = FALSE /\ r.ended = FALSE /\ r.started = TRUE
      /\ r.open = TRUE /\ r.block = e.block /\ e.index = r.blocks - 1 /\ r.tools = tools
      /\ r.content = content
  BY <1>a, <1>b DEF Going
<1>5. s = [r EXCEPT !.content = Append(content, Item(e.block, tools, n)), !.bad = FALSE]
  BY <1>1, <1>3, <1>4, ReaderFields DEF ReadEvent, Check, Take, Item
<1>6. AnthropicFollows(x, s, Append(content, Item(e.block, tools, n)), tools)
  <2>1. Going(x, s)
    BY <1>2, <1>5, <1>a, <1>b, ReaderFields DEF Going
  <2> QED BY <2>1, <1>1, <1>2, <1>4, <1>5, ReaderFields DEF AnthropicFollows, Following, ReaderShape, r
<1> QED BY <1>2, <1>6 DEF x, s, At

LEMMA TextAdded ==
    ASSUME down = "anthropic", NEW e, NEW content, NEW tools, NEW stop,
           At(e, content, tools, TRUE, TRUE, "text", stop), NEW n
    PROVE  At(Delta(e, "text", n), Append(content, Text(n)), tools, TRUE, TRUE, "text", stop)
<1>1. /\ AnthropicFollows(e, Seen(e), content, tools) /\ e.started = TRUE /\ e.open = TRUE
      /\ e.block = "text" /\ e.stop = stop /\ "text" \in {"text", "tool_use"}
  BY DEF At
<1>2. Text(n) = Item("text", tools, n)
  BY DEF Item
<1>3. At(Delta(e, "text", n), Append(content, Text(n)), tools, TRUE, TRUE, "text", e.stop)
  BY <1>1, <1>2, AnthropicDelta
<1> QED BY <1>1, <1>3

LEMMA ArgsAdded ==
    ASSUME down = "anthropic", NEW e, NEW content, NEW tools, NEW stop,
           At(e, content, tools, TRUE, TRUE, "tool_use", stop), NEW n
    PROVE  At(Delta(e, "tool_use", n), Append(content, Args(tools, n)), tools, TRUE, TRUE,
              "tool_use", stop)
<1>1. /\ AnthropicFollows(e, Seen(e), content, tools) /\ e.started = TRUE /\ e.open = TRUE
      /\ e.block = "tool_use" /\ e.stop = stop /\ "tool_use" \in {"text", "tool_use"}
  BY DEF At
<1>2. Args(tools, n) = Item("tool_use", tools, n)
  BY DEF Item
<1>3. At(Delta(e, "tool_use", n), Append(content, Args(tools, n)), tools, TRUE, TRUE, "tool_use", e.stop)
  BY <1>1, <1>2, AnthropicDelta
<1> QED BY <1>1, <1>3

-----------------------------------------------------------------------------
(* A client of OpenAI *)

\* It counts the encoder's calls, and reads one after the other.
OpenAIFollows(e, r, content, tools, calling) ==
    /\ Following(e, r, content, tools)
    /\ r.open = FALSE /\ r.tools = e.tools + 1
    /\ calling => r.block = "tool_use"

\* A reader that is not at its end takes c from a chunk that neither finishes
\* nor reports, and is s after it.
Taken(r, chunk, c, s) ==
    /\ r.ended = FALSE /\ r.stop = "" /\ c.bad = FALSE /\ c.ended = FALSE
    /\ chunk.finish = "" /\ chunk.usage = FALSE /\ chunk.done = FALSE
    /\ ReadCalls(IF chunk.text = 0 THEN r
                 ELSE [Take(r, Text(chunk.text)) EXCEPT !.block = "text"], chunk.calls) = c
    /\ DOMAIN c = DOMAIN NewReader /\ s = ReadChunk(r, chunk)

\* Such a chunk is read as its content.
LEMMA ReadContent ==
    ASSUME NEW r, NEW chunk, NEW c, NEW s, Taken(r, chunk, c, s)
    PROVE  DOMAIN s = DOMAIN NewReader /\ \A f \in DOMAIN NewReader : s[f] = c[f]
<1>1. s = [Check(c, ~r.ended /\ ~(r.stop # "" /\ (chunk.text # 0 \/ chunk.calls # <<>>
                                                     \/ chunk.finish # ""))) EXCEPT
              !.stop = IF chunk.finish = "" THEN @ ELSE chunk.finish,
              !.usage = IF chunk.usage THEN "all" ELSE @,
              !.ended = @ \/ chunk.done]
  BY Zenon DEF ReadChunk, Taken
<1>2. s = [Check(c, TRUE) EXCEPT !.stop = c.stop, !.usage = c.usage, !.ended = FALSE]
  BY <1>1, ReaderFields, Zenon DEF Check, Taken
<1>3. DOMAIN c = DOMAIN NewReader /\ c.bad = FALSE /\ c.ended = FALSE
  BY DEF Taken
<1> QED BY <1>2, <1>3, ReaderFields DEF Check

\* A chunk that only has content keeps the client up with the encoder.
LEMMA OpenAIContent ==
    ASSUME NEW e, NEW x, NEW r, NEW s, NEW c, NEW content, NEW tools, NEW calling,
           EncoderShape(x), x.done = e.done, ReaderShape(r), Going(e, c),
           DOMAIN s = DOMAIN NewReader, \A f \in DOMAIN NewReader : s[f] = c[f],
           c.content = content, c.tools = tools, tools \in Nat, c.open = FALSE,
           c.blocks = r.blocks, tools = x.tools + 1, calling => c.block = "tool_use"
    PROVE  OpenAIFollows(x, s, content, tools, calling)
<1>1. /\ s.content = content /\ s.tools = tools /\ s.open = FALSE /\ s.blocks = r.blocks
      /\ s.block = c.block
  BY ReaderFields
<1>2. Going(x, s)
  BY ReaderFields DEF Going
<1>3. ReaderShape(s)
  BY <1>1 DEF ReaderShape
<1> QED BY <1>1, <1>2, <1>3 DEF OpenAIFollows, Following

\* Text is sent in a chunk of its own.
LEMMA OpenAITextRead ==
    ASSUME NEW e, NEW content, NEW tools, down = "openai", NEW calling,
           OpenAIFollows(e, Seen(e), content, tools, calling), NEW n, n # 0
    PROVE  LET x == EncodeOpenAI(e, Canon("text_delta", n))
           IN  OpenAIFollows(x, Seen(x), Append(content, Text(n)), tools, FALSE) /\ x.stop = e.stop
<1> DEFINE frame == [Chunk EXCEPT !.text = n]
           x == EncodeOpenAI(e, Canon("text_delta", n))
           r == Seen(e)
           s == Seen(x)
           c == [Take(r, Text(n)) EXCEPT !.block = "text"]
<1>1. x = Emit(e, frame)
  BY DEF EncodeOpenAI, Canon
<1>2. /\ EncoderShape(x) /\ s = ReadChunk(r, frame)
      /\ \A z \in DOMAIN NewEncoder : z # "frames" => x[z] = e[z]
  <2> HIDE DEF x, frame
  <2> QED BY <1>1, EmitStep DEF OpenAIFollows, Following, Read
<1>3. /\ frame.finish = "" /\ frame.usage = FALSE /\ frame.done = FALSE /\ frame.calls = <<>>
      /\ frame.text = n
  BY DEF Chunk
<1> HIDE DEF x, frame, r, s
<1>4. x.tools = e.tools /\ x.stop = e.stop /\ x.done = e.done
  BY <1>2, EncoderFields
<1>5. /\ ReaderShape(r) /\ Going(e, r) /\ r.content = content /\ r.tools = tools /\ tools \in Nat
      /\ r.open = FALSE /\ r.tools = e.tools + 1
  BY DEF OpenAIFollows, Following, ReaderShape, r
<1>6. /\ ReadCalls(c, <<>>) = c /\ DOMAIN c = DOMAIN NewReader
      /\ c.content = Append(content, Text(n)) /\ c.tools = tools /\ c.open = FALSE
      /\ c.block = "text" /\ c.blocks = r.blocks
  BY <1>5, ReadCallsSteps, ReaderFields DEF ReaderShape, Take
<1>7. Going(e, c)
  BY <1>5, ReaderFields DEF ReaderShape, Going, Take
<1>8. DOMAIN s = DOMAIN NewReader /\ \A f \in DOMAIN NewReader : s[f] = c[f]
  <2>1. ReadCalls(IF frame.text = 0 THEN r ELSE [Take(r, Text(frame.text)) EXCEPT !.block = "text"],
                  frame.calls) = c
    BY <1>3, <1>6
  <2> HIDE DEF c
  <2>2. r.ended = FALSE /\ r.stop = "" /\ c.bad = FALSE /\ c.ended = FALSE
    BY <1>5, <1>7, Zenon DEF Going
  <2>3. s = ReadChunk(r, frame) /\ DOMAIN c = DOMAIN NewReader
    BY <1>2, <1>6
  <2>4. frame.finish = "" /\ frame.usage = FALSE /\ frame.done = FALSE
    BY <1>3
  <2>5. Taken(r, frame, c, s)
    BY ONLY <2>1, <2>2, <2>3, <2>4, Zenon DEF Taken
  <2> QED BY ONLY <2>5, ReadContent
<1> HIDE DEF c
<1>9. OpenAIFollows(x, s, Append(content, Text(n)), tools, FALSE)
  BY <1>2, <1>4, <1>5, <1>6, <1>7, <1>8, OpenAIContent
<1> QED BY <1>4, <1>9 DEF x, s

\* A call is sent with the next index, its name and its id.
LEMMA OpenAICallRead ==
    ASSUME NEW e, NEW content, NEW tools, down = "openai", NEW calling,
           OpenAIFollows(e, Seen(e), content, tools, calling), NEW n, n # 0
    PROVE  LET x == EncodeOpenAI(e, Canon("tool_use_start", n))
           IN  /\ OpenAIFollows(x, Seen(x), Append(content, Tool(tools + 1, n)), tools + 1, TRUE)
               /\ x.stop = e.stop
<1> DEFINE call == Call(e.tools + 1, n, 0)
           frame == [Chunk EXCEPT !.calls = <<call>>]
           y == [e EXCEPT !.tools = @ + 1]
           x == EncodeOpenAI(e, Canon("tool_use_start", n))
           r == Seen(e)
           s == Seen(x)
           c == ReadCall(r, call)
<1>1. x = Emit(y, frame) /\ EncoderShape(y) /\ y.frames = e.frames
  <2>1. x = Emit(y, frame)
    BY DEF EncodeOpenAI, Canon
  <2>2. EncoderShape(e)
    BY DEF OpenAIFollows, Following
  <2> QED BY <2>1, <2>2, EncoderFields DEF EncoderShape
<1>2. /\ EncoderShape(x) /\ s = ReadChunk(r, frame)
      /\ \A z \in DOMAIN NewEncoder : z # "frames" => x[z] = y[z]
  <2> HIDE DEF x, y, frame
  <2>1. Seen(y) = r
    BY <1>1 DEF Seen
  <2> QED BY <1>1, <2>1, EmitStep DEF Read
<1>k. frame.finish = "" /\ frame.usage = FALSE /\ frame.done = FALSE
  BY DEF Chunk
<1>3. frame.calls = <<call>> /\ frame.text = 0 /\ call.index = e.tools + 1 /\ call.id = n /\ call.args = 0
  BY DEF Chunk, Call
<1>4. x.tools = e.tools + 1 /\ x.stop = e.stop /\ x.done = e.done
  <2>1. y.tools = e.tools + 1 /\ y.stop = e.stop /\ y.done = e.done
    <3>1. DOMAIN e = DOMAIN NewEncoder
      BY DEF OpenAIFollows, Following, EncoderShape
    <3> QED BY <3>1, EncoderFields
  <2> HIDE DEF x, y
  <2> QED BY <1>2, <2>1, EncoderFields
<1> HIDE DEF x, y, frame, r, s, call
<1>5. /\ ReaderShape(r) /\ Going(e, r) /\ r.content = content /\ r.tools = tools /\ tools \in Nat
      /\ r.open = FALSE /\ r.tools = e.tools + 1
  BY DEF OpenAIFollows, Following, ReaderShape, r
<1>a. c = [Take(Check(r, TRUE), Tool(r.tools + 1, n)) EXCEPT !.tools = @ + 1, !.block = "tool_use"]
  <2>1. call.id # 0 /\ call.args = 0 /\ call.id = n /\ (call.index = r.tools) = TRUE
    BY <1>3, <1>5
  <2> QED BY ONLY <2>1, Zenon DEF ReadCall
<1>6. /\ ReadCalls(r, <<call>>) = c /\ DOMAIN c = DOMAIN NewReader
      /\ c.content = Append(content, Tool(tools + 1, n)) /\ c.tools = tools + 1 /\ c.open = FALSE
      /\ c.block = "tool_use" /\ c.blocks = r.blocks
  <2>1. ReadCalls(r, <<call>>) = c
    BY ReadCallsSteps
  <2> HIDE DEF c
  <2> QED BY <1>5, <1>a, <2>1, ReaderFields DEF ReaderShape, Take, Check
<1> HIDE DEF c
<1>7. Going(e, c)
  BY <1>5, <1>a, ReaderFields DEF ReaderShape, Going, Take, Check
<1>8. DOMAIN s = DOMAIN NewReader /\ \A f \in DOMAIN NewReader : s[f] = c[f]
  <2>1. ReadCalls(IF frame.text = 0 THEN r ELSE [Take(r, Text(frame.text)) EXCEPT !.block = "text"],
                  frame.calls) = c
    BY <1>3, <1>6
  <2>2. r.ended = FALSE /\ r.stop = "" /\ c.bad = FALSE /\ c.ended = FALSE
    BY <1>5, <1>7, Zenon DEF Going
  <2>3. s = ReadChunk(r, frame) /\ DOMAIN c = DOMAIN NewReader
    BY <1>2, <1>6
  <2>4. frame.finish = "" /\ frame.usage = FALSE /\ frame.done = FALSE
    BY <1>k, Zenon
  <2>5. Taken(r, frame, c, s)
    BY ONLY <2>1, <2>2, <2>3, <2>4, Zenon DEF Taken
  <2> QED BY ONLY <2>5, ReadContent
<1>9. OpenAIFollows(x, s, Append(content, Tool(tools + 1, n)), tools + 1, TRUE)
  <2>1. tools + 1 \in Nat /\ tools + 1 = x.tools + 1
    BY <1>4, <1>5
  <2> QED BY <1>2, <1>4, <1>5, <1>6, <1>7, <1>8, <2>1, OpenAIContent
<1> QED BY <1>4, <1>9 DEF x, s

\* Arguments are sent with the index of the last call.
LEMMA OpenAIArgsRead ==
    ASSUME NEW e, NEW content, NEW tools, down = "openai",
           OpenAIFollows(e, Seen(e), content, tools, TRUE), NEW n, n # 0
    PROVE  LET x == EncodeOpenAI(e, Canon("tool_args_delta", n))
           IN  /\ OpenAIFollows(x, Seen(x), Append(content, Args(tools, n)), tools, TRUE)
               /\ x.stop = e.stop
<1> DEFINE call == Call(e.tools, 0, n)
           frame == [Chunk EXCEPT !.calls = <<call>>]
           x == EncodeOpenAI(e, Canon("tool_args_delta", n))
           r == Seen(e)
           s == Seen(x)
           c == ReadCall(r, call)
<1>1. x = Emit(e, frame)
  BY DEF EncodeOpenAI, Canon
<1>2. /\ EncoderShape(x) /\ s = ReadChunk(r, frame)
      /\ \A z \in DOMAIN NewEncoder : z # "frames" => x[z] = e[z]
  <2> HIDE DEF x, frame
  <2> QED BY <1>1, EmitStep DEF OpenAIFollows, Following, Read
<1>k. frame.finish = "" /\ frame.usage = FALSE /\ frame.done = FALSE
  BY DEF Chunk
<1>3. frame.calls = <<call>> /\ frame.text = 0 /\ call.index = e.tools /\ call.id = 0 /\ call.args = n
  BY DEF Chunk, Call
<1> HIDE DEF x, frame, r, s, call
<1>4. x.tools = e.tools /\ x.stop = e.stop /\ x.done = e.done
  BY <1>2, EncoderFields
<1>5. /\ ReaderShape(r) /\ Going(e, r) /\ r.content = content /\ r.tools = tools /\ tools \in Nat
      /\ r.open = FALSE /\ r.tools = e.tools + 1 /\ e.tools \in Int /\ r.block = "tool_use"
  BY DEF OpenAIFollows, Following, ReaderShape, EncoderShape, r
<1>a. c = Take(Check(r, TRUE), Args(tools, n))
  <2>1. call.id = 0 /\ call.args # 0 /\ call.args = n /\ call.index + 1 = tools
    BY <1>3, <1>5
  <2>2. call.index = r.tools - 1
    BY ONLY <1>3, <1>5
  <2>3. (call.index = r.tools - 1 /\ r.block = "tool_use") = TRUE
    BY <1>5, <2>2
  <2> QED BY ONLY <2>1, <2>3, Zenon DEF ReadCall
<1>6. /\ ReadCalls(r, <<call>>) = c /\ DOMAIN c = DOMAIN NewReader
      /\ c.content = Append(content, Args(tools, n)) /\ c.tools = tools /\ c.open = FALSE
      /\ c.block = "tool_use" /\ c.blocks = r.blocks
  <2>1. ReadCalls(r, <<call>>) = c
    BY ReadCallsSteps
  <2> HIDE DEF c
  <2> QED BY <1>5, <1>a, <2>1, ReaderFields DEF ReaderShape, Take, Check
<1> HIDE DEF c
<1>7. Going(e, c)
  BY <1>5, <1>a, ReaderFields DEF ReaderShape, Going, Take, Check
<1>8. DOMAIN s = DOMAIN NewReader /\ \A f \in DOMAIN NewReader : s[f] = c[f]
  <2>1. ReadCalls(IF frame.text = 0 THEN r ELSE [Take(r, Text(frame.text)) EXCEPT !.block = "text"],
                  frame.calls) = c
    BY <1>3, <1>6
  <2>2. r.ended = FALSE /\ r.stop = "" /\ c.bad = FALSE /\ c.ended = FALSE
    BY <1>5, <1>7, Zenon DEF Going
  <2>3. s = ReadChunk(r, frame) /\ DOMAIN c = DOMAIN NewReader
    BY <1>2, <1>6
  <2>4. frame.finish = "" /\ frame.usage = FALSE /\ frame.done = FALSE
    BY <1>k, Zenon
  <2>5. Taken(r, frame, c, s)
    BY ONLY <2>1, <2>2, <2>3, <2>4, Zenon DEF Taken
  <2> QED BY ONLY <2>5, ReadContent
<1>9. OpenAIFollows(x, s, Append(content, Args(tools, n)), tools, TRUE)
  BY <1>2, <1>4, <1>5, <1>6, <1>7, <1>8, OpenAIContent
<1> QED BY <1>4, <1>9 DEF x, s

-----------------------------------------------------------------------------
(* A client, event by event *)

\* The client has read content, tools of it calls, the last of them open for
\* arguments if calling; the encoder has heard of the end that stop is.
Follows(e, content, tools, calling, stop) ==
    /\ e.stop = stop
    /\ \/ down = "openai" /\ OpenAIFollows(e, Seen(e), content, tools, calling)
       \/ /\ down = "anthropic" /\ AnthropicFollows(e, Seen(e), content, tools)
          /\ calling => e.open = TRUE /\ e.block = "tool_use"

\* A text delta, whatever block it finds open.
LEMMA TextEncoded ==
    ASSUME NEW e, NEW content, NEW tools, NEW calling, NEW stop,
           Follows(e, content, tools, calling, stop), NEW n, n # 0
    PROVE  Follows(Encode(e, Canon("text_delta", n)), Append(content, Text(n)), tools, FALSE, stop)
<1> DEFINE ev == Canon("text_delta", n)
           x == Encode(e, ev)
<1>1. CASE down = "openai" /\ OpenAIFollows(e, Seen(e), content, tools, calling)
  <2>1. x = EncodeOpenAI(e, ev)
    BY <1>1 DEF Encode
  <2> QED BY <1>1, <2>1, OpenAITextRead DEF Follows
<1>2. CASE down = "anthropic" /\ AnthropicFollows(e, Seen(e), content, tools)
  <2> DEFINE y == EnsureStart(e)
             z == IF y.open /\ y.block = "text" THEN y ELSE OpenBlock(y, "text", 0)
  <2>1. x = Delta(z, "text", n)
    BY <1>2 DEF Encode, EncodeAnthropic, Canon
  <2>2. AnthropicFollows(y, Seen(y), content, tools) /\ y.started = TRUE /\ y.stop = e.stop
    BY <1>2, AnthropicStart
  <2> HIDE DEF y, x
  <2>k. At(y, content, tools, TRUE, y.open, y.block, e.stop)
    BY <2>2 DEF At
  <2>3. y.open \in BOOLEAN
    BY <2>2 DEF AnthropicFollows, Following, EncoderShape
  <2>4. At(z, content, tools, TRUE, TRUE, "text", e.stop)
    <3>1. CASE y.open /\ y.block = "text"
      BY <2>k, <2>3, <3>1
    <3>2. CASE ~(y.open /\ y.block = "text")
      <4>1. z = OpenBlock(y, "text", 0)
        BY <3>2
      <4> HIDE DEF z
      <4> QED BY <1>2, <2>k, <4>1, TextOpened
    <3> QED BY <3>1, <3>2
  <2> HIDE DEF z
  <2>5. At(x, Append(content, Text(n)), tools, TRUE, TRUE, "text", e.stop)
    BY <1>2, <2>1, <2>4, TextAdded
  <2> QED BY <1>2, <2>5 DEF x, Follows, At
<1> QED BY <1>1, <1>2 DEF Follows

\* The start of a call.
LEMMA CallEncoded ==
    ASSUME NEW e, NEW content, NEW tools, NEW calling, NEW stop,
           Follows(e, content, tools, calling, stop), NEW n, n # 0
    PROVE  Follows(Encode(e, Canon("tool_use_start", n)), Append(content, Tool(tools + 1, n)),
                   tools + 1, TRUE, stop)
<1> DEFINE ev == Canon("tool_use_start", n)
           x == Encode(e, ev)
<1>1. CASE down = "openai" /\ OpenAIFollows(e, Seen(e), content, tools, calling)
  <2>1. x = EncodeOpenAI(e, ev)
    BY <1>1 DEF Encode
  <2> QED BY <1>1, <2>1, OpenAICallRead DEF Follows
<1>2. CASE down = "anthropic" /\ AnthropicFollows(e, Seen(e), content, tools)
  <2> DEFINE y == EnsureStart(e)
  <2>1. x = OpenBlock(y, "tool_use", n)
    BY <1>2 DEF Encode, EncodeAnthropic, Canon
  <2>2. AnthropicFollows(y, Seen(y), content, tools) /\ y.started = TRUE /\ y.stop = e.stop
    BY <1>2, AnthropicStart
  <2> HIDE DEF y, x
  <2>3. At(y, content, tools, TRUE, y.open, y.block, e.stop)
    BY <2>2 DEF At
  <2>4. At(x, Append(content, Tool(tools + 1, n)), tools + 1, TRUE, TRUE, "tool_use", e.stop)
    BY <1>2, <2>1, <2>3, CallOpened
  <2> QED BY <1>2, <2>4 DEF x, Follows, At
<1> QED BY <1>1, <1>2 DEF Follows

\* Arguments, which come while their call is open.
LEMMA ArgsEncoded ==
    ASSUME NEW e, NEW content, NEW tools, NEW stop,
           Follows(e, content, tools, TRUE, stop), NEW n, n # 0
    PROVE  Follows(Encode(e, Canon("tool_args_delta", n)), Append(content, Args(tools, n)), tools,
                   TRUE, stop)
<1> DEFINE ev == Canon("tool_args_delta", n)
           x == Encode(e, ev)
<1>1. CASE down = "openai" /\ OpenAIFollows(e, Seen(e), content, tools, TRUE)
  <2>1. x = EncodeOpenAI(e, ev)
    BY <1>1 DEF Encode
  <2> QED BY <1>1, <2>1, OpenAIArgsRead DEF Follows
<1>2. CASE /\ down = "anthropic" /\ AnthropicFollows(e, Seen(e), content, tools)
           /\ e.open = TRUE /\ e.block = "tool_use"
  <2> DEFINE y == EnsureStart(e)
  <2>1. x = Delta(y, "tool_use", n)
    BY <1>2 DEF Encode, EncodeAnthropic, Canon
  <2>2. /\ AnthropicFollows(y, Seen(y), content, tools) /\ y.started = TRUE /\ y.stop = e.stop
        /\ y.open = TRUE /\ y.block = "tool_use"
    BY <1>2, AnthropicStart
  <2> HIDE DEF y, x
  <2>3. At(y, content, tools, TRUE, TRUE, "tool_use", e.stop)
    BY <2>2 DEF At
  <2>4. At(x, Append(content, Args(tools, n)), tools, TRUE, TRUE, "tool_use", e.stop)
    BY <1>2, <2>1, <2>3, ArgsAdded
  <2> QED BY <1>2, <2>4 DEF x, Follows, At
<1> QED BY <1>1, <1>2 DEF Follows

\* The stop of a block.
LEMMA StopEncoded ==
    ASSUME NEW e, NEW content, NEW tools, NEW calling, NEW stop,
           Follows(e, content, tools, calling, stop)
    PROVE  Follows(Encode(e, Canon("block_stop", 0)), content, tools, FALSE, stop)
<1> DEFINE ev == Canon("block_stop", 0)
           x == Encode(e, ev)
<1>1. CASE down = "openai" /\ OpenAIFollows(e, Seen(e), content, tools, calling)
  <2>1. x = e
    BY <1>1 DEF Encode, EncodeOpenAI, Canon
  <2> QED BY <1>1, <2>1 DEF Follows, OpenAIFollows
<1>2. CASE down = "anthropic" /\ AnthropicFollows(e, Seen(e), content, tools)
  <2> DEFINE y == EnsureStart(e)
  <2>1. x = CloseBlock(y)
    BY <1>2 DEF Encode, EncodeAnthropic, Canon
  <2>2. AnthropicFollows(y, Seen(y), content, tools) /\ y.started = TRUE /\ y.stop = e.stop
    BY <1>2, AnthropicStart
  <2> HIDE DEF y, x
  <2>3. AnthropicFollows(x, Seen(x), content, tools) /\ x.stop = e.stop
    BY <1>2, <2>1, <2>2, AnthropicClose
  <2> QED BY <1>2, <2>3 DEF x, Follows
<1> QED BY <1>1, <1>2 DEF Follows

\* What an encoder hears of the end is not written yet.
LEMMA StopHeard ==
    ASSUME NEW e, EncoderShape(e), NEW stop
    PROVE  LET x == [e EXCEPT !.stop = stop]
           IN  /\ EncoderShape(x) /\ x.stop = stop /\ Seen(x) = Seen(e)
               /\ x.started = e.started /\ x.open = e.open /\ x.block = e.block
               /\ x.index = e.index /\ x.tools = e.tools /\ x.done = e.done
BY EncoderFields DEF EncoderShape, Seen

\* The finish of a message.
LEMMA FinishEncoded ==
    ASSUME NEW e, NEW content, NEW tools, NEW calling, NEW stop,
           Follows(e, content, tools, calling, stop), NEW reason
    PROVE  Follows(Encode(e, Finish(reason)), content, tools, calling, reason)
<1> DEFINE ev == Finish(reason)
           x == Encode(e, ev)
<1>1. CASE down = "openai" /\ OpenAIFollows(e, Seen(e), content, tools, calling)
  <2>1. x = [e EXCEPT !.stop = reason]
    BY <1>1 DEF Encode, EncodeOpenAI, Finish
  <2> HIDE DEF x
  <2>2. EncoderShape(e)
    BY <1>1 DEF OpenAIFollows, Following
  <2>3. /\ EncoderShape(x) /\ x.stop = reason /\ Seen(x) = Seen(e)
        /\ x.tools = e.tools /\ x.done = e.done
    BY <2>1, <2>2, StopHeard
  <2>4. Going(x, Seen(x))
    BY <1>1, <2>3, Zenon DEF OpenAIFollows, Following, Going
  <2> QED BY <1>1, <2>3, <2>4 DEF Follows, OpenAIFollows, Following, x
<1>2. CASE /\ down = "anthropic" /\ AnthropicFollows(e, Seen(e), content, tools)
           /\ calling => e.open = TRUE /\ e.block = "tool_use"
  <2> DEFINE y == EnsureStart(e)
  <2>1. x = [y EXCEPT !.stop = reason]
    BY <1>2 DEF Encode, EncodeAnthropic, Finish
  <2>2. /\ AnthropicFollows(y, Seen(y), content, tools)
        /\ y.open = e.open /\ y.block = e.block
    BY <1>2, AnthropicStart
  <2> HIDE DEF y, x
  <2>3. EncoderShape(y)
    BY <2>2 DEF AnthropicFollows, Following
  <2>4. /\ EncoderShape(x) /\ x.stop = reason /\ Seen(x) = Seen(y)
        /\ x.started = y.started /\ x.open = y.open /\ x.block = y.block
        /\ x.index = y.index /\ x.done = y.done
    BY <2>1, <2>3, StopHeard
  <2>5. Going(x, Seen(x))
    BY <2>2, <2>4, Zenon DEF AnthropicFollows, Following, Going
  <2> QED BY <1>2, <2>2, <2>4, <2>5 DEF Follows, AnthropicFollows, Following, x
<1> QED BY <1>1, <1>2 DEF Follows

-----------------------------------------------------------------------------
(* What a decoder produces, encoded and read *)

\* A decoder that has produced a list of events.
DecoderShape(d) == DOMAIN d = DOMAIN NewDecoder /\ Listed(d.events)

LEMMA DecoderFields == DOMAIN NewDecoder = {"tool", "text", "block", "usage", "events"}
BY DEF NewDecoder

\* Where the client is when everything d has produced is written.
Along(d, content, tools, calling, stop) ==
    /\ DecoderShape(d) /\ Listed(content) /\ Follows(Converted(d), content, tools, calling, stop)

\* One more event is encoded after the others.
LEMMA ProduceStep ==
    ASSUME NEW d, DecoderShape(d), NEW ev
    PROVE  LET x == Produce(d, <<ev>>)
           IN  /\ DecoderShape(x) /\ Converted(x) = Encode(Converted(d), ev)
               /\ x.tool = d.tool /\ x.text = d.text /\ x.block = d.block /\ x.usage = d.usage
<1> DEFINE x == Produce(d, <<ev>>)
<1>1. x.events = Append(d.events, ev) /\ Listed(x.events)
  <2>1. x.events = d.events \o <<ev>>
    BY DecoderFields DEF DecoderShape, Produce
  <2> QED BY <2>1, ListedAppend DEF DecoderShape
<1>2. /\ DOMAIN x = DOMAIN d
      /\ x.tool = d.tool /\ x.text = d.text /\ x.block = d.block /\ x.usage = d.usage
  BY DecoderFields DEF DecoderShape, Produce
<1>3. Converted(x) = Encode(Converted(d), ev)
  <2> HIDE DEF x
  <2>1. Listed(d.events)
    BY DEF DecoderShape
  <2>2. PICK s : s = d.events
    OBVIOUS
  <2>3. PICK e : e = [enc EXCEPT !.frames = <<>>]
    OBVIOUS
  <2>4. EncodeAll(e, Append(s, ev)) = Encode(EncodeAll(e, s), ev)
    BY <2>1, <2>2, EncodeAllSteps
  <2>5. Converted(x) = EncodeAll(e, Append(s, ev)) /\ Converted(d) = EncodeAll(e, s)
    BY ONLY <1>1, <2>2, <2>3, Zenon DEF Converted
  <2> QED BY ONLY <2>4, <2>5
<1> QED BY <1>1, <1>2, <1>3 DEF DecoderShape

\* Only events are encoded.
LEMMA AlongSame ==
    ASSUME NEW d, NEW content, NEW tools, NEW calling, NEW stop,
           Along(d, content, tools, calling, stop),
           NEW x, DOMAIN x = DOMAIN NewDecoder, x.events = d.events
    PROVE  Along(x, content, tools, calling, stop)
BY DEF Along, DecoderShape, Converted

\* The same steps, for what a decoder produces.
LEMMA AlongText ==
    ASSUME NEW d, NEW content, NEW tools, NEW calling, NEW stop,
           Along(d, content, tools, calling, stop), NEW n, n # 0
    PROVE  Along(Produce(d, <<Canon("text_delta", n)>>), Append(content, Text(n)), tools, FALSE, stop)
BY ProduceStep, TextEncoded, ListedAppend DEF Along

LEMMA AlongCall ==
    ASSUME NEW d, NEW content, NEW tools, NEW calling, NEW stop,
           Along(d, content, tools, calling, stop), NEW n, n # 0
    PROVE  Along(Produce(d, <<Canon("tool_use_start", n)>>), Append(content, Tool(tools + 1, n)),
                 tools + 1, TRUE, stop)
<1> DEFINE ev == Canon("tool_use_start", n)
<1>1. /\ DecoderShape(Produce(d, <<ev>>)) /\ Listed(Append(content, Tool(tools + 1, n)))
      /\ Converted(Produce(d, <<ev>>)) = Encode(Converted(d), ev)
  BY ProduceStep, ListedAppend DEF Along
<1>2. Follows(Encode(Converted(d), ev), Append(content, Tool(tools + 1, n)), tools + 1, TRUE, stop)
  BY CallEncoded DEF Along
<1> QED BY <1>1, <1>2, Zenon DEF Along

LEMMA AlongArgs ==
    ASSUME NEW d, NEW content, NEW tools, NEW stop,
           Along(d, content, tools, TRUE, stop), NEW n, n # 0
    PROVE  Along(Produce(d, <<Canon("tool_args_delta", n)>>), Append(content, Args(tools, n)), tools,
                 TRUE, stop)
BY ProduceStep, ArgsEncoded, ListedAppend DEF Along

LEMMA AlongStop ==
    ASSUME NEW d, NEW content, NEW tools, NEW calling, NEW stop,
           Along(d, content, tools, calling, stop)
    PROVE  Along(Produce(d, <<Canon("block_stop", 0)>>), content, tools, FALSE, stop)
BY ProduceStep, StopEncoded DEF Along

LEMMA AlongFinish ==
    ASSUME NEW d, NEW content, NEW tools, NEW calling, NEW stop,
           Along(d, content, tools, calling, stop), NEW reason
    PROVE  Along(Produce(d, <<Finish(reason)>>), content, tools, calling, reason)
BY ProduceStep, FinishEncoded DEF Along

LEMMA AlongStopBlock ==
    ASSUME NEW d, NEW content, NEW tools, NEW stop, NEW calling, NEW when \in BOOLEAN,
           Along(d, content, tools, calling, stop), calling => when
    PROVE  LET x == StopBlock(d, when)
           IN  /\ Along(x, content, tools, FALSE, stop)
               /\ x.tool = d.tool /\ x.text = d.text /\ x.block = d.block /\ x.usage = d.usage
<1>1. CASE when
  <2>1. StopBlock(d, when) = Produce(d, <<Canon("block_stop", 0)>>)
    BY <1>1 DEF StopBlock
  <2> QED BY <2>1, AlongStop, ProduceStep DEF Along
<1>2. CASE ~when
  <2>1. StopBlock(d, when) = d
    BY <1>2 DEF StopBlock
  <2>2. Follows(Converted(d), content, tools, FALSE, stop)
    BY <1>2 DEF Along, Follows, OpenAIFollows
  <2> QED BY <2>1, <2>2 DEF Along
<1> QED BY <1>1, <1>2

LEMMA AlongTools ==
    ASSUME NEW d, NEW content, NEW tools, NEW calling, NEW stop,
           Along(d, content, tools, calling, stop)
    PROVE  tools \in Nat
BY DEF Along, Follows, OpenAIFollows, AnthropicFollows, Following, ReaderShape

-----------------------------------------------------------------------------
(* Chunks of OpenAI, decoded *)

\* The source has not said why it stops.
Silent(s) == s.stop = ""

\* The client has what the source s has sent when d is encoded; the decoder
\* keeps track of calls as long as any may come.
OpenAILinked(d, s, stop) ==
    /\ d.tool \in BOOLEAN /\ d.text \in BOOLEAN /\ DOMAIN s = DOMAIN NewReader
    /\ Along(d, s.content, s.tools, d.tool, stop)
    /\ Silent(s) /\ s.block = "tool_use" => d.tool = TRUE

\* Text ends the call before it.
LEMMA OpenAITextLink ==
    ASSUME NEW d, NEW s, NEW stop, OpenAILinked(d, s, stop), NEW n, n # 0
    PROVE  OpenAILinked(OpenAIText(d, n), [Take(s, Text(n)) EXCEPT !.block = "text"], stop)
<1> DEFINE a == StopBlock(d, d.tool)
           b == Produce(a, <<Canon("text_delta", n)>>)
           x == [b EXCEPT !.tool = FALSE, !.text = TRUE]
           t == [Take(s, Text(n)) EXCEPT !.block = "text"]
<1>1. Along(a, s.content, s.tools, FALSE, stop)
  BY AlongStopBlock DEF OpenAILinked
<1> HIDE DEF a
<1>2. Along(b, Append(s.content, Text(n)), s.tools, FALSE, stop)
  BY <1>1, AlongText
<1> HIDE DEF b
<1>3. /\ DOMAIN x = DOMAIN NewDecoder /\ x.events = b.events /\ x.tool = FALSE /\ x.text = TRUE
  BY <1>2, DecoderFields DEF Along, DecoderShape
<1>4. Along(x, Append(s.content, Text(n)), s.tools, FALSE, stop)
  BY <1>2, <1>3, AlongSame
<1>5. /\ DOMAIN t = DOMAIN NewReader /\ t.content = Append(s.content, Text(n)) /\ t.tools = s.tools
      /\ t.block = "text"
  BY ReaderFields DEF OpenAILinked, Take
<1>6. OpenAIText(d, n) = x
  BY DEF OpenAIText, a, b
<1> HIDE DEF x, t
<1>7. OpenAILinked(x, t, stop)
  BY <1>3, <1>4, <1>5 DEF OpenAILinked
<1> QED BY <1>6, <1>7 DEF t

\* A call with an id ends the one before it, one without adds to it.
LEMMA OpenAICallLink ==
    ASSUME NEW d, NEW s, NEW stop, OpenAILinked(d, s, stop), Silent(s), NEW call, NEW t,
           t = ReadCall(s, call), ~t.bad
    PROVE  OpenAILinked(OpenAICall(d, call), t, stop) /\ Silent(t) /\ ~s.bad
<1> DEFINE s1 == IF call.id = 0 THEN s
                 ELSE [Take(Check(s, call.index = s.tools), Tool(s.tools + 1, call.id))
                         EXCEPT !.tools = @ + 1, !.block = "tool_use"]
           d1 == IF call.id = 0 THEN d
                 ELSE [Produce(StopBlock(d, d.tool \/ d.text),
                               <<Canon("tool_use_start", call.id)>>)
                         EXCEPT !.tool = TRUE, !.text = FALSE]
           t1 == IF call.args = 0 THEN s1
                 ELSE Take(Check(s1, call.index = s1.tools - 1 /\ s1.block = "tool_use"),
                           Args(call.index + 1, call.args))
           x == IF call.args = 0 THEN d1 ELSE Produce(d1, <<Canon("tool_args_delta", call.args)>>)
<1>1. t = t1 /\ OpenAICall(d, call) = x
  BY Zenon DEF ReadCall, OpenAICall
<1>2. OpenAILinked(d1, s1, stop) /\ Silent(s1) /\ (~s1.bad => ~s.bad)
  <2>1. CASE call.id = 0
    BY <2>1
  <2>2. CASE call.id # 0
    <3> DEFINE a == StopBlock(d, d.tool \/ d.text)
               b == Produce(a, <<Canon("tool_use_start", call.id)>>)
               y == [b EXCEPT !.tool = TRUE, !.text = FALSE]
               u == [Take(Check(s, call.index = s.tools), Tool(s.tools + 1, call.id))
                       EXCEPT !.tools = @ + 1, !.block = "tool_use"]
    <3>1. Along(a, s.content, s.tools, FALSE, stop)
      BY AlongStopBlock DEF OpenAILinked
    <3> HIDE DEF a
    <3>2. Along(b, Append(s.content, Tool(s.tools + 1, call.id)), s.tools + 1, TRUE, stop)
      BY <2>2, <3>1, AlongCall
    <3> HIDE DEF b
    <3>3. /\ DOMAIN y = DOMAIN NewDecoder /\ y.events = b.events /\ y.tool = TRUE /\ y.text = FALSE
      BY <3>2, DecoderFields DEF Along, DecoderShape
    <3>4. Along(y, Append(s.content, Tool(s.tools + 1, call.id)), s.tools + 1, TRUE, stop)
      BY <3>2, <3>3, AlongSame
    <3>5. /\ DOMAIN u = DOMAIN NewReader /\ u.content = Append(s.content, Tool(s.tools + 1, call.id))
          /\ u.tools = s.tools + 1 /\ u.block = "tool_use" /\ u.stop = s.stop
          /\ ~u.bad => ~s.bad
      BY ReaderFields DEF OpenAILinked, Take, Check
    <3>6. d1 = y /\ s1 = u
      BY <2>2 DEF a, b
    <3> HIDE DEF y, u, d1, s1
    <3> QED BY <3>3, <3>4, <3>5, <3>6 DEF OpenAILinked, Silent
  <2> QED BY <2>1, <2>2
<1> HIDE DEF s1, d1
<1>3. CASE call.args = 0
  BY <1>1, <1>2, <1>3
<1>4. CASE call.args # 0
  <2>1. t = Take(Check(s1, call.index = s1.tools - 1 /\ s1.block = "tool_use"),
                 Args(call.index + 1, call.args))
    BY <1>1, <1>4
  <2>2. /\ DOMAIN t = DOMAIN NewReader /\ t.content = Append(s1.content, Args(call.index + 1, call.args))
        /\ t.tools = s1.tools /\ t.block = s1.block /\ t.stop = s1.stop
        /\ ~t.bad => ~s1.bad /\ call.index = s1.tools - 1 /\ s1.block = "tool_use"
    BY <1>2, <2>1, ReaderFields DEF OpenAILinked, Take, Check
  <2>3. s1.tools \in Nat
    BY <1>2, AlongTools DEF OpenAILinked
  <2>4. call.index + 1 = s1.tools
    BY <2>2, <2>3
  <2>5. d1.tool = TRUE /\ Along(d1, s1.content, s1.tools, TRUE, stop)
    BY <1>2, <2>2 DEF OpenAILinked
  <2> DEFINE y == Produce(d1, <<Canon("tool_args_delta", call.args)>>)
  <2>6. Along(y, Append(s1.content, Args(s1.tools, call.args)), s1.tools, TRUE, stop)
    BY <1>4, <2>5, AlongArgs
  <2>7. y.tool = d1.tool /\ y.text = d1.text
    BY <2>5, ProduceStep DEF Along
  <2>8. OpenAICall(d, call) = y
    BY <1>1, <1>4
  <2> HIDE DEF y
  <2>9. OpenAILinked(y, t, stop)
    BY <1>2, <2>2, <2>4, <2>5, <2>6, <2>7 DEF OpenAILinked
  <2> QED BY <1>2, <2>2, <2>8, <2>9 DEF Silent
<1> QED BY <1>3, <1>4

\* As many calls as a chunk has.
FewCalls(c) == c = <<>> \/ (\E x : c = <<x>>) \/ (\E x, y : c = <<x, y>>)

\* The calls of a chunk, of which there are two at most.
LEMMA OpenAICallsLink ==
    ASSUME NEW d, NEW s, NEW stop, OpenAILinked(d, s, stop), NEW calls,
           calls # <<>> => Silent(s),
           FewCalls(calls),
           ~ReadCalls(s, calls).bad
    PROVE  OpenAILinked(OpenAICalls(d, calls), ReadCalls(s, calls), stop)
<1>1. CASE calls = <<>>
  BY <1>1, ReadCallsSteps, OpenAICallsSteps
<1>2. ASSUME NEW c, calls = <<c>> PROVE OpenAILinked(OpenAICalls(d, calls), ReadCalls(s, calls), stop)
  <2>1. Silent(s) /\ ReadCalls(s, calls) = ReadCall(s, c) /\ OpenAICalls(d, calls) = OpenAICall(d, c)
    BY <1>2, ReadCallsSteps, OpenAICallsSteps
  <2> QED BY <2>1, OpenAICallLink
<1>3. ASSUME NEW c, NEW e, calls = <<c, e>>
      PROVE  OpenAILinked(OpenAICalls(d, calls), ReadCalls(s, calls), stop)
  <2> DEFINE t == ReadCall(s, c)
             x == OpenAICall(d, c)
  <2>1. Silent(s) /\ ReadCalls(s, calls) = ReadCall(t, e) /\ OpenAICalls(d, calls) = OpenAICall(x, e)
    BY <1>3, ReadCallsSteps, OpenAICallsSteps
  <2>2. DOMAIN t = DOMAIN NewReader /\ t.stop = s.stop
    BY ReaderFields DEF OpenAILinked, ReadCall, Take, Check
  <2>3. ~ReadCall(t, e).bad => ~t.bad
    <3> HIDE DEF t
    <3> QED BY <2>2, ReaderFields DEF ReadCall, Take, Check
  <2> HIDE DEF t, x
  <2>4. ~t.bad /\ Silent(t)
    BY <2>1, <2>2, <2>3 DEF Silent
  <2>5. OpenAILinked(x, t, stop)
    BY <2>1, <2>4, OpenAICallLink DEF t, x
  <2> QED BY <2>1, <2>4, <2>5, OpenAICallLink
<1> QED BY <1>1, <1>2, <1>3 DEF FewCalls

\* Calls change neither the stop reason nor the usage nor the end.
LEMMA ReadCallsKeep ==
    ASSUME NEW s, DOMAIN s = DOMAIN NewReader, NEW calls, FewCalls(calls)
    PROVE  LET t == ReadCalls(s, calls)
           IN  DOMAIN t = DOMAIN NewReader /\ t.stop = s.stop /\ t.usage = s.usage /\ t.ended = s.ended
<1>1. ASSUME NEW u, NEW c, DOMAIN u = DOMAIN NewReader
      PROVE  /\ DOMAIN ReadCall(u, c) = DOMAIN NewReader /\ ReadCall(u, c).stop = u.stop
             /\ ReadCall(u, c).usage = u.usage /\ ReadCall(u, c).ended = u.ended
  BY <1>1, ReaderFields DEF ReadCall, Take, Check
<1>2. CASE calls = <<>>
  BY <1>2, ReadCallsSteps
<1>3. ASSUME NEW x, calls = <<x>>
      PROVE  LET t == ReadCalls(s, calls)
             IN  DOMAIN t = DOMAIN NewReader /\ t.stop = s.stop /\ t.usage = s.usage /\ t.ended = s.ended
  BY <1>1, <1>3, ReadCallsSteps
<1>4. ASSUME NEW x, NEW y, calls = <<x, y>>
      PROVE  LET t == ReadCalls(s, calls)
             IN  DOMAIN t = DOMAIN NewReader /\ t.stop = s.stop /\ t.usage = s.usage /\ t.ended = s.ended
  <2>1. ReadCalls(s, calls) = ReadCall(ReadCall(s, x), y)
    BY <1>4, ReadCallsSteps
  <2> QED BY <1>1, <2>1
<1> QED BY <1>2, <1>3, <1>4 DEF FewCalls

\* The end as the encoder should have heard of it.
Heard(protocol, s) == IF s.stop = "" THEN "" ELSE StopOf(protocol, s.stop)

\* A chunk of OpenAI that its protocol allows here.
LEMMA OpenAIDecoded ==
    ASSUME NEW d, NEW s, OpenAILinked(d, s, Heard("openai", s)), NEW chunk,
           FewCalls(chunk.calls),
           ~ReadChunk(s, chunk).bad
    PROVE  OpenAILinked(DecodeOpenAI(d, chunk), ReadChunk(s, chunk),
                        Heard("openai", ReadChunk(s, chunk)))
<1> DEFINE stop == Heard("openai", s)
           d0 == IF chunk.usage THEN [d EXCEPT !.usage = "all"] ELSE d
           d1 == IF chunk.text = 0 THEN d0 ELSE OpenAIText(d0, chunk.text)
           d2 == OpenAICalls(d1, chunk.calls)
           x == IF chunk.finish = "" THEN d2 ELSE OpenAIFinish(d2, chunk.finish)
           s1 == IF chunk.text = 0 THEN s ELSE [Take(s, Text(chunk.text)) EXCEPT !.block = "text"]
           s2 == ReadCalls(s1, chunk.calls)
           late == s.stop # "" /\ (chunk.text # 0 \/ chunk.calls # <<>> \/ chunk.finish # "")
           t == [Check(s2, ~s.ended /\ ~late) EXCEPT
                    !.stop = IF chunk.finish = "" THEN @ ELSE chunk.finish,
                    !.usage = IF chunk.usage THEN "all" ELSE @,
                    !.ended = @ \/ chunk.done]
<1>1. DecodeOpenAI(d, chunk) = x /\ ReadChunk(s, chunk) = t
  BY Zenon DEF DecodeOpenAI, ReadChunk
<1>2. OpenAILinked(d0, s, stop)
  <2>1. CASE chunk.usage
    <3> DEFINE y == [d EXCEPT !.usage = "all"]
    <3>1. Along(d, s.content, s.tools, d.tool, stop)
      BY DEF OpenAILinked
    <3>2. /\ DOMAIN y = DOMAIN NewDecoder /\ y.events = d.events /\ y.tool = d.tool
          /\ y.text = d.text
      BY <3>1, DecoderFields DEF Along, DecoderShape
    <3>3. d0 = y
      BY <2>1
    <3> HIDE DEF y, d0, stop
    <3>4. Along(y, s.content, s.tools, d.tool, stop)
      BY <3>1, <3>2, AlongSame
    <3> QED BY <3>2, <3>3, <3>4 DEF OpenAILinked, stop
  <2>2. CASE ~chunk.usage
    BY <2>2
  <2> QED BY <2>1, <2>2
<1> HIDE DEF d0, stop
<1>3. OpenAILinked(d1, s1, stop) /\ s1.stop = s.stop
  <2>1. CASE chunk.text = 0
    BY <1>2, <2>1
  <2>2. CASE chunk.text # 0
    <3>1. /\ d1 = OpenAIText(d0, chunk.text)
          /\ s1 = [Take(s, Text(chunk.text)) EXCEPT !.block = "text"]
      BY <2>2
    <3>2. s1.stop = s.stop
      BY <3>1, ReaderFields DEF OpenAILinked, Take
    <3> HIDE DEF d1, s1
    <3> QED BY <1>2, <2>2, <3>1, <3>2, OpenAITextLink
  <2> QED BY <2>1, <2>2
<1> HIDE DEF d1, s1
<1>4. DOMAIN s1 = DOMAIN NewReader
  BY <1>3 DEF OpenAILinked
<1>5. /\ DOMAIN s2 = DOMAIN NewReader /\ s2.stop = s1.stop
  BY <1>4, ReadCallsKeep
<1> HIDE DEF s2
<1>6. /\ ~s2.bad /\ ~late /\ DOMAIN t = DOMAIN NewReader /\ t.content = s2.content
      /\ t.tools = s2.tools /\ t.block = s2.block
  BY <1>1, <1>5, ReaderFields, Zenon DEF Check
<1>7. t.stop = IF chunk.finish = "" THEN s.stop ELSE chunk.finish
  BY <1>3, <1>5, ReaderFields, Zenon DEF Check
<1>8. chunk.calls # <<>> => Silent(s1)
  BY <1>3, <1>6, Zenon DEF Silent
<1> HIDE DEF t, late
<1>9. OpenAILinked(d2, s2, stop)
  BY <1>3, <1>6, <1>8, OpenAICallsLink DEF s2
<1> HIDE DEF d2
<1>10. CASE chunk.finish = ""
  <2>1. x = d2 /\ Heard("openai", t) = stop /\ t.stop = s2.stop
    BY <1>3, <1>5, <1>7, <1>10, Zenon DEF stop, Heard
  <2> HIDE DEF x
  <2>2. OpenAILinked(x, t, stop)
    BY <1>6, <1>9, <2>1 DEF OpenAILinked, Silent
  <2> QED BY <1>1, <2>1, <2>2
<1>11. CASE chunk.finish # ""
  <2> DEFINE a == StopBlock(d2, d2.tool \/ d2.text)
             reason == OpenAIFinishToCanon(chunk.finish)
             b == Produce(a, <<Finish(reason)>>)
             y == [b EXCEPT !.tool = FALSE, !.text = FALSE]
  <2>1. x = y
    BY <1>11, Zenon DEF OpenAIFinish
  <2>2. Heard("openai", t) = reason /\ ~Silent(t)
    BY <1>7, <1>11, Zenon DEF Heard, StopOf, Silent
  <2> HIDE DEF x, reason
  <2>3. Along(a, s2.content, s2.tools, FALSE, stop)
    BY <1>9, AlongStopBlock DEF OpenAILinked
  <2> HIDE DEF a
  <2>4. Along(b, s2.content, s2.tools, FALSE, reason)
    BY <2>3, AlongFinish
  <2> HIDE DEF b
  <2>5. DOMAIN y = DOMAIN NewDecoder /\ y.events = b.events /\ y.tool = FALSE /\ y.text = FALSE
    BY <2>4, DecoderFields DEF Along, DecoderShape
  <2> HIDE DEF y
  <2>6. Along(y, s2.content, s2.tools, FALSE, reason)
    BY <2>4, <2>5, AlongSame
  <2>7. OpenAILinked(y, t, reason)
    BY <1>6, <2>2, <2>5, <2>6 DEF OpenAILinked
  <2> QED BY <1>1, <2>1, <2>2, <2>7
<1> QED BY <1>10, <1>11

-----------------------------------------------------------------------------
(* Events of Anthropic, decoded *)

\* While a block is open the decoder knows of what it is.
AnthropicLinked(d, s, stop) ==
    /\ DOMAIN s = DOMAIN NewReader
    /\ Along(d, s.content, s.tools, s.open /\ s.block = "tool_use", stop)
    /\ s.open => d.block = s.block

\* Types of blocks, and stop reasons, in Anthropic's words.
Blocks == {"text", "tool_use", "thinking"}
CanonStops == {"end_turn", "max_tokens", "tool_use", "stop_sequence"}

\* What the upstream may send next, but for the guards of a reader.
Sends(ev) ==
    \/ ev.type \in {"message_start", "message_stop", "content_block_stop"}
    \/ ev.type \in {"content_block_start", "content_block_delta"} /\ ev.block \in Blocks
    \/ ev.type = "message_delta" /\ ev.stop \in CanonStops

\* Content is numbered.
Numbered(ev) ==
    /\ ev.type = "content_block_start" /\ ev.block = "tool_use" => ev.piece # 0
    /\ ev.type = "content_block_delta" => ev.piece # 0

\* A reader that finds nothing wrong with an event it checked twice.
Kept(s, t, ok) ==
    /\ DOMAIN t = DOMAIN NewReader /\ (~t.bad => ~s.bad /\ ok)
    /\ \A f \in DOMAIN NewReader : f # "bad" => t[f] = s[f]

LEMMA CheckKeeps ==
    ASSUME NEW s, DOMAIN s = DOMAIN NewReader, NEW ok PROVE Kept(s, Check(s, ok), ok)
BY ReaderFields DEF Check, Kept

\* message_start produces nothing.
LEMMA MessageStartDecoded ==
    ASSUME NEW d, NEW s, NEW stop, AnthropicLinked(d, s, stop), NEW ev, ev.type = "message_start"
    PROVE  LET t == ReadEvent(s, ev)
           IN  AnthropicLinked(DecodeAnthropic(d, ev), t, stop) /\ t.stop = s.stop
<1> DEFINE c == Checked(s, ev)
           t == [c EXCEPT !.started = TRUE, !.usage = "input"]
           x == [d EXCEPT !.usage = "input"]
<1>1. ReadEvent(s, ev) = t /\ DecodeAnthropic(d, ev) = x
  BY Zenon DEF ReadEvent, Checked, DecodeAnthropic
<1>2. Kept(s, c, ~s.ended /\ (ev.type = "message_start" <=> ~s.started))
  BY CheckKeeps DEF Checked, AnthropicLinked
<1> HIDE DEF c
<1>3. /\ DOMAIN t = DOMAIN NewReader /\ t.content = s.content /\ t.tools = s.tools
      /\ t.open = s.open /\ t.block = s.block /\ t.stop = s.stop
  BY <1>2, ReaderFields DEF Kept
<1>4. Along(d, s.content, s.tools, s.open /\ s.block = "tool_use", stop)
  BY DEF AnthropicLinked
<1>5. DOMAIN x = DOMAIN NewDecoder /\ x.events = d.events /\ x.block = d.block
  BY <1>4, DecoderFields DEF Along, DecoderShape
<1> HIDE DEF t, x
<1>6. Along(x, s.content, s.tools, s.open /\ s.block = "tool_use", stop)
  BY <1>4, <1>5, AlongSame
<1>7. AnthropicLinked(x, t, stop)
  BY <1>3, <1>5, <1>6 DEF AnthropicLinked
<1> QED BY <1>1, <1>3, <1>7

\* message_stop produces nothing.
LEMMA MessageStopDecoded ==
    ASSUME NEW d, NEW s, NEW stop, AnthropicLinked(d, s, stop), NEW ev, ev.type = "message_stop"
    PROVE  LET t == ReadEvent(s, ev)
           IN  AnthropicLinked(DecodeAnthropic(d, ev), t, stop) /\ t.stop = s.stop
<1> DEFINE c == Checked(s, ev)
           t == [Check(c, c.stop # "") EXCEPT !.ended = TRUE]
<1>1. ReadEvent(s, ev) = t /\ DecodeAnthropic(d, ev) = d
  BY Zenon DEF ReadEvent, Checked, DecodeAnthropic
<1>2. Kept(s, c, ~s.ended /\ (ev.type = "message_start" <=> ~s.started))
  BY CheckKeeps DEF Checked, AnthropicLinked
<1> HIDE DEF c
<1>3. /\ DOMAIN t = DOMAIN NewReader /\ t.content = s.content /\ t.tools = s.tools
      /\ t.open = s.open /\ t.block = s.block /\ t.stop = s.stop
  BY <1>2, ReaderFields, Zenon DEF Kept, Check
<1> HIDE DEF t
<1>4. AnthropicLinked(d, t, stop)
  BY <1>3 DEF AnthropicLinked
<1> QED BY <1>1, <1>3, <1>4

\* content_block_stop ends the block, unless what it holds is left out.
LEMMA BlockStopDecoded ==
    ASSUME NEW d, NEW s, NEW stop, AnthropicLinked(d, s, stop),
           NEW ev, ev.type = "content_block_stop", ~ReadEvent(s, ev).bad
    PROVE  LET t == ReadEvent(s, ev)
           IN  AnthropicLinked(DecodeAnthropic(d, ev), t, stop) /\ t.stop = s.stop
<1> DEFINE c == Checked(s, ev)
           current == s.open /\ ev.index = s.blocks - 1
           t == [Check(c, current) EXCEPT !.open = FALSE]
           y == [d EXCEPT !.block = ""]
           hidden == d.block = "thinking"
           x == StopBlock(y, ~hidden)
<1>1. ReadEvent(s, ev) = t /\ DecodeAnthropic(d, ev) = x
  <2>1. ReadEvent(s, ev) = t
    BY Zenon DEF ReadEvent, Checked
  <2>2. DecodeAnthropic(d, ev) = x
    BY Zenon DEF DecodeAnthropic
  <2> QED BY <2>1, <2>2
<1>2. Kept(s, c, ~s.ended /\ (ev.type = "message_start" <=> ~s.started))
  BY CheckKeeps DEF Checked, AnthropicLinked
<1> HIDE DEF c
<1>3. /\ DOMAIN t = DOMAIN NewReader /\ t.content = s.content /\ t.tools = s.tools
      /\ t.open = FALSE /\ t.stop = s.stop /\ s.open
  BY <1>1, <1>2, ReaderFields DEF Kept, Check
<1> HIDE DEF t
<1>4. Along(d, s.content, s.tools, s.open /\ s.block = "tool_use", stop)
  BY DEF AnthropicLinked
<1>5. DOMAIN y = DOMAIN NewDecoder /\ y.events = d.events
  BY <1>4, DecoderFields, Zenon DEF Along, DecoderShape
<1> HIDE DEF y
<1>6. Along(y, s.content, s.tools, s.open /\ s.block = "tool_use", stop)
  BY <1>4, <1>5, AlongSame
<1>7. (s.open /\ s.block = "tool_use") => ~hidden
  BY DEF AnthropicLinked
<1> HIDE DEF hidden
<1>8. (~hidden) \in BOOLEAN
  BY DEF hidden
<1>9. Along(x, s.content, s.tools, FALSE, stop)
  BY <1>6, <1>7, <1>8, AlongStopBlock
<1> HIDE DEF x
<1>10. AnthropicLinked(x, t, stop)
  BY <1>3, <1>9 DEF AnthropicLinked
<1> QED BY <1>1, <1>3, <1>10

\* content_block_start begins a call; text and thoughts have no event of their own.
LEMMA BlockStartDecoded ==
    ASSUME NEW d, NEW s, NEW stop, AnthropicLinked(d, s, stop),
           NEW ev, ev.type = "content_block_start", ev.block = "tool_use" => ev.piece # 0,
           ~ReadEvent(s, ev).bad
    PROVE  LET t == ReadEvent(s, ev)
           IN  AnthropicLinked(DecodeAnthropic(d, ev), t, stop) /\ t.stop = s.stop
<1> DEFINE c == Checked(s, ev)
           k == Check(c, ~c.open /\ ev.index = c.blocks /\ c.stop = "")
           b == [k EXCEPT !.open = TRUE, !.block = ev.block, !.blocks = @ + 1]
           t == IF ev.block # "tool_use" THEN b
                ELSE [Take(b, Tool(b.tools + 1, ev.piece)) EXCEPT !.tools = @ + 1]
           y == [d EXCEPT !.block = ev.block]
           x == Produce(y, IF ev.block = "tool_use" THEN <<Canon("tool_use_start", ev.piece)>>
                           ELSE <<>>)
<1>1. ReadEvent(s, ev) = t
  BY Zenon DEF ReadEvent, Checked
<1>a. DecodeAnthropic(d, ev) = x
  BY Zenon DEF DecodeAnthropic
<1>2. Kept(s, c, ~s.ended /\ (ev.type = "message_start" <=> ~s.started))
  BY CheckKeeps DEF Checked, AnthropicLinked
<1> HIDE DEF c
<1>3. Kept(c, k, ~c.open /\ ev.index = c.blocks /\ c.stop = "")
  <2>1. DOMAIN c = DOMAIN NewReader
    BY <1>2 DEF Kept
  <2> QED BY <2>1, CheckKeeps, Zenon
<1>b. ~k.bad => ~c.open
  BY <1>3, Zenon DEF Kept
<1>c. DOMAIN k = DOMAIN NewReader /\ \A f \in DOMAIN NewReader : f # "bad" => k[f] = s[f]
  BY <1>2, <1>3, Zenon DEF Kept
<1> HIDE DEF k
<1>d. /\ DOMAIN b = DOMAIN NewReader /\ b.content = s.content /\ b.tools = s.tools /\ b.stop = s.stop
      /\ b.open = TRUE /\ b.block = ev.block /\ b.bad = k.bad
  BY <1>c, ReaderFields
<1> HIDE DEF b
<1>e. ~t.bad => ~k.bad
  BY <1>d, ReaderFields DEF Take
<1>f. s.open = c.open
  BY <1>2, ReaderFields DEF Kept
<1>g. ~s.open
  BY <1>1, <1>b, <1>e, <1>f
<1>4. Along(d, s.content, s.tools, FALSE, stop)
  <2>1. Along(d, s.content, s.tools, s.open /\ s.block = "tool_use", stop)
    BY DEF AnthropicLinked
  <2>2. (s.open /\ s.block = "tool_use") = FALSE
    BY <1>g
  <2> QED BY <2>1, <2>2
<1>5. DOMAIN y = DOMAIN NewDecoder /\ y.events = d.events /\ y.block = ev.block
  BY <1>4, DecoderFields DEF Along, DecoderShape
<1> HIDE DEF y
<1>6. Along(y, s.content, s.tools, FALSE, stop)
  BY <1>4, <1>5, AlongSame
<1>7. CASE ev.block = "tool_use"
  <2>1. x = Produce(y, <<Canon("tool_use_start", ev.piece)>>)
    BY <1>7
  <2>2. /\ DOMAIN t = DOMAIN NewReader /\ t.content = Append(s.content, Tool(s.tools + 1, ev.piece))
        /\ t.tools = s.tools + 1 /\ t.stop = s.stop /\ t.open = TRUE /\ t.block = ev.block
    BY <1>7, <1>d, ReaderFields DEF Take
  <2> HIDE DEF t, x
  <2>3. Along(x, Append(s.content, Tool(s.tools + 1, ev.piece)), s.tools + 1, TRUE, stop)
    BY <1>6, <1>7, <2>1, AlongCall
  <2>4. x.block = ev.block
    BY <1>5, <1>6, <2>1, ProduceStep DEF Along
  <2>5. (t.open /\ t.block = "tool_use") = TRUE
    BY <1>7, <2>2
  <2>6. AnthropicLinked(x, t, stop)
    BY <2>2, <2>3, <2>4, <2>5 DEF AnthropicLinked
  <2> QED BY <1>1, <1>a, <2>2, <2>6
<1>8. CASE ev.block # "tool_use"
  <2>1. x = Produce(y, <<>>) /\ t = b
    BY <1>8
  <2> HIDE DEF t, x
  <2>2. Listed(y.events) /\ DOMAIN y = DOMAIN NewDecoder
    BY <1>6 DEF Along, DecoderShape
  <2>3. x.events = y.events /\ x.block = ev.block /\ DOMAIN x = DOMAIN NewDecoder
    <3>1. x.events = y.events \o <<>> /\ x.block = y.block /\ DOMAIN x = DOMAIN NewDecoder
      BY <2>1, <2>2, DecoderFields DEF Produce
    <3>2. PICK T : y.events \in Seq(T)
      BY <2>2 DEF Listed
    <3> QED BY <1>5, <3>1, <3>2, ConcatEmptySeq
  <2>4. Along(x, s.content, s.tools, FALSE, stop)
    BY <1>6, <2>3, AlongSame
  <2>5. (t.open /\ t.block = "tool_use") = FALSE
    BY <1>8, <1>d, <2>1
  <2>6. AnthropicLinked(x, t, stop)
    BY <1>d, <2>1, <2>3, <2>4, <2>5 DEF AnthropicLinked
  <2> QED BY <1>1, <1>a, <1>d, <2>1, <2>6
<1> QED BY <1>7, <1>8

\* content_block_delta adds to the block that is open; thoughts are left out.
LEMMA DeltaDecoded ==
    ASSUME NEW d, NEW s, NEW stop, AnthropicLinked(d, s, stop),
           NEW ev, ev.type = "content_block_delta", ev.piece # 0,
           ev.block \in Blocks, ~ReadEvent(s, ev).bad
    PROVE  LET t == ReadEvent(s, ev)
           IN  AnthropicLinked(DecodeAnthropic(d, ev), t, stop) /\ t.stop = s.stop
<1> DEFINE c == Checked(s, ev)
           k == Check(c, s.open /\ ev.index = s.blocks - 1 /\ ev.block = c.block)
           t == CASE ev.block = "text" -> Take(k, Text(ev.piece))
                  [] ev.block = "tool_use" -> Take(k, Args(k.tools, ev.piece))
                  [] OTHER -> k
<1>1. ReadEvent(s, ev) = t
  BY Zenon DEF ReadEvent, Checked
<1>2. Kept(s, c, ~s.ended /\ (ev.type = "message_start" <=> ~s.started))
  BY CheckKeeps DEF Checked, AnthropicLinked
<1> HIDE DEF c
<1>3. Kept(c, k, s.open /\ ev.index = s.blocks - 1 /\ ev.block = c.block)
  <2>1. DOMAIN c = DOMAIN NewReader
    BY <1>2 DEF Kept
  <2> QED BY <2>1, CheckKeeps, Zenon
<1> HIDE DEF k
<1>4. DOMAIN k = DOMAIN NewReader /\ \A f \in DOMAIN NewReader : f # "bad" => k[f] = s[f]
  BY <1>2, <1>3, Zenon DEF Kept
<1>5. ~t.bad => ~k.bad
  BY <1>4, ReaderFields DEF Take
<1>6. s.open /\ ev.block = s.block
  BY <1>1, <1>2, <1>3, <1>5, ReaderFields DEF Kept
<1>7. Along(d, s.content, s.tools, s.open /\ s.block = "tool_use", stop) /\ d.block = s.block
  BY <1>6 DEF AnthropicLinked
<1>8. CASE ev.block = "text"
  <2>1. /\ DOMAIN t = DOMAIN NewReader /\ t.content = Append(s.content, Text(ev.piece))
        /\ t.tools = s.tools /\ t.stop = s.stop /\ t.open = s.open /\ t.block = s.block
    BY <1>4, <1>8, ReaderFields DEF Take
  <2> DEFINE x == Produce(d, <<Canon("text_delta", ev.piece)>>)
  <2>2. DecodeAnthropic(d, ev) = x
    <3>1. d.block # "thinking"
      BY <1>6, <1>7, <1>8
    <3> QED BY <1>8, <3>1, Zenon DEF DecodeAnthropic
  <2>3. x.block = d.block
    BY <1>7, ProduceStep DEF Along
  <2>4. Along(x, Append(s.content, Text(ev.piece)), s.tools, FALSE, stop)
    BY <1>7, AlongText
  <2> HIDE DEF t, x
  <2>5. (t.open /\ t.block = "tool_use") = FALSE
    BY <1>6, <1>8, <2>1
  <2>6. AnthropicLinked(x, t, stop)
    BY <1>7, <2>1, <2>3, <2>4, <2>5 DEF AnthropicLinked
  <2> QED BY <1>1, <2>1, <2>2, <2>6
<1>9. CASE ev.block = "tool_use"
  <2>1. /\ DOMAIN t = DOMAIN NewReader /\ t.content = Append(s.content, Args(s.tools, ev.piece))
        /\ t.tools = s.tools /\ t.stop = s.stop /\ t.open = s.open /\ t.block = s.block
    BY <1>4, <1>9, ReaderFields DEF Take
  <2> DEFINE x == Produce(d, <<Canon("tool_args_delta", ev.piece)>>)
  <2>2. DecodeAnthropic(d, ev) = x
    <3>1. d.block # "thinking" /\ ev.block # "text"
      BY <1>6, <1>7, <1>9
    <3> QED BY <1>9, <3>1, Zenon DEF DecodeAnthropic
  <2>3. x.block = d.block
    BY <1>7, ProduceStep DEF Along
  <2>4. Along(x, Append(s.content, Args(s.tools, ev.piece)), s.tools, TRUE, stop)
    <3>1. (s.open /\ s.block = "tool_use") = TRUE
      BY <1>6, <1>9
    <3> QED BY <1>7, <3>1, AlongArgs
  <2> HIDE DEF t, x
  <2>5. (t.open /\ t.block = "tool_use") = TRUE
    BY <1>6, <1>9, <2>1
  <2>6. AnthropicLinked(x, t, stop)
    BY <1>7, <2>1, <2>3, <2>4, <2>5 DEF AnthropicLinked
  <2> QED BY <1>1, <2>1, <2>2, <2>6
<1>10. CASE ev.block = "thinking"
  <2>1. /\ DOMAIN t = DOMAIN NewReader /\ t.content = s.content
        /\ t.tools = s.tools /\ t.stop = s.stop /\ t.open = s.open /\ t.block = s.block
    BY <1>4, <1>10, ReaderFields
  <2>2. DecodeAnthropic(d, ev) = d
    <3>1. d.block = "thinking"
      BY <1>6, <1>7, <1>10
    <3> QED BY <3>1, Zenon DEF DecodeAnthropic
  <2> HIDE DEF t
  <2>3. AnthropicLinked(d, t, stop)
    BY <1>7, <2>1 DEF AnthropicLinked
  <2> QED BY <1>1, <2>1, <2>2, <2>3
<1> QED BY <1>8, <1>9, <1>10 DEF Blocks

\* message_delta says why the message stops.
LEMMA MessageDeltaDecoded ==
    ASSUME NEW d, NEW s, NEW stop, AnthropicLinked(d, s, stop),
           NEW ev, ev.type = "message_delta"
    PROVE  LET t == ReadEvent(s, ev)
           IN  AnthropicLinked(DecodeAnthropic(d, ev), t, ev.stop) /\ t.stop = ev.stop
<1> DEFINE c == Checked(s, ev)
           t == [Check(c, ~c.open /\ c.stop = "") EXCEPT !.stop = ev.stop, !.usage = "all"]
           y == [d EXCEPT !.usage = "all"]
           x == Produce(y, <<Finish(ev.stop)>>)
<1>1. ReadEvent(s, ev) = t /\ DecodeAnthropic(d, ev) = x
  <2>1. ReadEvent(s, ev) = t
    BY Zenon DEF ReadEvent, Checked
  <2>2. DecodeAnthropic(d, ev) = x
    BY Zenon DEF DecodeAnthropic
  <2> QED BY <2>1, <2>2
<1>2. Kept(s, c, ~s.ended /\ (ev.type = "message_start" <=> ~s.started))
  BY CheckKeeps DEF Checked, AnthropicLinked
<1> HIDE DEF c
<1>3. /\ DOMAIN t = DOMAIN NewReader /\ t.content = s.content /\ t.tools = s.tools
      /\ t.open = s.open /\ t.block = s.block /\ t.stop = ev.stop
  BY <1>2, ReaderFields, Zenon DEF Kept, Check
<1> HIDE DEF t
<1>4. Along(d, s.content, s.tools, s.open /\ s.block = "tool_use", stop)
  BY DEF AnthropicLinked
<1>5. DOMAIN y = DOMAIN NewDecoder /\ y.events = d.events /\ y.block = d.block
  BY <1>4, DecoderFields DEF Along, DecoderShape
<1> HIDE DEF y
<1>6. Along(y, s.content, s.tools, s.open /\ s.block = "tool_use", stop)
  BY <1>4, <1>5, AlongSame
<1>7. Along(x, s.content, s.tools, s.open /\ s.block = "tool_use", ev.stop)
  BY <1>6, AlongFinish
<1>8. x.block = d.block
  BY <1>5, <1>6, ProduceStep DEF Along
<1> HIDE DEF x
<1>9. AnthropicLinked(x, t, ev.stop)
  BY <1>3, <1>7, <1>8 DEF AnthropicLinked
<1> QED BY <1>1, <1>3, <1>9

\* An event of Anthropic that its protocol allows here.
LEMMA AnthropicDecoded ==
    ASSUME NEW d, NEW s, AnthropicLinked(d, s, Heard("anthropic", s)), NEW ev, Sends(ev),
           Numbered(ev), ~ReadEvent(s, ev).bad
    PROVE  LET t == ReadEvent(s, ev)
           IN  AnthropicLinked(DecodeAnthropic(d, ev), t, Heard("anthropic", t))
<1> DEFINE t == ReadEvent(s, ev)
           x == DecodeAnthropic(d, ev)
<1>1. CASE ev.type = "message_delta" /\ ev.stop \in CanonStops
  <2>1. AnthropicLinked(x, t, ev.stop) /\ t.stop = ev.stop
    BY <1>1, MessageDeltaDecoded
  <2> HIDE DEF t, x
  <2>2. Heard("anthropic", t) = ev.stop
    BY <1>1, <2>1, Zenon DEF Heard, StopOf, CanonStops
  <2> QED BY <2>1, <2>2 DEF t, x
<1>2. CASE ~(ev.type = "message_delta" /\ ev.stop \in CanonStops)
  <2>1. AnthropicLinked(x, t, Heard("anthropic", s)) /\ t.stop = s.stop
    BY <1>2, MessageStartDecoded, MessageStopDecoded, BlockStopDecoded, BlockStartDecoded,
       DeltaDecoded DEF Sends, Numbered
  <2> HIDE DEF t, x
  <2>2. Heard("anthropic", t) = Heard("anthropic", s)
    BY <2>1, Zenon DEF Heard
  <2> QED BY <2>1, <2>2 DEF t, x
<1> QED BY <1>1, <1>2

-----------------------------------------------------------------------------
(* Chunks of Gemini, decoded *)

\* Calls come whole: none is ever open.
GeminiLinked(d, s, stop) ==
    DOMAIN s = DOMAIN NewReader /\ Along(d, s.content, s.tools, FALSE, stop)

\* A chunk has at most two parts.
FewParts(parts) == parts = <<>> \/ (\E p : parts = <<p>>) \/ (\E p, q : parts = <<p, q>>)

\* Three events appended at once are appended one by one.
LEMMA AppendThree ==
    ASSUME NEW s, Listed(s), NEW a, NEW b, NEW c
    PROVE  s \o <<a, b, c>> = Append(Append(Append(s, a), b), c)
<1>1. PICK T : s \in Seq(T)
  BY DEF Listed
<1>2. s \in Seq(T \cup {a, b, c})
  <2>1. Len(s) \in Nat /\ s = [i \in 1..Len(s) |-> s[i]] /\ \A i \in 1..Len(s) : s[i] \in T
    BY <1>1, ElementOfSeq, LenProperties
  <2>2. [i \in 1..Len(s) |-> s[i]] \in Seq(T \cup {a, b, c})
    BY <2>1
  <2> QED BY <2>1, <2>2
<1>3. PICK S : s \in Seq(S) /\ a \in S /\ b \in S /\ c \in S
  BY <1>2
<1>4. /\ Append(s, a) = s \o <<a>> /\ Append(s, a) \in Seq(S)
      /\ Append(Append(s, a), b) = Append(s, a) \o <<b>> /\ Append(Append(s, a), b) \in Seq(S)
      /\ Append(Append(Append(s, a), b), c) = Append(Append(s, a), b) \o <<c>>
  BY <1>3, AppendProperties, AppendIsConcat
<1>5. <<a, b, c>> = <<a>> \o (<<b>> \o <<c>>)
  <2>1. <<b, c>> = Append(<<b>>, c) /\ <<a, b>> = Append(<<a>>, b)
        /\ <<a, b, c>> = Append(<<a, b>>, c)
    OBVIOUS
  <2>2. <<a>> \in Seq(S) /\ <<b>> \in Seq(S) /\ <<c>> \in Seq(S) /\ <<a, b>> \in Seq(S)
    BY <1>3
  <2>3. /\ Append(<<b>>, c) = <<b>> \o <<c>> /\ Append(<<a>>, b) = <<a>> \o <<b>>
        /\ Append(<<a, b>>, c) = <<a, b>> \o <<c>>
    BY <1>3, <2>2, AppendIsConcat
  <2>4. <<a>> \o (<<b>> \o <<c>>) = (<<a>> \o <<b>>) \o <<c>>
    BY <2>2, ConcatAssociative
  <2> QED BY ONLY <2>1, <2>3, <2>4, Zenon
<1>6. <<a>> \in Seq(S) /\ <<b>> \in Seq(S) /\ <<c>> \in Seq(S) /\ (<<b>> \o <<c>>) \in Seq(S)
  BY <1>3
<1>7. /\ s \o (<<a>> \o (<<b>> \o <<c>>)) = (s \o <<a>>) \o (<<b>> \o <<c>>)
  BY <1>3, <1>6, ConcatAssociative
<1>8. (s \o <<a>>) \o (<<b>> \o <<c>>) = ((s \o <<a>>) \o <<b>>) \o <<c>>
  BY <1>4, <1>6, ConcatAssociative
<1> QED BY <1>4, <1>5, <1>7, <1>8, Zenon

\* A part is text, or a whole call.
LEMMA GeminiPartLink ==
    ASSUME NEW d, NEW s, NEW stop, GeminiLinked(d, s, stop), NEW p, p.piece # 0
    PROVE  GeminiLinked(GeminiPart(d, p), ReadPart(s, p), stop)
<1>1. CASE p.kind = "text"
  <2> DEFINE x == Produce(d, <<Canon("text_delta", p.piece)>>)
             t == Take(s, Text(p.piece))
  <2>1. GeminiPart(d, p) = x /\ ReadPart(s, p) = t
    BY <1>1 DEF GeminiPart, ReadPart
  <2>2. Along(x, Append(s.content, Text(p.piece)), s.tools, FALSE, stop)
    BY AlongText DEF GeminiLinked
  <2>3. DOMAIN t = DOMAIN NewReader /\ t.content = Append(s.content, Text(p.piece)) /\ t.tools = s.tools
    BY ReaderFields DEF GeminiLinked, Take
  <2> HIDE DEF x, t
  <2> QED BY <2>1, <2>2, <2>3 DEF GeminiLinked
<1>2. CASE p.kind # "text"
  <2> DEFINE a == Canon("tool_use_start", p.piece)
             b == Canon("tool_args_delta", p.piece)
             c == Canon("block_stop", 0)
             x == Produce(d, <<a, b, c>>)
             da == Produce(d, <<a>>)
             db == Produce(da, <<b>>)
             dc == Produce(db, <<c>>)
             k == s.tools + 1
             t == [Take(Take(s, Tool(k, p.piece)), Args(k, p.piece)) EXCEPT !.tools = @ + 1]
  <2>1. GeminiPart(d, p) = x /\ ReadPart(s, p) = t
    BY <1>2 DEF GeminiPart, ReadPart
  <2>2. Along(da, Append(s.content, Tool(k, p.piece)), k, TRUE, stop)
    BY AlongCall DEF GeminiLinked
  <2>3. Along(db, Append(Append(s.content, Tool(k, p.piece)), Args(k, p.piece)), k, TRUE, stop)
    <3> HIDE DEF da, k
    <3> QED BY <2>2, AlongArgs
  <2>4. Along(dc, Append(Append(s.content, Tool(k, p.piece)), Args(k, p.piece)), k, FALSE, stop)
    <3> HIDE DEF db, k
    <3> QED BY <2>3, AlongStop
  <2>5. DecoderShape(d)
    BY DEF GeminiLinked, Along
  <2>6. DOMAIN x = DOMAIN NewDecoder /\ x.events = dc.events
    <3> HIDE DEF a, b, c
    <3>1. DOMAIN x = DOMAIN NewDecoder /\ x.events = d.events \o <<a, b, c>>
      BY <2>5, DecoderFields DEF DecoderShape, Produce
    <3>2. ASSUME NEW y, DecoderShape(y), NEW ev
          PROVE  Produce(y, <<ev>>).events = Append(y.events, ev)
      <4>1. Produce(y, <<ev>>).events = y.events \o <<ev>>
        BY <3>2, DecoderFields DEF DecoderShape, Produce
      <4> QED BY <3>2, <4>1, ListedAppend DEF DecoderShape
    <3>3. DecoderShape(da) /\ DecoderShape(db)
      BY <2>2, <2>3 DEF Along
    <3>4. dc.events = Append(Append(Append(d.events, a), b), c)
      BY <2>5, <3>2, <3>3
    <3>5. Listed(d.events)
      BY <2>5 DEF DecoderShape
    <3>6. d.events \o <<a, b, c>> = Append(Append(Append(d.events, a), b), c)
      BY <3>5, AppendThree
    <3> HIDE DEF x, da, db, dc
    <3> QED BY ONLY <3>1, <3>4, <3>6, Zenon
  <2> HIDE DEF x, dc
  <2>7. Along(x, Append(Append(s.content, Tool(k, p.piece)), Args(k, p.piece)), k, FALSE, stop)
    BY <2>4, <2>6, AlongSame
  <2>8. /\ DOMAIN t = DOMAIN NewReader /\ t.tools = k
        /\ t.content = Append(Append(s.content, Tool(k, p.piece)), Args(k, p.piece))
    BY ReaderFields DEF GeminiLinked, Take
  <2> HIDE DEF t, k
  <2> QED BY <2>1, <2>7, <2>8 DEF GeminiLinked
<1> QED BY <1>1, <1>2

\* The parts of a chunk, of which there are two at most.
LEMMA GeminiPartsLink ==
    ASSUME NEW d, NEW s, NEW stop, GeminiLinked(d, s, stop), NEW parts, FewParts(parts),
           \A i \in DOMAIN parts : parts[i].piece # 0
    PROVE  GeminiLinked(GeminiParts(d, parts), ReadParts(s, parts), stop)
<1>1. CASE parts = <<>>
  BY <1>1, ReadPartsSteps, GeminiPartsSteps
<1>2. ASSUME NEW p, parts = <<p>>
      PROVE  GeminiLinked(GeminiParts(d, parts), ReadParts(s, parts), stop)
  <2>1. ReadParts(s, parts) = ReadPart(s, p) /\ GeminiParts(d, parts) = GeminiPart(d, p)
    BY <1>2, ReadPartsSteps, GeminiPartsSteps
  <2>2. p.piece # 0
    BY <1>2
  <2> QED BY <2>1, <2>2, GeminiPartLink
<1>3. ASSUME NEW p, NEW q, parts = <<p, q>>
      PROVE  GeminiLinked(GeminiParts(d, parts), ReadParts(s, parts), stop)
  <2>1. /\ ReadParts(s, parts) = ReadPart(ReadPart(s, p), q)
        /\ GeminiParts(d, parts) = GeminiPart(GeminiPart(d, p), q)
    BY <1>3, ReadPartsSteps, GeminiPartsSteps
  <2>2. p.piece # 0 /\ q.piece # 0
    BY <1>3
  <2>3. GeminiLinked(GeminiPart(d, p), ReadPart(s, p), stop)
    BY <2>2, GeminiPartLink
  <2> QED BY <2>1, <2>2, <2>3, GeminiPartLink
<1> QED BY <1>1, <1>2, <1>3 DEF FewParts

\* A chunk of Gemini that its protocol allows here.
LEMMA GeminiDecoded ==
    ASSUME NEW d, NEW s, GeminiLinked(d, s, Heard("gemini", s)), NEW chunk, FewParts(chunk.parts),
           \A i \in DOMAIN chunk.parts : chunk.parts[i].piece # 0,
           ~ReadGemini(s, chunk).bad
    PROVE  LET t == ReadGemini(s, chunk)
           IN  GeminiLinked(DecodeGemini(d, chunk), t, Heard("gemini", t))
<1> DEFINE s1 == ReadParts(s, chunk.parts)
           d1 == GeminiParts(d, chunk.parts)
           y == IF chunk.usage THEN [d1 EXCEPT !.usage = "all"] ELSE d1
           x == IF chunk.finish = "" THEN y
                ELSE Produce(y, <<Finish(GeminiFinishToCanon(chunk.finish))>>)
           t == [Check(s1, s.stop = "") EXCEPT
                    !.stop = chunk.finish, !.usage = IF chunk.usage THEN "all" ELSE @]
           stop == Heard("gemini", s)
<1>1. DecodeGemini(d, chunk) = x /\ ReadGemini(s, chunk) = t
  BY Zenon DEF DecodeGemini, ReadGemini
<1> HIDE DEF stop
<1>2. GeminiLinked(d1, s1, stop)
  BY GeminiPartsLink DEF stop
<1> HIDE DEF d1, s1
<1>3. DOMAIN s1 = DOMAIN NewReader
  BY <1>2 DEF GeminiLinked
<1>4. /\ DOMAIN t = DOMAIN NewReader /\ t.content = s1.content /\ t.tools = s1.tools
      /\ t.stop = chunk.finish
  BY <1>3, ReaderFields, Zenon DEF Check
<1>5. s.stop = ""
  BY <1>1, <1>3, ReaderFields, Zenon DEF Check
<1> HIDE DEF t
<1>6. Along(y, s1.content, s1.tools, FALSE, stop)
  <2>1. Along(d1, s1.content, s1.tools, FALSE, stop)
    BY <1>2 DEF GeminiLinked
  <2>2. CASE chunk.usage
    <3> DEFINE z == [d1 EXCEPT !.usage = "all"]
    <3>1. DOMAIN z = DOMAIN NewDecoder /\ z.events = d1.events
      BY <2>1, DecoderFields DEF Along, DecoderShape
    <3>2. y = z
      BY <2>2
    <3> HIDE DEF y, z
    <3> QED BY <2>1, <3>1, <3>2, AlongSame
  <2>3. CASE ~chunk.usage
    BY <2>1, <2>3
  <2> QED BY <2>2, <2>3
<1> HIDE DEF y
<1>7. CASE chunk.finish = ""
  <2>1. x = y /\ Heard("gemini", t) = stop
    BY <1>4, <1>5, <1>7, Zenon DEF Heard, stop
  <2> HIDE DEF x
  <2> QED BY <1>1, <1>4, <1>6, <2>1 DEF GeminiLinked
<1>8. CASE chunk.finish # ""
  <2> DEFINE reason == GeminiFinishToCanon(chunk.finish)
  <2>1. x = Produce(y, <<Finish(reason)>>) /\ Heard("gemini", t) = reason
    BY <1>4, <1>8, Zenon DEF Heard, StopOf
  <2> HIDE DEF x, reason
  <2>2. Along(x, s1.content, s1.tools, FALSE, reason)
    BY <1>6, <2>1, AlongFinish
  <2> QED BY <1>1, <1>4, <2>1, <2>2 DEF GeminiLinked
<1> QED BY <1>7, <1>8

-----------------------------------------------------------------------------
(* The end of a stream *)

\* Encoders that differ in nothing but whether they are done.
Alike(x, y) ==
    /\ EncoderShape(x) /\ EncoderShape(y)
    /\ \A f \in DOMAIN NewEncoder : f # "done" => x[f] = y[f]

\* They have sent the same.
LEMMA AlikeFields ==
    ASSUME NEW x, NEW y, Alike(x, y)
    PROVE  /\ x.started = y.started /\ x.open = y.open /\ x.index = y.index /\ x.stop = y.stop
           /\ x.frames = y.frames /\ Seen(x) = Seen(y)
BY EncoderFields DEF Alike, Seen

\* They go on alike.
LEMMA AlikeEmit ==
    ASSUME NEW x, NEW y, Alike(x, y), NEW frame PROVE Alike(Emit(x, frame), Emit(y, frame))
<1>1. EncoderShape(Emit(x, frame)) /\ EncoderShape(Emit(y, frame))
  BY EmitStep DEF Alike
<1>2. ASSUME NEW f \in DOMAIN NewEncoder, f # "done"
      PROVE  Emit(x, frame)[f] = Emit(y, frame)[f]
  <2>1. x.frames = y.frames /\ x[f] = y[f] /\ DOMAIN x = DOMAIN NewEncoder
        /\ DOMAIN y = DOMAIN NewEncoder
    BY <1>2, AlikeFields DEF Alike, EncoderShape
  <2> QED BY <2>1, EncoderFields DEF Emit
<1> QED BY <1>1, <1>2 DEF Alike

LEMMA AlikeStart ==
    ASSUME NEW x, NEW y, Alike(x, y) PROVE Alike(EnsureStart(x), EnsureStart(y))
<1>1. CASE x.started
  BY <1>1, AlikeFields DEF EnsureStart
<1>2. CASE ~x.started
  <2> DEFINE u == [x EXCEPT !.started = TRUE]
             v == [y EXCEPT !.started = TRUE]
  <2>1. Alike(u, v)
    <3>1. EncoderShape(u) /\ EncoderShape(v)
      BY EncoderFields DEF Alike, EncoderShape
    <3> QED BY <3>1, EncoderFields DEF Alike, EncoderShape
  <2>2. /\ EnsureStart(x) = Emit(u, Event("message_start"))
        /\ EnsureStart(y) = Emit(v, Event("message_start"))
    BY <1>2, AlikeFields DEF EnsureStart
  <2> HIDE DEF u, v
  <2> QED BY <2>1, <2>2, AlikeEmit
<1> QED BY <1>1, <1>2

LEMMA AlikeClose ==
    ASSUME NEW x, NEW y, Alike(x, y) PROVE Alike(CloseBlock(x), CloseBlock(y))
<1>1. CASE ~x.open
  BY <1>1, AlikeFields DEF CloseBlock
<1>2. CASE x.open
  <2> DEFINE u == [x EXCEPT !.open = FALSE]
             v == [y EXCEPT !.open = FALSE]
             frame == [Event("content_block_stop") EXCEPT !.index = x.index]
  <2>1. Alike(u, v)
    <3>1. EncoderShape(u) /\ EncoderShape(v)
      BY EncoderFields DEF Alike, EncoderShape
    <3> QED BY <3>1, EncoderFields DEF Alike, EncoderShape
  <2>2. CloseBlock(x) = Emit(u, frame) /\ CloseBlock(y) = Emit(v, frame)
    BY <1>2, AlikeFields DEF CloseBlock
  <2> HIDE DEF u, v, frame
  <2> QED BY <2>1, <2>2, AlikeEmit
<1> QED BY <1>1, <1>2

LEMMA AlikeDone ==
    ASSUME NEW e, EncoderShape(e) PROVE Alike([e EXCEPT !.done = TRUE], e)
<1>1. EncoderShape([e EXCEPT !.done = TRUE])
  BY EncoderFields DEF EncoderShape
<1> QED BY <1>1, EncoderFields DEF Alike, EncoderShape

\* The client has everything, and its stream has ended as it should.
Ended(r, content, stop) ==
    /\ r.bad = FALSE /\ r.ended = TRUE /\ r.open = FALSE /\ r.content = content /\ r.stop = stop

\* The stop reason an encoder ends with.
LastStop(protocol, stop) ==
    IF protocol = "openai" THEN CanonStopToOpenAI(stop) ELSE IF stop = "" THEN "end_turn" ELSE stop

\* What a chunk without content does.
LEMMA ReadEmpty ==
    ASSUME NEW r, DOMAIN r = DOMAIN NewReader, NEW chunk, chunk.text = 0, chunk.calls = <<>>
    PROVE  ReadChunk(r, chunk) =
              [Check(r, ~r.ended /\ ~(r.stop # "" /\ chunk.finish # "")) EXCEPT
                  !.stop = IF chunk.finish = "" THEN @ ELSE chunk.finish,
                  !.usage = IF chunk.usage THEN "all" ELSE @,
                  !.ended = @ \/ chunk.done]
<1>1. ReadCalls(r, <<>>) = r
  BY ReadCallsSteps
<1>2. (r.stop # "" /\ (chunk.text # 0 \/ chunk.calls # <<>> \/ chunk.finish # "")) =
         (r.stop # "" /\ chunk.finish # "")
  BY Zenon
<1> QED BY <1>1, <1>2, Zenon DEF ReadChunk

\* A chunk with the finish reason and the marker end a stream of OpenAI.
LEMMA OpenAIEnds ==
    ASSUME down = "openai", NEW e, EncoderShape(e), NEW content, NEW tools,
           NEW calling, OpenAIFollows(e, Seen(e), content, tools, calling)
    PROVE  LET x == FinishOpenAI(e)
           IN  EncoderShape(x) /\ Ended(Seen(x), content, LastStop(down, e.stop))
<1> DEFINE stop == CanonStopToOpenAI(e.stop)
           fa == [Chunk EXCEPT !.finish = stop]
           fb == [Chunk EXCEPT !.usage = TRUE]
           fc == [Chunk EXCEPT !.done = TRUE]
           a == Emit(e, fa)
           b == Emit(a, fb)
           c == Emit(b, fc)
           r == Seen(e)
           ra == ReadChunk(r, fa)
           rb == ReadChunk(ra, fb)
           rc == ReadChunk(rb, fc)
<1>1. FinishOpenAI(e) = c
  BY DEF FinishOpenAI
<1>2. EncoderShape(a) /\ Seen(a) = ra
  BY EmitStep DEF Read
<1>3. EncoderShape(b) /\ Seen(b) = rb
  <2> HIDE DEF a, fb, ra
  <2> QED BY <1>2, EmitStep DEF Read
<1>4. EncoderShape(c) /\ Seen(c) = rc
  <2> HIDE DEF b, fc, rb
  <2> QED BY <1>3, EmitStep DEF Read
<1>5. stop # ""
  BY Zenon DEF CanonStopToOpenAI
<1>6. /\ fa.text = 0 /\ fa.calls = <<>> /\ fa.finish = stop /\ fa.usage = FALSE /\ fa.done = FALSE
      /\ fb.text = 0 /\ fb.calls = <<>> /\ fb.finish = "" /\ fb.usage = TRUE /\ fb.done = FALSE
      /\ fc.text = 0 /\ fc.calls = <<>> /\ fc.finish = "" /\ fc.usage = FALSE /\ fc.done = TRUE
  BY DEF Chunk
<1> HIDE DEF r, fa, fb, fc, stop
<1>7. /\ DOMAIN r = DOMAIN NewReader /\ r.bad = FALSE /\ r.ended = FALSE /\ r.stop = ""
      /\ r.open = FALSE /\ r.content = content
  BY Zenon DEF OpenAIFollows, Following, ReaderShape, Going, r
<1>8. /\ DOMAIN ra = DOMAIN NewReader /\ ra.bad = FALSE /\ ra.ended = FALSE /\ ra.stop = stop
      /\ ra.open = FALSE /\ ra.content = content
  <2>1. ra = [Check(r, ~r.ended /\ ~(r.stop # "" /\ fa.finish # "")) EXCEPT
                !.stop = IF fa.finish = "" THEN @ ELSE fa.finish,
                !.usage = IF fa.usage THEN "all" ELSE @,
                !.ended = @ \/ fa.done]
    BY <1>6, <1>7, ReadEmpty, Zenon
  <2> QED BY <1>5, <1>6, <1>7, <2>1, ReaderFields, Zenon DEF Check
<1> HIDE DEF ra
<1>9. /\ DOMAIN rb = DOMAIN NewReader /\ rb.bad = FALSE /\ rb.ended = FALSE /\ rb.stop = stop
      /\ rb.open = FALSE /\ rb.content = content
  <2>1. rb = [Check(ra, ~ra.ended /\ ~(ra.stop # "" /\ fb.finish # "")) EXCEPT
                !.stop = IF fb.finish = "" THEN @ ELSE fb.finish,
                !.usage = IF fb.usage THEN "all" ELSE @,
                !.ended = @ \/ fb.done]
    BY <1>6, <1>8, ReadEmpty, Zenon
  <2> QED BY <1>6, <1>8, <2>1, ReaderFields, Zenon DEF Check
<1> HIDE DEF rb
<1>10. /\ DOMAIN rc = DOMAIN NewReader /\ rc.bad = FALSE /\ rc.ended = TRUE /\ rc.stop = stop
       /\ rc.open = FALSE /\ rc.content = content
  <2>1. rc = [Check(rb, ~rb.ended /\ ~(rb.stop # "" /\ fc.finish # "")) EXCEPT
                !.stop = IF fc.finish = "" THEN @ ELSE fc.finish,
                !.usage = IF fc.usage THEN "all" ELSE @,
                !.ended = @ \/ fc.done]
    BY <1>6, <1>9, ReadEmpty, Zenon
  <2> QED BY <1>6, <1>9, <2>1, ReaderFields, Zenon DEF Check
<1>11. LastStop(down, e.stop) = stop
  BY DEF LastStop, stop
<1> QED BY <1>1, <1>4, <1>10, <1>11 DEF Ended

\* The block that is open, if any, is closed before message_delta and message_stop.
LEMMA AnthropicEnds ==
    ASSUME down = "anthropic", NEW e, NEW content, NEW tools,
           AnthropicFollows(e, Seen(e), content, tools)
    PROVE  LET x == FinishAnthropic(e)
           IN  EncoderShape(x) /\ Ended(Seen(x), content, LastStop(down, e.stop))
<1> DEFINE y == EnsureStart(e)
           z == CloseBlock(y)
           stop == IF z.stop = "" THEN "end_turn" ELSE z.stop
           fa == [Event("message_delta") EXCEPT !.stop = stop]
           fb == Event("message_stop")
           a == Emit(z, fa)
           b == Emit(a, fb)
           r == Seen(z)
           ra == ReadEvent(r, fa)
           rb == ReadEvent(ra, fb)
<1>1. FinishAnthropic(e) = b
  BY Zenon DEF FinishAnthropic
<1>2. AnthropicFollows(y, Seen(y), content, tools) /\ y.started = TRUE /\ y.stop = e.stop
  BY AnthropicStart
<1> HIDE DEF y
<1>3. /\ AnthropicFollows(z, Seen(z), content, tools) /\ z.started = TRUE /\ z.open = FALSE
      /\ z.stop = e.stop
  BY <1>2, AnthropicClose
<1> HIDE DEF z
<1>4. EncoderShape(a) /\ Seen(a) = ra
  <2>1. EncoderShape(z)
    BY <1>3 DEF AnthropicFollows, Following
  <2> HIDE DEF fa, stop
  <2> QED BY <2>1, EmitStep DEF Read
<1>5. EncoderShape(b) /\ Seen(b) = rb
  <2> HIDE DEF a, fb, ra
  <2> QED BY <1>4, EmitStep DEF Read
<1>6. stop # "" /\ LastStop(down, e.stop) = stop
  BY <1>3, Zenon DEF LastStop
<1>7. fa.type = "message_delta" /\ fa.stop = stop /\ fb.type = "message_stop"
  BY DEF Event
<1> HIDE DEF r, fa, fb, stop
<1>8. /\ DOMAIN r = DOMAIN NewReader /\ r.bad = FALSE /\ r.ended = FALSE /\ r.stop = ""
      /\ r.open = FALSE /\ r.content = content /\ r.started = TRUE
  BY <1>3, Zenon DEF AnthropicFollows, Following, ReaderShape, Going, r
<1>9. /\ DOMAIN ra = DOMAIN NewReader /\ ra.bad = FALSE /\ ra.ended = FALSE /\ ra.stop = stop
      /\ ra.open = FALSE /\ ra.content = content /\ ra.started = TRUE
  <2> DEFINE c == Checked(r, fa)
  <2>1. ra = [Check(c, ~c.open /\ c.stop = "") EXCEPT !.stop = fa.stop, !.usage = "all"]
    BY <1>7, Zenon DEF ReadEvent, Checked
  <2>2. c = [r EXCEPT !.bad = FALSE]
    BY <1>7, <1>8, ReaderFields DEF Checked, Check
  <2> HIDE DEF c
  <2>3. /\ DOMAIN c = DOMAIN NewReader /\ c.bad = FALSE /\ c.ended = FALSE /\ c.stop = ""
        /\ c.open = FALSE /\ c.content = content /\ c.started = TRUE
    BY <1>8, <2>2, ReaderFields, Zenon
  <2> QED BY <1>7, <2>1, <2>3, ReaderFields, Zenon DEF Check
<1> HIDE DEF ra
<1>10. /\ rb.bad = FALSE /\ rb.ended = TRUE /\ rb.stop = stop /\ rb.open = FALSE
       /\ rb.content = content
  <2> DEFINE c == Checked(ra, fb)
  <2>1. rb = [Check(c, c.stop # "") EXCEPT !.ended = TRUE]
    BY <1>7, Zenon DEF ReadEvent, Checked
  <2>2. c = [ra EXCEPT !.bad = FALSE]
    BY <1>7, <1>9, ReaderFields DEF Checked, Check
  <2> HIDE DEF c
  <2>3. /\ DOMAIN c = DOMAIN NewReader /\ c.bad = FALSE /\ c.stop = stop
        /\ c.open = FALSE /\ c.content = content
    BY <1>9, <2>2, ReaderFields
  <2> QED BY <1>6, <2>1, <2>3, ReaderFields, Zenon DEF Check
<1> QED BY <1>1, <1>5, <1>6, <1>10 DEF Ended

\* The client c follows the encoder e between two payloads.
Abreast(protocol, e, c, content, tools, calling, stop) ==
    /\ e.stop = stop
    /\ \/ protocol = "openai" /\ OpenAIFollows(e, c, content, tools, calling)
       \/ /\ protocol = "anthropic" /\ AnthropicFollows(e, c, content, tools)
          /\ calling => e.open = TRUE /\ e.block = "tool_use"

\* Frames that were sent do not count any more.
LEMMA OthersFollow ==
    ASSUME NEW e, NEW x, NEW c, NEW content, NEW tools, NEW calling, NEW stop,
           Abreast(down, e, c, content, tools, calling, stop), EncoderShape(x),
           \A f \in DOMAIN NewEncoder : f # "frames" => x[f] = e[f]
    PROVE  Abreast(down, x, c, content, tools, calling, stop)
<1>1. /\ x.stop = e.stop /\ x.started = e.started /\ x.open = e.open /\ x.block = e.block
      /\ x.index = e.index /\ x.tools = e.tools /\ x.done = e.done
  BY EncoderFields
<1>2. Going(e, c) => Going(x, c)
  BY <1>1, Zenon DEF Going
<1>3. CASE down = "openai" /\ OpenAIFollows(e, c, content, tools, calling)
  BY <1>1, <1>2, <1>3 DEF Abreast, OpenAIFollows, Following
<1>4. CASE /\ down = "anthropic" /\ AnthropicFollows(e, c, content, tools)
           /\ calling => e.open = TRUE /\ e.block = "tool_use"
  BY <1>1, <1>2, <1>4 DEF Abreast, AnthropicFollows, Following
<1> QED BY <1>3, <1>4 DEF Abreast

\* A payload begins with no frames, and the client where it was.
LEMMA Afresh ==
    ASSUME NEW content, NEW tools, NEW calling, NEW stop,
           Abreast(down, enc, client, content, tools, calling, stop)
    PROVE  Follows([enc EXCEPT !.frames = <<>>], content, tools, calling, stop)
<1> DEFINE x == [enc EXCEPT !.frames = <<>>]
<1>1. EncoderShape(enc)
  BY DEF Abreast, OpenAIFollows, AnthropicFollows, Following
<1>2. EncoderShape(x) /\ \A f \in DOMAIN NewEncoder : f # "frames" => x[f] = enc[f]
  BY <1>1, EncoderFields, ListedEmpty DEF EncoderShape
<1>3. Seen(x) = client
  BY <1>1, EncoderFields, ReadAllSteps DEF EncoderShape, Seen
<1> HIDE DEF x
<1>4. Abreast(down, x, client, content, tools, calling, stop)
  BY <1>2, OthersFollow
<1> QED BY <1>3, <1>4 DEF Abreast, Follows, x

\* processDone ends the client's stream, after whatever it has read.
LEMMA DoneEnds ==
    ASSUME ~Passthrough, NEW content, NEW tools, NEW calling, NEW stop,
           Abreast(down, enc, client, content, tools, calling, stop)
    PROVE  Ended(ReadAll(down, client, ProcessDone.frames), content, LastStop(down, stop))
<1> DEFINE e == [enc EXCEPT !.frames = <<>>]
           d == [e EXCEPT !.done = TRUE]
           x == ProcessDone
<1>1. Follows(e, content, tools, calling, stop)
  BY Afresh
<1>2. e.done = FALSE /\ EncoderShape(e) /\ e.stop = stop
  <2> HIDE DEF e
  <2>1. e.done = FALSE
    BY <1>1, Zenon DEF Follows, OpenAIFollows, AnthropicFollows, Following, Going
  <2> QED BY <1>1, <2>1 DEF Follows, OpenAIFollows, AnthropicFollows, Following
<1>3. Alike(d, e)
  <2> HIDE DEF e
  <2> QED BY <1>2, AlikeDone
<1>4. CASE down = "openai"
  <2>1. x = FinishOpenAI(d)
    BY <1>2, <1>4 DEF ProcessDone
  <2>2. OpenAIFollows(e, Seen(e), content, tools, calling)
    BY <1>1, <1>4 DEF Follows
  <2> DEFINE y == FinishOpenAI(e)
  <2>3. EncoderShape(y) /\ Ended(Seen(y), content, LastStop(down, stop))
    <3> HIDE DEF e
    <3> QED BY <1>2, <1>4, <2>2, OpenAIEnds
  <2>4. Alike(FinishOpenAI(d), y)
    <3> HIDE DEF d, e
    <3>1. d.stop = e.stop
      BY <1>3, AlikeFields
    <3>2. PICK fa : fa = [Chunk EXCEPT !.finish = CanonStopToOpenAI(e.stop)]
      OBVIOUS
    <3>3. PICK fb : fb = [Chunk EXCEPT !.usage = TRUE]
      OBVIOUS
    <3>4. PICK fc : fc = [Chunk EXCEPT !.done = TRUE]
      OBVIOUS
    <3>5. Alike(Emit(Emit(Emit(d, fa), fb), fc), Emit(Emit(Emit(e, fa), fb), fc))
      BY <1>3, AlikeEmit
    <3>6. /\ FinishOpenAI(d) = Emit(Emit(Emit(d, fa), fb), fc)
          /\ y = Emit(Emit(Emit(e, fa), fb), fc)
      BY <3>1, <3>2, <3>3, <3>4, Zenon DEF FinishOpenAI
    <3> QED BY <3>5, <3>6
  <2> HIDE DEF d, e, x, y
  <2>5. Seen(x) = Seen(y)
    BY <2>1, <2>4, AlikeFields
  <2> QED BY <2>3, <2>5 DEF Seen, x
<1>5. CASE down = "anthropic"
  <2>1. x = FinishAnthropic(d)
    BY <1>2, <1>5 DEF ProcessDone
  <2>2. AnthropicFollows(e, Seen(e), content, tools)
    BY <1>1, <1>5 DEF Follows
  <2> DEFINE y == FinishAnthropic(e)
  <2>3. EncoderShape(y) /\ Ended(Seen(y), content, LastStop(down, stop))
    <3> HIDE DEF e
    <3> QED BY <1>2, <1>5, <2>2, AnthropicEnds
  <2>4. Alike(FinishAnthropic(d), y)
    <3> HIDE DEF d, e
    <3> DEFINE u == CloseBlock(EnsureStart(d))
               v == CloseBlock(EnsureStart(e))
    <3>1. Alike(u, v)
      BY <1>3, AlikeStart, AlikeClose
    <3>2. u.stop = v.stop
      BY <3>1, AlikeFields
    <3>3. PICK fa : fa = [Event("message_delta") EXCEPT
                            !.stop = IF v.stop = "" THEN "end_turn" ELSE v.stop]
      BY Zenon
    <3>4. PICK fb : fb = Event("message_stop")
      OBVIOUS
    <3>5. Alike(Emit(Emit(u, fa), fb), Emit(Emit(v, fa), fb))
      BY <3>1, AlikeEmit
    <3>6. /\ FinishAnthropic(d) = Emit(Emit(u, fa), fb)
          /\ y = Emit(Emit(v, fa), fb)
      BY <3>2, <3>3, <3>4, Zenon DEF FinishAnthropic
    <3> QED BY <3>5, <3>6
  <2> HIDE DEF d, e, x, y
  <2>5. Seen(x) = Seen(y)
    BY <2>1, <2>4, AlikeFields
  <2> QED BY <2>3, <2>5 DEF Seen, x
<1> QED BY <1>1, <1>4, <1>5 DEF Follows

-----------------------------------------------------------------------------
(* Usage *)

\* x knows as much of usage as d.
Metered(d, x) == DOMAIN x = DOMAIN NewDecoder /\ x.usage = d.usage

\* Only what reports usage changes what the decoder knows of it.
LEMMA MeteredSteps ==
    ASSUME NEW d, DOMAIN d = DOMAIN NewDecoder
    PROVE  /\ \A events : Metered(d, Produce(d, events))
           /\ \A when : Metered(d, StopBlock(d, when))
           /\ \A n : Metered(d, OpenAIText(d, n))
           /\ \A call : Metered(d, OpenAICall(d, call))
           /\ \A reason : Metered(d, OpenAIFinish(d, reason))
           /\ \A p : Metered(d, GeminiPart(d, p))
<1>1. ASSUME NEW y, DOMAIN y = DOMAIN NewDecoder, NEW events PROVE Metered(y, Produce(y, events))
  BY <1>1, DecoderFields DEF Metered, Produce
<1>2. ASSUME NEW when PROVE Metered(d, StopBlock(d, when))
  BY <1>1 DEF StopBlock, Metered
<1>3. ASSUME NEW when, NEW ev PROVE Metered(d, Produce(StopBlock(d, when), <<ev>>))
  BY <1>1, <1>2 DEF Metered
<1>4. ASSUME NEW y, Metered(d, y), NEW a, NEW b
      PROVE  Metered(d, [y EXCEPT !.tool = a, !.text = b])
  BY <1>4, DecoderFields DEF Metered
<1>5. ASSUME NEW n PROVE Metered(d, OpenAIText(d, n))
  BY <1>3, <1>4 DEF OpenAIText
<1>6. ASSUME NEW reason PROVE Metered(d, OpenAIFinish(d, reason))
  BY <1>3, <1>4 DEF OpenAIFinish
<1>7. ASSUME NEW call PROVE Metered(d, OpenAICall(d, call))
  <2>1. PICK a : a = Canon("tool_use_start", call.id)
    OBVIOUS
  <2>2. PICK b : b = Canon("tool_args_delta", call.args)
    OBVIOUS
  <2> DEFINE y == IF call.id = 0 THEN d
                  ELSE [Produce(StopBlock(d, d.tool \/ d.text), <<a>>) EXCEPT !.tool = TRUE,
                                                                           !.text = FALSE]
  <2>3. Metered(d, y)
    <3>1. Metered(d, d)
      BY DEF Metered
    <3> QED BY <1>3, <1>4, <3>1
  <2>4. OpenAICall(d, call) = IF call.args = 0 THEN y ELSE Produce(y, <<b>>)
    BY <2>1, <2>2, Zenon DEF OpenAICall
  <2> HIDE DEF y
  <2> QED BY <1>1, <2>3, <2>4 DEF Metered
<1>8. ASSUME NEW p PROVE Metered(d, GeminiPart(d, p))
  BY <1>1 DEF GeminiPart
<1> QED BY <1>1, <1>2, <1>5, <1>6, <1>7, <1>8

\* The usage of a stream of OpenAI is what its last report said.
LEMMA OpenAIUsage ==
    ASSUME DOMAIN source = DOMAIN NewReader, NEW d, DOMAIN d = DOMAIN NewDecoder,
           d.usage = source.usage, NEW chunk, FewCalls(chunk.calls)
    PROVE  LET t == ReadChunk(source, chunk)
               x == DecodeOpenAI(d, chunk)
           IN  DOMAIN t = DOMAIN NewReader /\ DOMAIN x = DOMAIN NewDecoder /\ x.usage = t.usage
<1> DEFINE s == source
           usage == IF chunk.usage THEN "all" ELSE s.usage
           d0 == IF chunk.usage THEN [d EXCEPT !.usage = "all"] ELSE d
           d1 == IF chunk.text = 0 THEN d0 ELSE OpenAIText(d0, chunk.text)
           d2 == OpenAICalls(d1, chunk.calls)
           x == IF chunk.finish = "" THEN d2 ELSE OpenAIFinish(d2, chunk.finish)
           s1 == IF chunk.text = 0 THEN s ELSE [Take(s, Text(chunk.text)) EXCEPT !.block = "text"]
           s2 == ReadCalls(s1, chunk.calls)
           late == s.stop # "" /\ (chunk.text # 0 \/ chunk.calls # <<>> \/ chunk.finish # "")
           t == [Check(s2, ~s.ended /\ ~late) EXCEPT
                    !.stop = IF chunk.finish = "" THEN @ ELSE chunk.finish,
                    !.usage = IF chunk.usage THEN "all" ELSE @,
                    !.ended = @ \/ chunk.done]
<1>1. DecodeOpenAI(d, chunk) = x /\ ReadChunk(s, chunk) = t
  BY Zenon DEF DecodeOpenAI, ReadChunk
<1>2. DOMAIN d0 = DOMAIN NewDecoder /\ d0.usage = usage
  BY DecoderFields
<1> HIDE DEF d0
<1>3. DOMAIN d1 = DOMAIN NewDecoder /\ d1.usage = usage
  BY <1>2, MeteredSteps DEF Metered
<1> HIDE DEF d1
<1>4. DOMAIN d2 = DOMAIN NewDecoder /\ d2.usage = usage
  <2>1. CASE chunk.calls = <<>>
    BY <1>3, <2>1, OpenAICallsSteps
  <2>2. ASSUME NEW c, chunk.calls = <<c>> PROVE DOMAIN d2 = DOMAIN NewDecoder /\ d2.usage = usage
    <3>1. d2 = OpenAICall(d1, c)
      BY <2>2, OpenAICallsSteps
    <3> QED BY <1>3, <3>1, MeteredSteps DEF Metered
  <2>3. ASSUME NEW c, NEW e, chunk.calls = <<c, e>>
        PROVE  DOMAIN d2 = DOMAIN NewDecoder /\ d2.usage = usage
    <3>1. d2 = OpenAICall(OpenAICall(d1, c), e)
      BY <2>3, OpenAICallsSteps
    <3>2. DOMAIN OpenAICall(d1, c) = DOMAIN NewDecoder /\ OpenAICall(d1, c).usage = usage
      BY <1>3, MeteredSteps DEF Metered
    <3> QED BY <3>1, <3>2, MeteredSteps DEF Metered
  <2> QED BY <2>1, <2>2, <2>3 DEF FewCalls
<1> HIDE DEF d2
<1>5. DOMAIN x = DOMAIN NewDecoder /\ x.usage = usage
  <2>1. CASE chunk.finish = ""
    BY <1>4, <2>1, Zenon
  <2>2. CASE chunk.finish # ""
    <3>1. x = OpenAIFinish(d2, chunk.finish)
      BY <2>2, Zenon
    <3> HIDE DEF x
    <3> QED BY <1>4, <3>1, MeteredSteps DEF Metered
  <2> QED BY <2>1, <2>2, Zenon
<1> HIDE DEF x
<1>6. DOMAIN s1 = DOMAIN NewReader /\ s1.usage = s.usage
  BY ReaderFields DEF Take
<1> HIDE DEF s1
<1>7. DOMAIN s2 = DOMAIN NewReader /\ s2.usage = s.usage
  BY <1>6, ReadCallsKeep
<1> HIDE DEF s2
<1>8. DOMAIN t = DOMAIN NewReader /\ t.usage = usage
  BY <1>7, ReaderFields, Zenon DEF Check
<1> QED BY <1>1, <1>5, <1>8

\* Anthropic reports input first, and all of it later.
LEMMA AnthropicUsage ==
    ASSUME DOMAIN source = DOMAIN NewReader, NEW d, DOMAIN d = DOMAIN NewDecoder,
           d.usage = source.usage, NEW ev, Sends(ev)
    PROVE  LET t == ReadEvent(source, ev)
               x == DecodeAnthropic(d, ev)
           IN  DOMAIN t = DOMAIN NewReader /\ DOMAIN x = DOMAIN NewDecoder /\ x.usage = t.usage
<1> DEFINE s == source
           c == Checked(s, ev)
           t == ReadEvent(s, ev)
           x == DecodeAnthropic(d, ev)
           Good == DOMAIN t = DOMAIN NewReader /\ DOMAIN x = DOMAIN NewDecoder /\ x.usage = t.usage
           current == s.open /\ ev.index = s.blocks - 1
<1> SUFFICES Good
  OBVIOUS
<1>1. DOMAIN c = DOMAIN NewReader /\ c.usage = s.usage
  BY ReaderFields DEF Checked, Check
<1>2. CASE ev.type = "message_start"
  <2>1. t = [c EXCEPT !.started = TRUE, !.usage = "input"] /\ x = [d EXCEPT !.usage = "input"]
    BY <1>2, Zenon DEF ReadEvent, Checked, DecodeAnthropic
  <2> HIDE DEF t, x, c
  <2> QED BY <1>1, <2>1, ReaderFields, DecoderFields
<1>3. CASE ev.type = "message_stop"
  <2>1. t = [Check(c, c.stop # "") EXCEPT !.ended = TRUE]
    BY <1>3, Zenon DEF ReadEvent, Checked
  <2>2. x = d
    BY <1>3, Zenon DEF DecodeAnthropic
  <2> HIDE DEF t, x, c
  <2> QED BY <1>1, <2>1, <2>2, ReaderFields, Zenon DEF Check
<1>4. CASE ev.type = "content_block_stop"
  <2>1. t = [Check(c, current) EXCEPT !.open = FALSE]
    BY <1>4, Zenon DEF ReadEvent, Checked
  <2> DEFINE y == [d EXCEPT !.block = ""]
  <2>2. x = StopBlock(y, ~(d.block = "thinking"))
    BY <1>4, Zenon DEF DecodeAnthropic
  <2>3. DOMAIN y = DOMAIN NewDecoder /\ y.usage = s.usage
    BY DecoderFields, Zenon
  <2> HIDE DEF t, x, c, y
  <2> QED BY <1>1, <2>1, <2>2, <2>3, MeteredSteps, ReaderFields DEF Check, Metered
<1>5. CASE ev.type = "content_block_start"
  <2> DEFINE b == Started(s, ev)
             y == [d EXCEPT !.block = ev.block]
             events == IF ev.block = "tool_use" THEN <<Canon("tool_use_start", ev.piece)>> ELSE <<>>
  <2>1. t = IF ev.block # "tool_use" THEN b
            ELSE [Take(b, Tool(b.tools + 1, ev.piece)) EXCEPT !.tools = @ + 1]
    BY <1>5, ReadStart
  <2>2. x = Produce(y, events)
    BY <1>5, Zenon DEF DecodeAnthropic
  <2> HIDE DEF t, x, c, events
  <2>3. DOMAIN b = DOMAIN NewReader /\ b.usage = s.usage
    <3>1. b = [Check(c, ~c.open /\ ev.index = c.blocks /\ c.stop = "") EXCEPT
                 !.open = TRUE, !.block = ev.block, !.blocks = @ + 1]
      BY Zenon DEF Started, c
    <3>2. PICK ok : b = [Check(c, ok) EXCEPT !.open = TRUE, !.block = ev.block, !.blocks = @ + 1]
      BY <3>1, Zenon
    <3> HIDE DEF b
    <3> QED BY <1>1, <3>2, ReaderFields DEF Check
  <2> HIDE DEF b
  <2>4. DOMAIN t = DOMAIN NewReader /\ t.usage = s.usage
    BY <2>1, <2>3, ReaderFields DEF Take
  <2>5. DOMAIN y = DOMAIN NewDecoder /\ y.usage = s.usage
    BY DecoderFields
  <2> HIDE DEF y
  <2>6. DOMAIN x = DOMAIN NewDecoder /\ x.usage = s.usage
    BY <2>2, <2>5, MeteredSteps DEF Metered
  <2> QED BY <2>4, <2>6
<1>6. CASE ev.type = "content_block_delta" /\ ev.block \in Blocks
  <2> DEFINE k == Check(c, current /\ ev.block = c.block)
  <2>1. t = CASE ev.block = "text" -> Take(k, Text(ev.piece))
              [] ev.block = "tool_use" -> Take(k, Args(k.tools, ev.piece))
              [] OTHER -> k
    BY <1>6, Zenon DEF ReadEvent, Checked
  <2>2. x = d \/ \E events : x = Produce(d, events)
    <3>1. CASE d.block = "thinking"
      BY <1>6, <3>1, Zenon DEF DecodeAnthropic
    <3>2. CASE d.block # "thinking"
      <4>1. x = Produce(d, <<Canon(IF ev.block = "text" THEN "text_delta" ELSE "tool_args_delta",
                                   ev.piece)>>)
        BY <1>6, <3>2, Zenon DEF DecodeAnthropic
      <4> HIDE DEF x
      <4> QED BY <4>1
    <3> QED BY <3>1, <3>2
  <2>3. DOMAIN k = DOMAIN NewReader /\ k.usage = s.usage
    <3> HIDE DEF c
    <3> QED BY <1>1, ReaderFields DEF Check
  <2> HIDE DEF t, x, k
  <2>4. DOMAIN t = DOMAIN NewReader /\ t.usage = s.usage
    BY <1>6, <2>1, <2>3, ReaderFields DEF Take
  <2>5. DOMAIN x = DOMAIN NewDecoder /\ x.usage = s.usage
    BY <2>2, MeteredSteps DEF Metered
  <2> QED BY <2>4, <2>5
<1>7. CASE ev.type = "message_delta"
  <2> DEFINE y == [d EXCEPT !.usage = "all"]
  <2>1. t = [Check(c, ~c.open /\ c.stop = "") EXCEPT !.stop = ev.stop, !.usage = "all"]
    BY <1>7, Zenon DEF ReadEvent, Checked
  <2>2. x = Produce(y, <<Finish(ev.stop)>>)
    BY <1>7, Zenon DEF DecodeAnthropic
  <2>3. DOMAIN y = DOMAIN NewDecoder /\ y.usage = "all"
    BY DecoderFields
  <2> HIDE DEF t, x, c, y
  <2>4. DOMAIN t = DOMAIN NewReader /\ t.usage = "all"
    BY <1>1, <2>1, ReaderFields, Zenon DEF Check
  <2>5. DOMAIN x = DOMAIN NewDecoder /\ x.usage = "all"
    BY <2>2, <2>3, MeteredSteps DEF Metered
  <2> QED BY <2>4, <2>5
<1> QED BY <1>2, <1>3, <1>4, <1>5, <1>6, <1>7 DEF Sends

\* The usage of a stream of Gemini is what its last report said.
LEMMA GeminiUsage ==
    ASSUME DOMAIN source = DOMAIN NewReader, NEW d, DOMAIN d = DOMAIN NewDecoder,
           d.usage = source.usage, NEW chunk, FewParts(chunk.parts)
    PROVE  LET t == ReadGemini(source, chunk)
               x == DecodeGemini(d, chunk)
           IN  DOMAIN t = DOMAIN NewReader /\ DOMAIN x = DOMAIN NewDecoder /\ x.usage = t.usage
<1> DEFINE s == source
           usage == IF chunk.usage THEN "all" ELSE s.usage
           s1 == ReadParts(s, chunk.parts)
           d1 == GeminiParts(d, chunk.parts)
           y == IF chunk.usage THEN [d1 EXCEPT !.usage = "all"] ELSE d1
           x == IF chunk.finish = "" THEN y
                ELSE Produce(y, <<Finish(GeminiFinishToCanon(chunk.finish))>>)
           t == [Check(s1, s.stop = "") EXCEPT
                    !.stop = chunk.finish, !.usage = IF chunk.usage THEN "all" ELSE @]
<1>1. DecodeGemini(d, chunk) = x /\ ReadGemini(s, chunk) = t
  BY Zenon DEF DecodeGemini, ReadGemini
<1>2. ASSUME NEW r, DOMAIN r = DOMAIN NewReader, NEW p
      PROVE  DOMAIN ReadPart(r, p) = DOMAIN NewReader /\ ReadPart(r, p).usage = r.usage
  BY <1>2, ReaderFields DEF ReadPart, Take
<1>3. /\ DOMAIN s1 = DOMAIN NewReader /\ s1.usage = s.usage
      /\ DOMAIN d1 = DOMAIN NewDecoder /\ d1.usage = s.usage
  <2>1. CASE chunk.parts = <<>>
    BY <2>1, ReadPartsSteps, GeminiPartsSteps
  <2>2. ASSUME NEW p, chunk.parts = <<p>>
        PROVE  /\ DOMAIN s1 = DOMAIN NewReader /\ s1.usage = s.usage
               /\ DOMAIN d1 = DOMAIN NewDecoder /\ d1.usage = s.usage
    <3>1. s1 = ReadPart(s, p) /\ d1 = GeminiPart(d, p)
      BY <2>2, ReadPartsSteps, GeminiPartsSteps
    <3> QED BY <1>2, <3>1, MeteredSteps DEF Metered
  <2>3. ASSUME NEW p, NEW q, chunk.parts = <<p, q>>
        PROVE  /\ DOMAIN s1 = DOMAIN NewReader /\ s1.usage = s.usage
               /\ DOMAIN d1 = DOMAIN NewDecoder /\ d1.usage = s.usage
    <3>1. s1 = ReadPart(ReadPart(s, p), q) /\ d1 = GeminiPart(GeminiPart(d, p), q)
      BY <2>3, ReadPartsSteps, GeminiPartsSteps
    <3>2. DOMAIN GeminiPart(d, p) = DOMAIN NewDecoder /\ GeminiPart(d, p).usage = s.usage
      BY MeteredSteps DEF Metered
    <3>3. DOMAIN d1 = DOMAIN NewDecoder /\ d1.usage = s.usage
      BY <3>1, <3>2, MeteredSteps DEF Metered
    <3> QED BY <1>2, <3>1, <3>3
  <2> QED BY <2>1, <2>2, <2>3 DEF FewParts
<1> HIDE DEF s1, d1
<1>4. DOMAIN y = DOMAIN NewDecoder /\ y.usage = usage
  BY <1>3, DecoderFields
<1> HIDE DEF y
<1>5. DOMAIN x = DOMAIN NewDecoder /\ x.usage = usage
  <2>1. CASE chunk.finish = ""
    BY <1>4, <2>1, Zenon
  <2>2. CASE chunk.finish # ""
    <3>1. x = Produce(y, <<Finish(GeminiFinishToCanon(chunk.finish))>>)
      BY <2>2, Zenon
    <3> HIDE DEF x
    <3> QED BY <1>4, <3>1, MeteredSteps DEF Metered
  <2> QED BY <2>1, <2>2, Zenon
<1> HIDE DEF x
<1>6. DOMAIN t = DOMAIN NewReader /\ t.usage = usage
  BY <1>3, ReaderFields, Zenon DEF Check
<1> QED BY <1>1, <1>5, <1>6

-----------------------------------------------------------------------------
(* The invariant of a stream *)

\* The last call may get more arguments.
Calling ==
    CASE up = "openai" -> dec.tool
      [] up = "anthropic" -> source.open /\ source.block = "tool_use"
      [] OTHER -> FALSE

\* The protocols of a stream.
Protocols == up \in {"openai", "anthropic", "gemini"} /\ down \in {"openai", "anthropic"}

\* Blocks and stop reasons of Anthropic.
Familiar(s) == (s.open => s.block \in Blocks) /\ s.stop \in CanonStops \cup {""}

\* The source keeps to its protocol, and the decoder has its usage.
SourceRead ==
    /\ DOMAIN source = DOMAIN NewReader /\ ~source.bad
    /\ DOMAIN dec = DOMAIN NewDecoder /\ dec.usage = source.usage
    /\ clientGone \in BOOLEAN /\ doneSent \in BOOLEAN /\ ended \in BOOLEAN
    /\ doneSent => up = "openai"
    /\ up = "openai" /\ ~doneSent => source.ended = FALSE
    /\ up = "anthropic" => Familiar(source)
    /\ ended => basis = IF source.usage = "none" THEN "estimate" ELSE source.usage

\* Where the protocols agree the client reads what the source does.
PassedOn ==
    IF ~doneSent /\ ~ended THEN client = source /\ DOMAIN enc = DOMAIN NewEncoder
    ELSE IF down = "openai"
         THEN client.ended = TRUE /\ client.content = source.content /\ client.stop = source.stop
         ELSE client = source

\* The decoder knows of the source's last call or block.
Tracked ==
    /\ up = "openai" => /\ dec.tool \in BOOLEAN /\ dec.text \in BOOLEAN
                        /\ Silent(source) /\ source.block = "tool_use" => dec.tool = TRUE
    /\ up = "anthropic" /\ source.open => dec.block = source.block

\* The client has read whatever the source has sent.
Coming ==
    /\ Listed(source.content) /\ Tracked
    /\ Abreast(down, enc, client, source.content, source.tools, Calling, Heard(up, source))

\* It has read all of it, and the end.
Complete == Ended(client, source.content, LastStop(down, Heard(up, source)))

\* What it has read, passed on or converted.
ClientReads ==
    IF Passthrough THEN PassedOn ELSE IF doneSent \/ ended THEN Complete ELSE Coming

\* A client that has left is owed nothing, but has read nothing wrong.
StreamInv == SourceRead /\ ~client.bad /\ (~clientGone => ClientReads)

\* Before the stream begins.
StreamStart ==
    /\ source = NewReader /\ client = NewReader
    /\ dec = NewDecoder /\ enc = NewEncoder
    /\ clientGone = FALSE /\ doneSent = FALSE /\ ended = FALSE /\ basis = ""

\* A stream that is not running is about to begin.
ConduitInv ==
    /\ Protocols
    /\ IF phase = "streaming" THEN StreamInv ELSE StreamStart

\* It begins with nothing read and nothing owed.
LEMMA StartReads == Protocols /\ StreamStart => StreamInv
<1> SUFFICES ASSUME Protocols, StreamStart PROVE StreamInv
  OBVIOUS
<1> DEFINE s == NewReader
           e == NewEncoder
           d == NewDecoder
<1>1. /\ s.started = FALSE /\ s.open = FALSE /\ s.blocks = 0 /\ s.tools = 0 /\ s.content = <<>>
      /\ s.stop = "" /\ s.usage = "none" /\ s.ended = FALSE /\ s.bad = FALSE
  BY Zenon DEF NewReader
<1>2. s.block # "tool_use"
  BY Zenon DEF NewReader
<1>3. /\ e.started = FALSE /\ e.open = FALSE /\ e.index = -1 /\ e.tools = -1 /\ e.stop = ""
      /\ e.done = FALSE /\ e.frames = <<>>
  BY Zenon DEF NewEncoder
<1>4. d.tool = FALSE /\ d.text = FALSE /\ d.usage = "none"
  BY Zenon DEF NewDecoder
<1> HIDE DEF s, e, d
<1>5. source = s /\ client = s /\ enc = e /\ dec = d
  BY DEF StreamStart, s, e, d
<1>6. SourceRead
  <2>1. /\ clientGone \in BOOLEAN /\ doneSent \in BOOLEAN /\ ended \in BOOLEAN
        /\ ~doneSent /\ ~ended
    BY DEF StreamStart
  <2>2. s.stop \in CanonStops \cup {""}
    BY <1>1, Zenon
  <2>3. Familiar(s)
    BY <1>1, <2>2, Zenon DEF Familiar
  <2> QED BY <1>1, <1>4, <1>5, <2>1, <2>3, Zenon DEF SourceRead, s, d
<1>7. CASE Passthrough
  <2>1. PassedOn
    BY <1>5, Zenon DEF PassedOn, StreamStart, e
  <2> QED BY <1>1, <1>5, <1>6, <1>7, <2>1, Zenon DEF StreamInv, ClientReads
<1>8. CASE ~Passthrough
  <2>1. Listed(source.content)
    BY <1>1, <1>5, ListedEmpty, Zenon
  <2>2. Tracked
    BY <1>1, <1>2, <1>4, <1>5, Zenon DEF Tracked
  <2>3. Calling = FALSE
    BY <1>1, <1>4, <1>5, Zenon DEF Calling, Protocols
  <2>4. Heard(up, source) = ""
    BY <1>1, <1>5, Zenon DEF Heard
  <2>5. Going(e, s)
    BY <1>1, <1>3, Zenon DEF Going
  <2>6. EncoderShape(e)
    <3>1. Listed(e.frames) /\ e.started \in BOOLEAN /\ e.open \in BOOLEAN /\ DOMAIN e = DOMAIN NewEncoder
      BY <1>3, ListedEmpty, Zenon DEF e
    <3>2. -1 \in Int
      OBVIOUS
    <3>3. e.index \in Int /\ e.tools \in Int
      BY <1>3, <3>2, Zenon
    <3> QED BY <3>1, <3>3, Zenon DEF EncoderShape
  <2>7. ReaderShape(s)
    <3>1. 0 \in Nat
      OBVIOUS
    <3> QED BY <1>1, <3>1, Zenon DEF ReaderShape, s
  <2>8. Following(e, s, source.content, source.tools)
    BY <1>5, <2>5, <2>6, <2>7, Zenon DEF Following
  <2>9. 0 = -1 + 1
    OBVIOUS
  <2>10. OpenAIFollows(e, s, source.content, source.tools, FALSE)
    BY <1>1, <1>3, <2>8, <2>9, Zenon DEF OpenAIFollows
  <2>11. AnthropicFollows(e, s, source.content, source.tools)
    BY <1>1, <1>3, <2>8, <2>9, Zenon DEF AnthropicFollows
  <2>12. Abreast(down, e, s, source.content, source.tools, FALSE, "")
    BY <1>3, <2>10, <2>11, Zenon DEF Abreast, Protocols
  <2>13. Coming
    BY <1>5, <2>1, <2>2, <2>3, <2>4, <2>12, Zenon DEF Coming
  <2> QED BY <1>1, <1>5, <1>6, <1>8, <2>13, Zenon DEF StreamInv, ClientReads, StreamStart
<1> QED BY <1>7, <1>8


-----------------------------------------------------------------------------
(* A payload, for whatever protocols *)

\* The decoder and a reader of the upstream's protocol.
LinkedTo(d, s) ==
    \/ up = "openai" /\ OpenAILinked(d, s, Heard("openai", s))
    \/ up = "anthropic" /\ AnthropicLinked(d, s, Heard("anthropic", s))
    \/ up = "gemini" /\ GeminiLinked(d, s, Heard("gemini", s))

\* What an upstream sends, and its pieces.
Sendable(payload) ==
    /\ up = "openai" => FewCalls(payload.calls) /\ payload.done = FALSE
    /\ up = "anthropic" => Sends(payload)
    /\ up = "gemini" => FewParts(payload.parts)

\* No piece is 0, which stands for nothing.
Counted(payload) ==
    /\ up = "anthropic" => Numbered(payload)
    /\ up = "gemini" => \A i \in DOMAIN payload.parts : payload.parts[i].piece # 0

\* A payload finds the decoder linked to what the source has sent,
LEMMA LinkBegins ==
    ASSUME Protocols, SourceRead, Coming
    PROVE  LinkedTo([dec EXCEPT !.events = <<>>], source)
<1> DEFINE d == [dec EXCEPT !.events = <<>>]
           e == [enc EXCEPT !.frames = <<>>]
           stop == Heard(up, source)
<1>1. Follows(e, source.content, source.tools, Calling, stop)
  BY Afresh DEF Coming
<1>2. /\ DOMAIN d = DOMAIN NewDecoder /\ d.events = <<>> /\ d.tool = dec.tool /\ d.text = dec.text
      /\ d.block = dec.block
  BY DecoderFields, Zenon DEF SourceRead
<1> HIDE DEF d, e, stop
<1>3. Converted(d) = e
  BY <1>2, EncodeAllSteps DEF Converted, e
<1>4. Along(d, source.content, source.tools, Calling, stop)
  BY <1>1, <1>2, <1>3, ListedEmpty, Zenon DEF Along, DecoderShape, Coming
<1>5. DOMAIN source = DOMAIN NewReader
  BY DEF SourceRead
<1>6. CASE up = "openai"
  <2>1. Calling = dec.tool
    BY <1>6 DEF Calling
  <2> QED BY <1>2, <1>4, <1>5, <1>6, <2>1, Zenon DEF LinkedTo, OpenAILinked, Coming, Tracked, stop, d
<1>7. CASE up = "anthropic"
  <2>1. Calling = (source.open /\ source.block = "tool_use")
    BY <1>7, Zenon DEF Calling
  <2>2. source.open => d.block = source.block
    BY <1>2, <1>7 DEF Coming, Tracked
  <2> QED BY <1>4, <1>5, <1>7, <2>1, <2>2, Zenon DEF LinkedTo, AnthropicLinked, stop, d
<1>8. CASE up = "gemini"
  <2>1. Calling = FALSE
    BY <1>8, Zenon DEF Calling
  <2> QED BY <1>4, <1>5, <1>8, <2>1, Zenon DEF LinkedTo, GeminiLinked, stop, d
<1> QED BY <1>6, <1>7, <1>8 DEF Protocols, d

\* is decoded so that it is again,
LEMMA LinkDecoded ==
    ASSUME NEW payload, Sendable(payload), Counted(payload),
           LinkedTo([dec EXCEPT !.events = <<>>], source), ~Read(up, source, payload).bad
    PROVE  LinkedTo(Decode(payload), Read(up, source, payload))
<1> DEFINE d == [dec EXCEPT !.events = <<>>]
<1>1. PICK p : p = payload
  OBVIOUS
<1>2. CASE up = "openai" /\ OpenAILinked(d, source, Heard("openai", source))
  <2>1. Decode(payload) = DecodeOpenAI(d, p) /\ Read(up, source, payload) = ReadChunk(source, p)
    BY <1>1, <1>2, Zenon DEF Decode, Read
  <2> HIDE DEF d
  <2>2. OpenAILinked(DecodeOpenAI(d, p), ReadChunk(source, p), Heard("openai", ReadChunk(source, p)))
    BY <1>1, <1>2, <2>1, OpenAIDecoded DEF Sendable
  <2> QED BY <1>2, <2>1, <2>2, Zenon DEF LinkedTo
<1>3. CASE up = "anthropic" /\ AnthropicLinked(d, source, Heard("anthropic", source))
  <2>1. Decode(payload) = DecodeAnthropic(d, p) /\ Read(up, source, payload) = ReadEvent(source, p)
    BY <1>1, <1>3, Zenon DEF Decode, Read
  <2> HIDE DEF d
  <2>2. AnthropicLinked(DecodeAnthropic(d, p), ReadEvent(source, p),
                        Heard("anthropic", ReadEvent(source, p)))
    BY <1>1, <1>3, <2>1, AnthropicDecoded DEF Sendable, Counted
  <2> QED BY <1>3, <2>1, <2>2, Zenon DEF LinkedTo
<1>4. CASE up = "gemini" /\ GeminiLinked(d, source, Heard("gemini", source))
  <2>1. Decode(payload) = DecodeGemini(d, p) /\ Read(up, source, payload) = ReadGemini(source, p)
    BY <1>1, <1>4, Zenon DEF Decode, Read
  <2> HIDE DEF d
  <2>2. GeminiLinked(DecodeGemini(d, p), ReadGemini(source, p), Heard("gemini", ReadGemini(source, p)))
    BY <1>1, <1>4, <2>1, GeminiDecoded DEF Sendable, Counted
  <2> QED BY <1>4, <2>1, <2>2, Zenon DEF LinkedTo
<1> QED BY <1>2, <1>3, <1>4 DEF LinkedTo

\* and leaves the client with all of it.
LEMMA LinkEnds ==
    ASSUME up' = up, down' = down, LinkedTo(dec', source'), enc' = Converted(dec'),
           client' = ReadAll(down, client, enc'.frames)
    PROVE  Coming'
<1>1. PICK d : d = dec'
  OBVIOUS
<1>2. PICK s : s = source'
  OBVIOUS
<1> DEFINE e == Converted(d)
           calling == CASE up = "openai" -> d.tool
                        [] up = "anthropic" -> s.open /\ s.block = "tool_use"
                        [] OTHER -> FALSE
           stop == IF s.stop = "" THEN "" ELSE StopOf(up, s.stop)
<1>3. enc' = e /\ client' = Seen(e)
  BY <1>1 DEF Seen
<1>4. LinkedTo(d, s)
  BY <1>1, <1>2
<1>5. stop = Heard(up, s)
  BY Zenon DEF Heard
<1>6. /\ Listed(s.content) /\ Follows(e, s.content, s.tools, calling, stop)
      /\ up = "openai" => /\ d.tool \in BOOLEAN /\ d.text \in BOOLEAN
                          /\ Silent(s) /\ s.block = "tool_use" => d.tool = TRUE
      /\ up = "anthropic" /\ s.open => d.block = s.block
  <2> HIDE DEF stop, e
  <2>1. CASE up = "openai" /\ OpenAILinked(d, s, stop)
    <3>1. Along(d, s.content, s.tools, d.tool, stop) /\ calling = d.tool
      BY <2>1, Zenon DEF OpenAILinked
    <3> HIDE DEF calling
    <3> QED BY <2>1, <3>1, Zenon DEF Along, OpenAILinked, e
  <2>2. CASE up = "anthropic" /\ AnthropicLinked(d, s, stop)
    <3>1. /\ Along(d, s.content, s.tools, s.open /\ s.block = "tool_use", stop)
          /\ calling = (s.open /\ s.block = "tool_use")
      BY <2>2, Zenon DEF AnthropicLinked
    <3> HIDE DEF calling
    <3> QED BY <2>2, <3>1, Zenon DEF Along, AnthropicLinked, e
  <2>3. CASE up = "gemini" /\ GeminiLinked(d, s, stop)
    <3>1. Along(d, s.content, s.tools, FALSE, stop) /\ calling = FALSE
      BY <2>3, Zenon DEF GeminiLinked
    <3> HIDE DEF calling
    <3> QED BY <2>3, <3>1, Zenon DEF Along, e
  <2> QED BY <1>4, <1>5, <2>1, <2>2, <2>3, Zenon DEF LinkedTo
<1>7. Abreast(down, e, Seen(e), s.content, s.tools, calling, stop)
  <2> HIDE DEF e, calling, stop
  <2> QED BY <1>6, Zenon DEF Abreast, Follows
<1>8. calling = Calling' /\ stop = Heard(up, source)'
  BY <1>1, <1>2, Zenon DEF Calling, Heard, StopOf
<1>9. Tracked'
  BY <1>1, <1>2, <1>6, Zenon DEF Tracked, Silent
<1> HIDE DEF e, calling, stop
<1> QED BY <1>1, <1>2, <1>3, <1>6, <1>7, <1>8, <1>9, Zenon DEF Coming

\* The decoder has the usage the source has reported.
LEMMA PayloadMeters ==
    ASSUME Protocols, SourceRead, NEW payload, Sendable(payload)
    PROVE  /\ DOMAIN Read(up, source, payload) = DOMAIN NewReader
           /\ DOMAIN Decode(payload) = DOMAIN NewDecoder
           /\ Decode(payload).usage = Read(up, source, payload).usage
<1> DEFINE d == [dec EXCEPT !.events = <<>>]
<1>1. DOMAIN d = DOMAIN NewDecoder /\ d.usage = source.usage /\ DOMAIN source = DOMAIN NewReader
  BY DecoderFields, Zenon DEF SourceRead
<1>2. PICK p : p = payload
  OBVIOUS
<1>3. CASE up = "openai"
  <2>1. Decode(payload) = DecodeOpenAI(d, p) /\ Read(up, source, payload) = ReadChunk(source, p)
    BY <1>2, <1>3, Zenon DEF Decode, Read
  <2> HIDE DEF d
  <2> QED BY <1>1, <1>2, <1>3, <2>1, OpenAIUsage DEF Sendable
<1>4. CASE up = "anthropic"
  <2>1. Decode(payload) = DecodeAnthropic(d, p) /\ Read(up, source, payload) = ReadEvent(source, p)
    BY <1>2, <1>4, Zenon DEF Decode, Read
  <2> HIDE DEF d
  <2> QED BY <1>1, <1>2, <1>4, <2>1, AnthropicUsage DEF Sendable
<1>5. CASE up = "gemini"
  <2>1. Decode(payload) = DecodeGemini(d, p) /\ Read(up, source, payload) = ReadGemini(source, p)
    BY <1>2, <1>5, Zenon DEF Decode, Read
  <2> HIDE DEF d
  <2> QED BY <1>1, <1>2, <1>5, <2>1, GeminiUsage DEF Sendable
<1> QED BY <1>3, <1>4, <1>5 DEF Protocols

\* Only the marker ends a stream of OpenAI.
LEMMA ChunkEnds ==
    ASSUME DOMAIN source = DOMAIN NewReader, source.ended = FALSE, NEW chunk,
           FewCalls(chunk.calls), chunk.done = FALSE
    PROVE  ReadChunk(source, chunk).ended = FALSE
<1> DEFINE s1 == IF chunk.text = 0 THEN source
                 ELSE [Take(source, Text(chunk.text)) EXCEPT !.block = "text"]
           s2 == ReadCalls(s1, chunk.calls)
           late == source.stop # "" /\ (chunk.text # 0 \/ chunk.calls # <<>> \/ chunk.finish # "")
           t == [Check(s2, ~source.ended /\ ~late) EXCEPT
                    !.stop = IF chunk.finish = "" THEN @ ELSE chunk.finish,
                    !.usage = IF chunk.usage THEN "all" ELSE @,
                    !.ended = @ \/ chunk.done]
<1>1. ReadChunk(source, chunk) = t
  BY Zenon DEF ReadChunk
<1>2. DOMAIN s1 = DOMAIN NewReader /\ s1.ended = FALSE
  BY ReaderFields DEF Take
<1> HIDE DEF s1
<1>3. DOMAIN s2 = DOMAIN NewReader /\ s2.ended = FALSE
  BY <1>2, ReadCallsKeep
<1> HIDE DEF s2
<1>4. t.ended = (s2.ended \/ chunk.done)
  BY <1>3, ReaderFields, Zenon DEF Check
<1> HIDE DEF t
<1> QED BY <1>1, <1>3, <1>4

\* Blocks and stop reasons stay those of Anthropic.
LEMMA EventFamiliar ==
    ASSUME DOMAIN source = DOMAIN NewReader, Familiar(source), NEW ev, Sends(ev)
    PROVE  Familiar(ReadEvent(source, ev))
<1> DEFINE s == source
           c == Checked(s, ev)
           t == ReadEvent(s, ev)
           current == s.open /\ ev.index = s.blocks - 1
<1>1. /\ DOMAIN c = DOMAIN NewReader /\ c.open = s.open /\ c.block = s.block /\ c.stop = s.stop
  BY ReaderFields, Zenon DEF Checked, Check
<1> HIDE DEF c
<1>2. CASE ev.type = "message_start"
  <2>1. t = [c EXCEPT !.started = TRUE, !.usage = "input"]
    BY <1>2, Zenon DEF ReadEvent, Checked, c
  <2> HIDE DEF t
  <2>2. t.open = s.open /\ t.block = s.block /\ t.stop = s.stop
    BY <1>1, <2>1, ReaderFields, Zenon
  <2> QED BY <2>2, Zenon DEF Familiar, t
<1>3. CASE ev.type = "message_stop"
  <2>1. t = [Check(c, c.stop # "") EXCEPT !.ended = TRUE]
    BY <1>3, Zenon DEF ReadEvent, Checked, c
  <2> HIDE DEF t
  <2>2. t.open = s.open /\ t.block = s.block /\ t.stop = s.stop
    BY <1>1, <2>1, ReaderFields, Zenon DEF Check
  <2> QED BY <2>2, Zenon DEF Familiar, t
<1>4. CASE ev.type = "content_block_stop"
  <2>1. t = [Check(c, current) EXCEPT !.open = FALSE]
    BY <1>4, Zenon DEF ReadEvent, Checked, c
  <2> HIDE DEF t
  <2>2. t.open = FALSE /\ t.stop = s.stop
    BY <1>1, <2>1, ReaderFields, Zenon DEF Check
  <2> QED BY <2>2, Zenon DEF Familiar, t
<1>5. CASE ev.type = "content_block_start" /\ ev.block \in Blocks
  <2> DEFINE b == Started(s, ev)
  <2>1. t = IF ev.block # "tool_use" THEN b
            ELSE [Take(b, Tool(b.tools + 1, ev.piece)) EXCEPT !.tools = @ + 1]
    BY <1>5, ReadStart
  <2> HIDE DEF t
  <2>2. DOMAIN b = DOMAIN NewReader /\ b.block = ev.block /\ b.stop = s.stop
    <3>1. PICK ok : b = [Check(c, ok) EXCEPT !.open = TRUE, !.block = ev.block, !.blocks = @ + 1]
      BY Zenon DEF Started, c
    <3> HIDE DEF b
    <3> QED BY <1>1, <3>1, ReaderFields, Zenon DEF Check
  <2> HIDE DEF b
  <2>3. t.block = ev.block /\ t.stop = s.stop
    BY <2>1, <2>2, ReaderFields, Zenon DEF Take
  <2> QED BY <1>5, <2>3, Zenon DEF Familiar, t
<1>6. CASE ev.type = "content_block_delta"
  <2> DEFINE k == Check(c, current /\ ev.block = c.block)
  <2>1. t \in {k, Take(k, Text(ev.piece)), Take(k, Args(k.tools, ev.piece))}
    <3>1. t = CASE ev.block = "text" -> Take(k, Text(ev.piece))
                [] ev.block = "tool_use" -> Take(k, Args(k.tools, ev.piece))
                [] OTHER -> k
      BY <1>6, Zenon DEF ReadEvent, Checked, c
    <3> HIDE DEF t, k
    <3> QED BY <3>1, Zenon
  <2>2. DOMAIN k = DOMAIN NewReader /\ k.open = s.open /\ k.block = s.block /\ k.stop = s.stop
    BY <1>1, ReaderFields, Zenon DEF Check
  <2> HIDE DEF t, k
  <2>3. t.open = s.open /\ t.block = s.block /\ t.stop = s.stop
    BY <2>1, <2>2, ReaderFields, Zenon DEF Take
  <2> QED BY <2>3, Zenon DEF Familiar, t
<1>7. CASE ev.type = "message_delta" /\ ev.stop \in CanonStops
  <2>1. t = [Check(c, ~c.open /\ c.stop = "") EXCEPT !.stop = ev.stop, !.usage = "all"]
    BY <1>7, Zenon DEF ReadEvent, Checked, c
  <2> HIDE DEF t
  <2>2. t.open = s.open /\ t.block = s.block /\ t.stop = ev.stop
    BY <1>1, <2>1, ReaderFields, Zenon DEF Check
  <2> QED BY <1>7, <2>2, Zenon DEF Familiar, t
<1> QED BY <1>2, <1>3, <1>4, <1>5, <1>6, <1>7 DEF Sends, t, s

\* A chunk has at most the arguments of a call and the start of another.
LEMMA FewJoined ==
    ASSUME NEW p, NEW q, NEW a, NEW b
    PROVE  FewCalls((IF p THEN <<a>> ELSE <<>>) \o (IF q THEN <<b>> ELSE <<>>))
<1>1. <<>> \in Seq({a, b}) /\ <<a>> \in Seq({a, b}) /\ <<b>> \in Seq({a, b})
  OBVIOUS
<1>2. /\ <<>> \o <<>> = <<>> /\ <<a>> \o <<>> = <<a>> /\ <<>> \o <<b>> = <<b>>
      /\ <<a>> \o <<b>> = <<a, b>>
  <2>1. <<a>> \o <<b>> = Append(<<a>>, b)
    BY <1>1, AppendIsConcat
  <2>2. <<a, b>> = Append(<<a>>, b)
    OBVIOUS
  <2>3. <<>> \o <<>> = <<>> /\ <<a>> \o <<>> = <<a>> /\ <<>> \o <<b>> = <<b>>
    BY <1>1, ConcatEmptySeq
  <2> QED BY <2>1, <2>2, <2>3
<1> QED BY <1>2, Zenon DEF FewCalls

\* Pieces are numbered from 1.
LEMMA NextPositive == Listed(source.content) => NextPiece \in Nat \ {0}
<1>1. \A s : Listed(s) => Len(s) + 1 \in Nat \ {0}
  BY DEF Listed
<1> QED BY <1>1 DEF NextPiece

\* What an upstream of OpenAI may send next.
LEMMA OpenAISends ==
    OpenAIPayload => \E payload : Payload(payload) /\ Sendable(payload) /\ Counted(payload)
<1> SUFFICES ASSUME OpenAIPayload
             PROVE  \E payload : Payload(payload) /\ Sendable(payload) /\ Counted(payload)
  OBVIOUS
<1>1. \E text, calls, finish, usage :
         /\ FewCalls(calls)
         /\ Payload([Chunk EXCEPT !.text = text, !.calls = calls, !.finish = finish, !.usage = usage])
  <2>1. PICK text, args, more \in BOOLEAN, id \in BOOLEAN,
             finish \in {"", "stop", "length", "tool_calls"}, usage \in BOOLEAN :
        LET n == IF text THEN NextPiece + 1 ELSE NextPiece
            k == source.tools - (IF id THEN 0 ELSE 1)
            call == Call(k, IF id THEN n ELSE 0, IF args THEN (IF id THEN n + 1 ELSE n) ELSE 0)
            calls == (IF id \/ args THEN <<call>> ELSE <<>>)
                       \o (IF more /\ id THEN <<Call(k + 1, n + 2, 0)>> ELSE <<>>)
        IN  /\ more => id /\ args
            /\ text \/ id \/ args \/ finish # "" \/ usage
            /\ usage => ~text /\ ~id /\ ~args /\ finish = "" /\ source.stop # ""
            /\ Payload([Chunk EXCEPT !.text = IF text THEN NextPiece ELSE 0, !.calls = calls,
                                     !.finish = finish, !.usage = usage])
    BY Zenon DEF OpenAIPayload
  <2> DEFINE n == IF text THEN NextPiece + 1 ELSE NextPiece
             k == source.tools - (IF id THEN 0 ELSE 1)
             call == Call(k, IF id THEN n ELSE 0, IF args THEN (IF id THEN n + 1 ELSE n) ELSE 0)
             calls == (IF id \/ args THEN <<call>> ELSE <<>>)
                        \o (IF more /\ id THEN <<Call(k + 1, n + 2, 0)>> ELSE <<>>)
  <2>2. Payload([Chunk EXCEPT !.text = IF text THEN NextPiece ELSE 0, !.calls = calls,
                              !.finish = finish, !.usage = usage])
    BY <2>1, Zenon
  <2>3. FewCalls(calls)
    BY FewJoined, Zenon
  <2> QED BY <2>2, <2>3, Zenon
<1>2. PICK text, calls, finish, usage :
         /\ FewCalls(calls)
         /\ Payload([Chunk EXCEPT !.text = text, !.calls = calls, !.finish = finish, !.usage = usage])
  BY <1>1, Zenon
<1> DEFINE payload == [Chunk EXCEPT !.text = text, !.calls = calls, !.finish = finish, !.usage = usage]
<1>4. payload.calls = calls /\ payload.done = FALSE
  BY Zenon DEF Chunk
<1>5. FewCalls(calls)
  BY <1>2, Zenon
<1>6. Payload(payload)
  BY <1>2, Zenon
<1>7. up = "openai"
  BY Zenon DEF OpenAIPayload
<1> HIDE DEF payload
<1>8. Sendable(payload) /\ Counted(payload)
  BY <1>4, <1>5, <1>7 DEF Sendable, Counted
<1> QED BY <1>6, <1>8

\* A delta is for the block that is open.
LEMMA DeltaOpen ==
    ASSUME DOMAIN source = DOMAIN NewReader, NEW ev, ev.type = "content_block_delta",
           ~ReadEvent(source, ev).bad
    PROVE  source.open
<1> DEFINE c == Checked(source, ev)
           current == source.open /\ ev.index = source.blocks - 1
           k == Check(c, current /\ ev.block = c.block)
           t == ReadEvent(source, ev)
<1>1. t \in {k, Take(k, Text(ev.piece)), Take(k, Args(k.tools, ev.piece))}
  <2>1. t = CASE ev.block = "text" -> Take(k, Text(ev.piece))
              [] ev.block = "tool_use" -> Take(k, Args(k.tools, ev.piece))
              [] OTHER -> k
    BY Zenon DEF ReadEvent, Checked
  <2> HIDE DEF t, k
  <2> QED BY <2>1, Zenon
<1>2. DOMAIN c = DOMAIN NewReader
  BY ReaderFields, Zenon DEF Checked, Check
<1> HIDE DEF c
<1>3. DOMAIN k = DOMAIN NewReader /\ (~k.bad => current)
  BY <1>2, ReaderFields, Zenon DEF Check
<1> HIDE DEF k
<1>4. \A a : Take(k, a).bad = k.bad
  BY <1>3, ReaderFields, Zenon DEF Take
<1>5. ~t.bad
  OBVIOUS
<1> HIDE DEF t
<1> QED BY <1>1, <1>3, <1>4, <1>5, Zenon

\* What an upstream of Anthropic may send next.
LEMMA AnthropicSends ==
    ASSUME SourceRead, AnthropicPayload
    PROVE  \E payload : /\ Payload(payload) /\ Sendable(payload)
                        /\ Listed(source.content) => Counted(payload)
<1> DEFINE starts == [Event("content_block_stop") EXCEPT !.index = source.blocks - 1]
           begins(b) == [Event("content_block_start") EXCEPT
                            !.index = source.blocks, !.block = b,
                            !.piece = IF b = "tool_use" THEN NextPiece ELSE 0]
           goes == [Event("content_block_delta") EXCEPT !.index = source.blocks - 1,
                       !.block = source.block, !.piece = NextPiece]
           stops(s) == [Event("message_delta") EXCEPT !.stop = s]
<1>1. PICK ev : /\ Payload(ev)
                /\ \/ ev = Event("message_start") \/ ev = Event("message_stop") \/ ev = starts
                   \/ \E b \in {"text", "tool_use", "thinking"} : ev = begins(b)
                   \/ ev = goes
                   \/ \E s \in {"end_turn", "max_tokens", "tool_use", "stop_sequence"} : ev = stops(s)
  BY Zenon DEF AnthropicPayload
<1>2. up = "anthropic"
  BY Zenon DEF AnthropicPayload
<1>3. Listed(source.content) => NextPiece # 0
  BY NextPositive
<1> SUFFICES Sends(ev) /\ (Listed(source.content) => Numbered(ev))
  BY <1>1, <1>2, Zenon DEF Sendable, Counted
<1>4. CASE ev = Event("message_start") \/ ev = Event("message_stop") \/ ev = starts
  <2>1. /\ Event("message_start").type = "message_start" /\ Event("message_stop").type = "message_stop"
        /\ starts.type = "content_block_stop"
    BY Zenon DEF Event
  <2>2. ev.type \in {"message_start", "message_stop", "content_block_stop"}
    BY <1>4, <2>1, Zenon
  <2> QED BY <2>2, Zenon DEF Sends, Numbered
<1>5. ASSUME NEW b \in {"text", "tool_use", "thinking"}, ev = begins(b)
      PROVE  Sends(ev) /\ (Listed(source.content) => Numbered(ev))
  <2>1. /\ ev.type = "content_block_start" /\ ev.block = b
        /\ ev.piece = IF b = "tool_use" THEN NextPiece ELSE 0
    BY <1>5, Zenon DEF Event
  <2> QED BY <1>3, <2>1, Zenon DEF Sends, Numbered, Blocks
<1>6. CASE ev = goes
  <2>1. ev.type = "content_block_delta" /\ ev.block = source.block /\ ev.piece = NextPiece
    BY <1>6, Zenon DEF Event
  <2>2. ~ReadEvent(source, ev).bad
    BY <1>1, <1>2, Zenon DEF Payload, Read
  <2>3. source.open
    BY <2>1, <2>2, DeltaOpen DEF SourceRead
  <2>4. source.block \in Blocks
    BY <1>2, <2>3, Zenon DEF SourceRead, Familiar
  <2> QED BY <1>3, <2>1, <2>4, Zenon DEF Sends, Numbered
<1>7. ASSUME NEW s \in {"end_turn", "max_tokens", "tool_use", "stop_sequence"}, ev = stops(s)
      PROVE  Sends(ev) /\ (Listed(source.content) => Numbered(ev))
  <2>1. ev.type = "message_delta" /\ ev.stop = s
    BY <1>7, Zenon DEF Event
  <2> QED BY <2>1, Zenon DEF Sends, Numbered, CanonStops
<1> QED BY <1>1, <1>4, <1>5, <1>6, <1>7

\* The parts of a chunk, numbered.
Made(parts, n) == [i \in DOMAIN parts |-> [kind |-> parts[i], piece |-> n + i - 1]]

\* Parts are numbered from the next piece on.
LEMMA FewMade ==
    ASSUME NEW parts, FewParts(parts), NEW n
    PROVE  /\ FewParts(Made(parts, n))
           /\ n \in Nat \ {0} => \A i \in DOMAIN Made(parts, n) : Made(parts, n)[i].piece # 0
<1> DEFINE m == Made(parts, n)
           Counts == n \in Nat \ {0} => \A i \in DOMAIN m : m[i].piece # 0
<1>1. CASE parts = <<>>
  <2>1. m = <<>>
    BY <1>1 DEF Made
  <2> HIDE DEF m
  <2>2. Counts
    BY <2>1
  <2> QED BY <2>1, <2>2, Zenon DEF FewParts, m
<1>2. ASSUME NEW a, parts = <<a>> PROVE FewParts(m) /\ Counts
  <2>1. m = <<[kind |-> a, piece |-> n + 1 - 1]>>
    BY <1>2 DEF Made
  <2> HIDE DEF m
  <2>2. Counts
    BY <2>1
  <2> QED BY <2>1, <2>2, Zenon DEF FewParts
<1>3. ASSUME NEW a, NEW b, parts = <<a, b>> PROVE FewParts(m) /\ Counts
  <2>1. m = <<[kind |-> a, piece |-> n + 1 - 1], [kind |-> b, piece |-> n + 2 - 1]>>
    BY <1>3 DEF Made
  <2> HIDE DEF m
  <2>2. Counts
    BY <2>1
  <2> QED BY <2>1, <2>2, Zenon DEF FewParts
<1> QED BY <1>1, <1>2, <1>3 DEF FewParts

\* What an upstream of Gemini may send next.
LEMMA GeminiSends ==
    ASSUME GeminiPayload
    PROVE  \E payload : /\ Payload(payload) /\ Sendable(payload)
                        /\ Listed(source.content) => Counted(payload)
<1>1. PICK parts \in {<<"text">>, <<"call">>, <<"text", "call">>, <<"call", "call">>,
                      <<"call", "text">>, <<>>},
           finish \in {"", "STOP", "MAX_TOKENS"}, usage \in BOOLEAN :
        LET at(i) == NextPiece + i - 1
        IN  /\ parts # <<>> \/ finish # ""
            /\ finish # "" => usage
            /\ Payload([parts |-> [i \in DOMAIN parts |-> [kind |-> parts[i], piece |-> at(i)]],
                        finish |-> finish, usage |-> usage])
  BY Zenon DEF GeminiPayload
<1>2. up = "gemini"
  BY Zenon DEF GeminiPayload
<1>3. PICK m : m = Made(parts, NextPiece)
  OBVIOUS
<1> DEFINE payload == [parts |-> m, finish |-> finish, usage |-> usage]
<1>4. Payload(payload)
  BY <1>1, <1>3, Zenon DEF Made
<1>5. payload.parts = m
  BY Zenon
<1>6. FewParts(parts)
  BY <1>1, Zenon DEF FewParts
<1>7. FewParts(m) /\ (NextPiece \in Nat \ {0} => \A i \in DOMAIN m : m[i].piece # 0)
  BY <1>3, <1>6, FewMade, Zenon
<1>8. Listed(source.content) => NextPiece \in Nat \ {0}
  BY NextPositive, Zenon
<1> HIDE DEF payload
<1>9. Sendable(payload)
  BY <1>2, <1>5, <1>7, Zenon DEF Sendable
<1>10. Listed(source.content) => Counted(payload)
  BY <1>2, <1>5, <1>7, <1>8, Zenon DEF Counted
<1> QED BY <1>4, <1>9, <1>10, Zenon

\* A client that follows has found nothing wrong.
LEMMA ComingGood == Coming => ~client.bad
BY Zenon DEF Coming, Abreast, OpenAIFollows, AnthropicFollows, Following, Going

\* A payload, passed on, converted, or not sent to a client that has gone.
LEMMA PayloadKeeps ==
    ASSUME Protocols, StreamInv, NEW payload, Payload(payload), Sendable(payload),
           Listed(source.content) => Counted(payload)
    PROVE  Protocols' /\ StreamInv'
<1> DEFINE t == Read(up, source, payload)
           x == Decode(payload)
<1>1. /\ up' = up /\ down' = down /\ clientGone' = clientGone /\ doneSent' = doneSent
      /\ ended' = ended /\ ~doneSent /\ ~ended
      /\ source' = t /\ ~t.bad /\ dec' = x
      /\ (clientGone => client' = client)
  BY Zenon DEF Payload, WriteFrames
<1>2. SourceRead /\ ~client.bad /\ (~clientGone => ClientReads)
  BY DEF StreamInv
<1>3. SourceRead'
  <2>1. DOMAIN t = DOMAIN NewReader /\ DOMAIN x = DOMAIN NewDecoder /\ x.usage = t.usage
    BY <1>2, PayloadMeters
  <2>2. up = "openai" => t.ended = FALSE
    <3> SUFFICES ASSUME up = "openai" PROVE t.ended = FALSE
      OBVIOUS
    <3>1. t = ReadChunk(source, payload)
      BY Zenon DEF Read
    <3>2. ReadChunk(source, payload).ended = FALSE
      BY <1>1, <1>2, ChunkEnds DEF SourceRead, Sendable
    <3> QED BY <3>1, <3>2
  <2>3. up = "anthropic" => Familiar(t)
    <3> SUFFICES ASSUME up = "anthropic" PROVE Familiar(t)
      OBVIOUS
    <3>1. t = ReadEvent(source, payload)
      BY Zenon DEF Read
    <3>2. Familiar(ReadEvent(source, payload))
      BY <1>2, EventFamiliar DEF SourceRead, Sendable
    <3> QED BY <3>1, <3>2
  <2> HIDE DEF t, x
  <2>4. /\ clientGone \in BOOLEAN /\ doneSent \in BOOLEAN /\ ended \in BOOLEAN
    BY <1>2 DEF SourceRead
  <2>5. Familiar(source)' <=> Familiar(t)
    BY <1>1, Zenon DEF Familiar
  <2> QED BY <1>1, <2>1, <2>2, <2>3, <2>4, <2>5, Zenon DEF SourceRead
<1>4. CASE clientGone
  BY <1>1, <1>2, <1>3, <1>4 DEF StreamInv, Protocols
<1>5. CASE ~clientGone /\ Passthrough
  <2>1. client' = ReadAll(down, client, <<payload>>) /\ enc' = enc
    BY <1>5, Zenon DEF Payload, WriteFrames
  <2>2. client = source /\ DOMAIN enc = DOMAIN NewEncoder
    BY <1>1, <1>2, <1>5, Zenon DEF ClientReads, PassedOn
  <2>3. client' = t
    BY <1>5, <2>1, <2>2, ReadAllSteps, Zenon DEF Passthrough
  <2> HIDE DEF t, x
  <2>4. Passthrough' /\ PassedOn'
    BY <1>1, <1>5, <2>1, <2>2, <2>3, Zenon DEF Passthrough, PassedOn
  <2> QED BY <1>1, <1>2, <1>3, <2>3, <2>4, Zenon DEF StreamInv, ClientReads, Protocols
<1>6. CASE ~clientGone /\ ~Passthrough
  <2>1. enc' = Converted(dec') /\ client' = ReadAll(down, client, enc'.frames)
    BY <1>6, Zenon DEF Payload, WriteFrames
  <2>2. Coming
    BY <1>1, <1>2, <1>6 DEF ClientReads
  <2>3. LinkedTo([dec EXCEPT !.events = <<>>], source) /\ Counted(payload)
    BY <1>2, <2>2, LinkBegins DEF Coming
  <2>4. LinkedTo(x, t)
    BY <1>1, <2>3, LinkDecoded
  <2> HIDE DEF t, x
  <2>5. LinkedTo(dec', source')
    BY <1>1, <2>4
  <2>6. Coming'
    BY <1>1, <2>1, <2>5, LinkEnds
  <2>7. ~client'.bad
    <3>1. Coming' => ~client'.bad
      BY Zenon DEF Coming, Abreast, OpenAIFollows, AnthropicFollows, Following, Going
    <3> QED BY <2>6, <3>1
  <2> QED BY <1>1, <1>2, <1>3, <1>6, <2>6, <2>7, Zenon DEF StreamInv, ClientReads, Passthrough, Protocols
<1> QED BY <1>4, <1>5, <1>6

\* What the client has when its stream is over.
Over(c) ==
    /\ ~c.bad
    /\ IF ~Passthrough THEN Ended(c, source.content, LastStop(down, Heard(up, source)))
       ELSE IF down = "openai"
            THEN c.ended = TRUE /\ c.content = source.content /\ c.stop = source.stop
            ELSE c = source

\* processDone, whatever has come before it.
LEMMA DoneReads ==
    ASSUME Protocols, StreamInv, ~doneSent, ~ended, ~clientGone
    PROVE  Over(ReadAll(down, client, ProcessDone.frames))
<1> DEFINE c == ReadAll(down, client, ProcessDone.frames)
           stop == Heard(up, source)
<1>1. SourceRead /\ ~client.bad /\ ClientReads
  BY DEF StreamInv
<1>2. CASE ~Passthrough
  <2> HIDE DEF stop
  <2>1. Abreast(down, enc, client, source.content, source.tools, Calling, stop)
    BY <1>1, <1>2, Zenon DEF ClientReads, Coming, stop
  <2>2. Ended(c, source.content, LastStop(down, stop))
    BY <1>2, <2>1, DoneEnds
  <2> HIDE DEF c
  <2> QED BY <1>2, <2>2, Zenon DEF Over, Ended, stop, c
<1>3. CASE Passthrough
  <2> DEFINE e == [enc EXCEPT !.frames = <<>>]
  <2>1. client = source /\ DOMAIN enc = DOMAIN NewEncoder
    BY <1>1, <1>3, Zenon DEF ClientReads, PassedOn
  <2>2. e.frames = <<>>
    BY <2>1, EncoderFields
  <2>3. CASE down = "openai"
    <3> DEFINE frame == [Chunk EXCEPT !.done = TRUE]
    <3>1. /\ frame.text = 0 /\ frame.calls = <<>> /\ frame.finish = "" /\ frame.usage = FALSE
          /\ frame.done = TRUE
      BY Zenon DEF Chunk
    <3> HIDE DEF frame
    <3>2. ProcessDone = Emit(e, frame)
      BY <1>3, <2>3, Zenon DEF ProcessDone, frame
    <3>3. DOMAIN e = DOMAIN NewEncoder
      BY <2>1
    <3> HIDE DEF e
    <3>4. ProcessDone.frames = <<frame>>
      BY <2>2, <3>2, <3>3, EncoderFields DEF Emit
    <3>5. c = ReadChunk(source, frame)
      BY <2>1, <2>3, <3>4, ReadAllSteps, Zenon DEF Read
    <3>6. DOMAIN source = DOMAIN NewReader /\ source.ended = FALSE /\ ~source.bad
      BY <1>1, <1>3, <2>3 DEF SourceRead, Passthrough
    <3> HIDE DEF c
    <3>7. c = [Check(source, ~source.ended /\ ~(source.stop # "" /\ frame.finish # "")) EXCEPT
                 !.stop = IF frame.finish = "" THEN @ ELSE frame.finish,
                 !.usage = IF frame.usage THEN "all" ELSE @,
                 !.ended = @ \/ frame.done]
      BY <3>1, <3>5, <3>6, ReadEmpty, Zenon
    <3>8. ~c.bad /\ c.ended = TRUE /\ c.content = source.content /\ c.stop = source.stop
      BY <3>1, <3>6, <3>7, ReaderFields, Zenon DEF Check
    <3> QED BY <1>3, <2>3, <3>8, Zenon DEF Over, c
  <2>4. CASE down = "anthropic"
    <3>1. ProcessDone = e
      BY <1>3, <2>4, Zenon DEF ProcessDone
    <3> HIDE DEF e
    <3>2. c = client
      BY <2>2, <3>1, ReadAllSteps
    <3> HIDE DEF c
    <3> QED BY <1>1, <1>3, <2>1, <2>4, <3>2, Zenon DEF Over, c
  <2> QED BY <2>3, <2>4 DEF Protocols
<1> QED BY <1>2, <1>3

\* The marker at the end of a stream of OpenAI.
LEMMA DoneMarkerKeeps ==
    ASSUME Protocols, StreamInv, DoneMarker PROVE Protocols' /\ StreamInv'
<1>1. /\ up' = up /\ down' = down /\ clientGone' = clientGone /\ doneSent' = TRUE
      /\ ended' = ended /\ ~doneSent /\ ~ended /\ up = "openai"
      /\ source' = [source EXCEPT !.ended = TRUE] /\ dec' = dec
      /\ client' = IF clientGone THEN client ELSE ReadAll(down, client, ProcessDone.frames)
  BY Zenon DEF DoneMarker, WriteFrames
<1>2. SourceRead /\ ~client.bad
  BY DEF StreamInv
<1>3. /\ DOMAIN source' = DOMAIN NewReader /\ source'.content = source.content
      /\ source'.stop = source.stop /\ source'.usage = source.usage /\ source'.bad = source.bad
  BY <1>1, <1>2, ReaderFields, Zenon DEF SourceRead
<1>4. SourceRead'
  <2>1. up # "anthropic" /\ TRUE \in BOOLEAN
    BY <1>1
  <2> QED BY <1>1, <1>2, <1>3, <2>1, Zenon DEF SourceRead
<1>5. CASE clientGone
  BY <1>1, <1>2, <1>4, <1>5 DEF StreamInv, Protocols
<1>6. CASE ~clientGone
  <2>1. PICK c : c = ReadAll(down, client, ProcessDone.frames)
    OBVIOUS
  <2>2. Over(c) /\ client' = c
    BY <1>1, <1>6, <2>1, DoneReads, Zenon
  <2>3. Heard(up, source)' = Heard(up, source)
    <3>1. \A x, y : x.stop = y.stop => Heard(up, x) = Heard(up, y)
      BY Zenon DEF Heard
    <3>2. up' = up
      BY <1>1
    <3>3. Heard(up, source)' = Heard(up, source')
      BY ONLY <3>2, Zenon DEF Heard, StopOf
    <3> QED BY <1>3, <3>1, <3>3, Zenon
  <2>4. CASE Passthrough
    <3>1. PassedOn'
      BY <1>1, <1>3, <2>2, <2>4, Zenon DEF PassedOn, Over, Passthrough
    <3> QED BY <1>1, <1>4, <1>6, <2>2, <2>4, <3>1, Zenon DEF StreamInv, ClientReads, Passthrough,
               Over, Protocols
  <2>5. CASE ~Passthrough
    <3>1. Complete'
      BY <1>1, <1>3, <2>2, <2>3, <2>5, Zenon DEF Complete, Over, Ended
    <3> QED BY <1>1, <1>4, <1>6, <2>2, <2>5, <3>1, Zenon DEF StreamInv, ClientReads, Passthrough,
               Over, Protocols
  <2> QED BY <2>4, <2>5
<1> QED BY <1>5, <1>6

\* The end of the upstream's body, with or without a marker before it.
LEMMA EndOfStreamKeeps ==
    ASSUME Protocols, StreamInv, EndOfStream PROVE Protocols' /\ StreamInv'
<1>1. /\ up' = up /\ down' = down /\ clientGone' = clientGone /\ doneSent' = doneSent
      /\ ended' = TRUE /\ ~ended /\ source' = source /\ dec' = dec
      /\ basis' = IF dec.usage = "none" THEN "estimate" ELSE dec.usage
      /\ IF doneSent THEN enc' = enc /\ client' = client
         ELSE client' = IF clientGone THEN client ELSE ReadAll(down, client, ProcessDone.frames)
  BY Zenon DEF EndOfStream, WriteFrames
<1>2. SourceRead /\ ~client.bad /\ (~clientGone => ClientReads)
  BY DEF StreamInv
<1>3. SourceRead'
  <2>1. Familiar(source)' <=> Familiar(source)
    BY <1>1, Zenon DEF Familiar
  <2>2. TRUE \in BOOLEAN
    OBVIOUS
  <2> QED BY <1>1, <1>2, <2>1, <2>2, Zenon DEF SourceRead
<1>4. CASE clientGone
  BY <1>1, <1>2, <1>3, <1>4 DEF StreamInv, Protocols
<1>5. CASE ~clientGone /\ doneSent
  <2>1. PassedOn => PassedOn'
    BY <1>1, <1>5, Zenon DEF PassedOn
  <2>2. Complete => Complete'
    BY <1>1, <1>5, Zenon DEF Complete, Ended, LastStop, Heard, StopOf
  <2> QED BY <1>1, <1>2, <1>3, <1>5, <2>1, <2>2, Zenon DEF StreamInv, ClientReads, Passthrough, Protocols
<1>6. CASE ~clientGone /\ ~doneSent
  <2>1. PICK c : c = ReadAll(down, client, ProcessDone.frames)
    OBVIOUS
  <2>2. Over(c) /\ client' = c
    BY <1>1, <1>6, <2>1, DoneReads, Zenon
  <2>3. Heard(up, source)' = Heard(up, source)
    BY <1>1, Zenon DEF Heard, StopOf
  <2>4. CASE Passthrough
    <3>1. PassedOn'
      BY <1>1, <2>2, <2>4, Zenon DEF PassedOn, Over, Passthrough
    <3> QED BY <1>1, <1>3, <1>6, <2>2, <2>4, <3>1, Zenon DEF StreamInv, ClientReads, Passthrough,
               Over, Protocols
  <2>5. CASE ~Passthrough
    <3>1. Complete'
      BY <1>1, <2>2, <2>3, <2>5, Zenon DEF Complete, Over, Ended
    <3> QED BY <1>1, <1>3, <1>6, <2>2, <2>5, <3>1, Zenon DEF StreamInv, ClientReads, Passthrough,
               Over, Protocols
  <2> QED BY <2>4, <2>5
<1> QED BY <1>4, <1>5, <1>6

\* A client that leaves is owed nothing.
LEMMA ClientLeavesKeeps ==
    ASSUME Protocols, StreamInv, ClientLeaves PROVE Protocols' /\ StreamInv'
<1>1. /\ clientGone' = TRUE
      /\ UNCHANGED <<up, down, source, dec, enc, client, doneSent, ended, basis>>
  BY DEF ClientLeaves
<1>2. SourceRead'
  <2>1. Familiar(source)' <=> Familiar(source)
    BY <1>1, Zenon DEF Familiar
  <2>2. TRUE \in BOOLEAN
    OBVIOUS
  <2> QED BY <1>1, <2>1, <2>2, Zenon DEF StreamInv, SourceRead
<1> QED BY <1>1, <1>2, Zenon DEF StreamInv, Protocols

-----------------------------------------------------------------------------
(* The stream of a request *)

\* A stream that is not touched stays as it is.
LEMMA StreamStutters ==
    ASSUME UNCHANGED streamVars
    PROVE  /\ Protocols => Protocols'
           /\ StreamInv => StreamInv'
           /\ StreamStart => StreamStart'
BY Zenon DEF streamVars, Protocols, StreamInv, StreamStart, SourceRead, Familiar, ClientReads,
   Passthrough, PassedOn, Coming, Tracked, Calling, Complete, Silent, Heard, StopOf, Abreast,
   LastStop

\* Every step of a stream.
LEMMA StreamStep ==
    ASSUME Protocols, StreamInv, StreamNext PROVE Protocols' /\ StreamInv'
<1>1. CASE OpenAIPayload
  BY <1>1, OpenAISends, PayloadKeeps
<1>2. CASE AnthropicPayload
  <2>1. SourceRead
    BY DEF StreamInv
  <2> QED BY <1>2, <2>1, AnthropicSends, PayloadKeeps
<1>3. CASE GeminiPayload
  BY <1>3, GeminiSends, PayloadKeeps
<1>4. CASE DoneMarker
  BY <1>4, DoneMarkerKeeps
<1>5. CASE EndOfStream
  BY <1>5, EndOfStreamKeeps
<1>6. CASE ClientLeaves
  BY <1>6, ClientLeavesKeeps
<1> QED BY <1>1, <1>2, <1>3, <1>4, <1>5, <1>6 DEF StreamNext

\* A stream that has not begun has read nothing.
LEMMA ConduitStarts == Init => ConduitInv
<1> SUFFICES ASSUME Init PROVE ConduitInv
  OBVIOUS
<1>1. Protocols /\ StreamStart
  BY Zenon DEF Init, StreamInit, Protocols, StreamStart
<1>2. phase # "streaming"
  BY Zenon DEF Init
<1> QED BY <1>1, <1>2, Zenon DEF ConduitInv

\* Every step of a request: until it streams, its stream stays at its start.
LEMMA ConduitSteps == ConduitInv /\ [Next]_vars => ConduitInv'
<1> SUFFICES ASSUME ConduitInv, [Next]_vars PROVE ConduitInv'
  OBVIOUS
<1>1. CASE Ask
  <2>1. UNCHANGED streamVars /\ phase # "streaming" /\ phase' # "streaming"
    BY <1>1, Zenon DEF Ask, BuildFor
  <2> QED BY <2>1, StreamStutters, Zenon DEF ConduitInv
<1>2. ASSUME NEW p \in {"openai", "anthropic", "gemini"}, NextChannel(p) PROVE ConduitInv'
  <2>1. /\ UNCHANGED <<down, source, dec, enc, client, clientGone, doneSent, ended, basis>>
        /\ up' = p /\ phase # "streaming" /\ phase' # "streaming"
    BY <1>2, Zenon DEF NextChannel, BuildFor
  <2>2. Protocols'
    BY <1>2, <2>1, Zenon DEF ConduitInv, Protocols
  <2>3. StreamStart'
    BY <2>1, Zenon DEF ConduitInv, StreamStart
  <2> QED BY <2>1, <2>2, <2>3, Zenon DEF ConduitInv
<1>3. CASE JsonResponse
  <2>1. UNCHANGED streamVars /\ phase # "streaming" /\ phase' # "streaming"
    BY <1>3, Zenon DEF JsonResponse
  <2> QED BY <2>1, StreamStutters, Zenon DEF ConduitInv
<1>4. CASE SimpleRelay
  <2>1. UNCHANGED streamVars /\ phase # "streaming" /\ phase' # "streaming"
    BY <1>4, Zenon DEF SimpleRelay
  <2> QED BY <2>1, StreamStutters, Zenon DEF ConduitInv
<1>5. CASE Forward
  <2>1. UNCHANGED streamVars /\ phase # "streaming" /\ phase' # "streaming"
    BY <1>5, Zenon DEF Forward
  <2> QED BY <2>1, StreamStutters, Zenon DEF ConduitInv
<1>6. CASE BeginStream
  <2>1. UNCHANGED streamVars /\ phase # "streaming" /\ phase' = "streaming"
    BY <1>6, Zenon DEF BeginStream
  <2>2. Protocols /\ StreamInv
    BY <2>1, StartReads, Zenon DEF ConduitInv
  <2> QED BY <2>1, <2>2, StreamStutters, Zenon DEF ConduitInv
<1>7. CASE phase = "streaming" /\ StreamNext /\ UNCHANGED <<phase, said, body, sent, whole, bill>>
  <2>1. phase' = phase
    BY <1>7
  <2> QED BY <1>7, <2>1, StreamStep, Zenon DEF ConduitInv
<1>8. CASE UNCHANGED vars
  <2>1. UNCHANGED streamVars /\ phase' = phase
    BY <1>8 DEF vars
  <2> QED BY <2>1, StreamStutters, Zenon DEF ConduitInv
<1> QED BY <1>1, <1>2, <1>3, <1>4, <1>5, <1>6, <1>7, <1>8 DEF Next

\* At every step of every request, its stream is where ConduitInv says.
THEOREM ConduitInvariant == Spec => []ConduitInv
BY ConduitStarts, ConduitSteps, PTL DEF Spec

\* The stream is right in every phase.
LEMMA ConduitReads == ConduitInv => Protocols /\ StreamInv
BY StartReads, Zenon DEF ConduitInv

\* Whatever the upstream sends within its protocol and wherever it breaks off,
\* the client gets a stream its own protocol allows, and its end.
THEOREM StreamsAreWellFormed == Spec => []StreamWellFormed
<1>1. Protocols /\ StreamInv => StreamWellFormed
  <2> SUFFICES ASSUME Protocols, StreamInv PROVE StreamWellFormed
    OBVIOUS
  <2>1. ~client.bad
    BY DEF StreamInv
  <2>2. CASE ~(ended /\ ~clientGone)
    BY <2>1, <2>2 DEF StreamWellFormed
  <2>3. CASE ended /\ ~clientGone /\ ~Passthrough
    <3>1. Complete
      BY <2>3 DEF StreamInv, ClientReads
    <3> QED BY <2>1, <3>1, Zenon DEF StreamWellFormed, Complete, Ended
  <2>4. CASE ended /\ ~clientGone /\ Passthrough
    <3>1. PassedOn
      BY <2>4 DEF StreamInv, ClientReads
    <3>2. CASE down = "openai"
      BY <2>1, <2>4, <3>1, <3>2, Zenon DEF StreamWellFormed, PassedOn
    <3>3. CASE down = "anthropic"
      BY <2>1, <2>4, <3>1, <3>3, Zenon DEF StreamWellFormed, PassedOn, Passthrough
    <3> QED BY <3>2, <3>3 DEF Protocols
  <2> QED BY <2>2, <2>3, <2>4
<1> QED BY <1>1, ConduitReads, ConduitInvariant, PTL

\* A stop reason of Anthropic is what a client reads in the last frame, as far
\* as its protocol can say it.
LEMMA StopSurvives ==
    ASSUME NEW stop \in CanonStops, NEW protocol \in {"openai", "anthropic"}
    PROVE  StopOf(protocol, LastStop(protocol, stop)) \in
              {stop, IF protocol = "openai" /\ stop = "stop_sequence" THEN "end_turn" ELSE stop}
<1>1. CASE protocol = "anthropic"
  BY <1>1, Zenon DEF LastStop, StopOf, CanonStops
<1>2. CASE protocol = "openai"
  <2>1. /\ CanonStopToOpenAI("max_tokens") = "length"
        /\ CanonStopToOpenAI("tool_use") = "tool_calls"
        /\ CanonStopToOpenAI("end_turn") = "stop" /\ CanonStopToOpenAI("stop_sequence") = "stop"
    BY DEF CanonStopToOpenAI
  <2>2. /\ OpenAIFinishToCanon("length") = "max_tokens"
        /\ OpenAIFinishToCanon("tool_calls") = "tool_use"
        /\ OpenAIFinishToCanon("stop") = "end_turn"
    BY DEF OpenAIFinishToCanon
  <2>3. /\ StopOf("openai", "length") = "max_tokens" /\ StopOf("openai", "tool_calls") = "tool_use"
        /\ StopOf("openai", "stop") = "end_turn"
    BY <2>2, Zenon DEF StopOf
  <2>4. LastStop(protocol, stop) = CanonStopToOpenAI(stop)
    BY <1>2 DEF LastStop
  <2> HIDE DEF CanonStopToOpenAI
  <2> QED BY <1>2, <2>1, <2>3, <2>4, Zenon DEF CanonStops
<1> QED BY <1>1, <1>2

\* One that has not said why it stops was cut off at the end of a turn.
LEMMA SilentEnds ==
    ASSUME Protocols PROVE StopOf(up, "") = "end_turn"
<1>1. OpenAIFinishToCanon("") = "end_turn" /\ GeminiFinishToCanon("") = "end_turn"
  BY Zenon DEF OpenAIFinishToCanon, GeminiFinishToCanon
<1>2. CASE up = "openai"
  <2>1. StopOf("openai", "") = "end_turn"
    BY <1>1, Zenon DEF StopOf
  <2> QED BY <1>2, <2>1, Zenon
<1>3. CASE up = "gemini"
  <2>1. StopOf("gemini", "") = "end_turn"
    BY <1>1, Zenon DEF StopOf
  <2> QED BY <1>3, <2>1, Zenon
<1>4. CASE up = "anthropic"
  <2>1. StopOf("anthropic", "") = "end_turn"
    BY Zenon DEF StopOf
  <2> QED BY <1>4, <2>1, Zenon
<1> QED BY <1>2, <1>3, <1>4, Zenon DEF Protocols

\* Why a source has stopped, in Anthropic's words.
LEMMA SourceStops ==
    ASSUME Protocols, SourceRead PROVE StopOf(up, source.stop) \in CanonStops
<1>1. /\ \A reason : OpenAIFinishToCanon(reason) \in CanonStops
      /\ \A reason : GeminiFinishToCanon(reason) \in CanonStops
  BY Zenon DEF OpenAIFinishToCanon, GeminiFinishToCanon, CanonStops
<1>2. "end_turn" \in CanonStops
  BY Zenon DEF CanonStops
<1>3. CASE source.stop = ""
  BY <1>2, <1>3, SilentEnds, Zenon
<1>4. CASE source.stop # "" /\ up = "openai"
  BY <1>1, <1>4, Zenon DEF StopOf
<1>5. CASE source.stop # "" /\ up = "gemini"
  BY <1>1, <1>5, Zenon DEF StopOf
<1>6. CASE source.stop # "" /\ up = "anthropic"
  <2>1. source.stop \in CanonStops
    BY <1>6, Zenon DEF SourceRead, Familiar
  <2> QED BY <1>6, <2>1, Zenon DEF StopOf
<1> QED BY <1>3, <1>4, <1>5, <1>6, Zenon DEF Protocols

\* An encoder that has heard of none ends as if it was the end of a turn.
LEMMA SilentStop ==
    ASSUME Protocols, NEW s
    PROVE  LastStop(down, Heard(up, s)) = LastStop(down, StopOf(up, s.stop))
<1>1. CASE s.stop # ""
  BY <1>1, Zenon DEF Heard
<1>2. CASE s.stop = ""
  <2>1. Heard(up, s) = "" /\ StopOf(up, s.stop) = "end_turn"
    BY <1>2, SilentEnds, Zenon DEF Heard
  <2>2. CanonStopToOpenAI("") = "stop" /\ CanonStopToOpenAI("end_turn") = "stop"
    BY Zenon DEF CanonStopToOpenAI
  <2>3. LastStop("anthropic", "") = "end_turn" /\ LastStop("anthropic", "end_turn") = "end_turn"
    BY Zenon DEF LastStop
  <2>4. LastStop("openai", "") = "stop" /\ LastStop("openai", "end_turn") = "stop"
    BY <2>2, Zenon DEF LastStop
  <2> QED BY <2>1, <2>3, <2>4, Zenon DEF Protocols
<1> QED BY <1>1, <1>2

\* The client reads the pieces the upstream sent, all of them, in their order and
\* under their tool calls, and why it stopped; usage decides what is settled.
THEOREM NothingIsLost == Spec => []NothingLost
<1>1. Protocols /\ StreamInv => NothingLost
  <2> SUFFICES ASSUME Protocols, StreamInv PROVE NothingLost
    OBVIOUS
  <2> DEFINE stopped == StopOf(up, source.stop)
             Said == client.stop # "" =>
                        StopOf(down, client.stop) \in
                           {stopped, IF down = "openai" /\ stopped = "stop_sequence" THEN "end_turn"
                                     ELSE stopped}
  <2>1. SourceRead
    BY DEF StreamInv
  <2>2. ended => basis = IF source.usage = "none" THEN "estimate" ELSE source.usage
    BY <2>1, Zenon DEF SourceRead
  <2>3. ASSUME ~clientGone PROVE client.content = source.content
    <3>1. ClientReads
      BY <2>3 DEF StreamInv
    <3>2. CASE Passthrough
      BY <3>1, <3>2, Zenon DEF ClientReads, PassedOn
    <3>3. CASE ~Passthrough /\ (doneSent \/ ended)
      BY <3>1, <3>3, Zenon DEF ClientReads, Complete, Ended
    <3>4. CASE ~Passthrough /\ ~(doneSent \/ ended)
      BY <3>1, <3>4, Zenon DEF ClientReads, Coming, Abreast, OpenAIFollows, AnthropicFollows, Following
    <3> QED BY <3>2, <3>3, <3>4
  <2>4. ASSUME ended, ~clientGone PROVE Said
    <3>1. ClientReads
      BY <2>4 DEF StreamInv
    <3>2. CASE Passthrough
      <4>1. client.stop = source.stop
        BY <2>4, <3>1, <3>2, Zenon DEF ClientReads, PassedOn
      <4>2. StopOf(down, client.stop) = stopped
        BY <3>2, <4>1, Zenon DEF Passthrough
      <4> QED BY <4>2, Zenon
    <3>3. CASE ~Passthrough
      <4>1. client.stop = LastStop(down, Heard(up, source))
        BY <2>4, <3>1, <3>3, Zenon DEF ClientReads, Complete, Ended
      <4>2. stopped \in CanonStops
        BY <2>1, SourceStops
      <4>3. LastStop(down, Heard(up, source)) = LastStop(down, stopped)
        BY <4>2, SilentStop
      <4>4. StopOf(down, LastStop(down, stopped)) \in
               {stopped, IF down = "openai" /\ stopped = "stop_sequence" THEN "end_turn"
                                     ELSE stopped}
        <5> HIDE DEF stopped
        <5> QED BY <4>2, StopSurvives DEF Protocols
      <4> QED BY <4>1, <4>3, <4>4, Zenon
    <3> QED BY <3>2, <3>3
  <2> QED BY <2>2, <2>3, <2>4, Zenon DEF NothingLost
<1> QED BY <1>1, ConduitReads, ConduitInvariant, PTL
================================================================================
