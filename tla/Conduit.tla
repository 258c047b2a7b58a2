------------------------------- MODULE Conduit -------------------------------
(***************************************************************************)
(* A chat request relayed between protocols: its body is built for one     *)
(* channel after the other, and the answer comes whole or as a stream.     *)
(* Beside it, requests that are paid by the call.                          *)
(***************************************************************************)
EXTENDS StreamConversion, Pricing

CONSTANTS
    Prompts(_),         \* conversations and options of a client
    Replies(_),         \* whole answers of an upstream, with usage, listing and moment
    Listings,           \* a provider's prices in micro-dollars, rate and markup
    PeakRules,          \* rules of the model
    Moments,            \* day and minute of a request
    CallCounts          \* calls asked for, images returned

\* Prices are not negative and listed at the provider's or above
\* (minMarkupPercent); rules hold from one minute of a day to another.
PriceNames == {"input", "cacheRead", "cacheWrite", "output", "audioIn", "audioOut", "perCall"}
Listing == [dollars : [PriceNames -> Nat], rate : Nat, markup : {m \in Nat : m >= Percent}]
PeakRule == [days : SUBSET Nat, start : Int, end : Int, multiplier : Int, enabled : BOOLEAN]

ASSUME PricesAssumption ==
    /\ CallCounts \subseteq Nat /\ Listings \subseteq Listing /\ Moments \subseteq Nat \X Int
    /\ PeakRules \in Seq(PeakRule)

\* A conversation: what each side can say in a protocol. Failure is of results.
Sides == {"system", "user", "assistant"}
Parts == [kind : {"text", "image", "link", "call", "result", "thinking"}, n : Nat \X Nat,
          of : Nat \X Nat, err : BOOLEAN]
Sayable(protocol, who) ==
    CASE who = "system" -> {"text"}
      [] who = "user" -> {"text", "image", "result"}
                           \cup (IF protocol = "openai" THEN {"link"} ELSE {})
      [] who = "assistant" -> {"text", "call"}
                                \cup (IF protocol = "anthropic" THEN {"thinking"} ELSE {})
Conversation(conversation, protocol) ==
    \A t \in DOMAIN conversation : \A i \in DOMAIN conversation[t].parts :
        LET p == conversation[t].parts[i]
        IN  /\ p.n = <<t, i>> /\ p.kind \in Sayable(protocol, conversation[t].who)
            /\ p.kind # "result" => p.of = NoPart /\ ~p.err

ASSUME PromptsAssumption ==
    \A protocol \in {"openai", "anthropic"} : \A prompt \in Prompts(protocol) :
        LET names == DOMAIN prompt.options
        IN  /\ prompt.conversation \in Seq([who : Sides, parts : Seq(Parts)])
            /\ Conversation(prompt.conversation, protocol)
            /\ {"model", "override"} \cap names = {}
            /\ "thinking" \in names => protocol = "anthropic"
            /\ "effort" \in names =>
                  protocol = "openai" /\ prompt.options["effort"] \in {"low", "medium", "high"}

\* An upstream counts cached and audio tokens among the others.
Usage == [{"prompt", "cached", "written", "output", "audioIn", "audioOut"} -> Nat]
CountedWithin(protocol, u) ==
    protocol = "anthropic" \/ (u.cached + u.audioIn <= u.prompt /\ u.audioOut <= u.output)

ASSUME RepliesAssumption ==
    \A p \in {"openai", "anthropic", "gemini"} : \A r \in Replies(p) :
        /\ r.listing \in Listings /\ r.moment \in Moments
        /\ r.usage \in Usage /\ CountedWithin(p, r.usage)
        /\ r.answer \in [parts : Seq({part \in Parts : part.kind \in {"text", "call", "thinking"}}),
                         stop : FinishReasons(p)]

VARIABLES
    phase,          \* new, built, refused, forwarded, streaming, answered
    said,           \* the client's conversation and options
    body,           \* the client's body as the relay keeps it
    sent,           \* the body built last
    whole,          \* an answer and what the client got for it
    bill            \* what it was charged and what it cost

vars == <<streamVars, phase, said, body, sent, whole, bill>>

NoPrompt == [conversation |-> <<>>, options |-> <<>>]
NoBody == [system |-> <<>>, messages |-> <<>>, options |-> <<>>]
NoTokens == [base |-> 0, cached |-> 0, written |-> 0, output |-> 0, audioIn |-> 0, audioOut |-> 0]
NoAnswer == [sent |-> [parts |-> <<>>, stop |-> ""], got |-> [parts |-> <<>>, stop |-> ""],
             reported |-> <<>>, settled |-> NoTokens]
NoBill == [charge |-> 0, cost |-> 0, multiplier |-> Percent, moment |-> <<0, 0>>, rate |-> 0,
           saturated |-> FALSE]

Init ==
    /\ StreamInit
    /\ phase = "new" /\ said = NoPrompt /\ body = NoBody /\ sent = NoBody
    /\ whole = NoAnswer /\ bill = NoBill

\* Mutant: where the protocols agree the body is changed in place.
BodyAfter(kept, built) == IF up' = down /\ built # Refused THEN built ELSE kept

\* What is kept of a body that "built" was made from: a channel works on a copy.
CopyBody(kept, built) == kept

\* The body is built for a channel: of one that cannot say it, it is refused.
BuildFor(kept) ==
    /\ sent' = BuildRequest(down, up', kept)
    /\ body' = CopyBody(kept, sent')
    /\ phase' = IF sent' = Refused THEN "refused" ELSE "built"

\* The request arrives and is tried on the first channel.
Ask ==
    /\ phase = "new"
    /\ said' \in Prompts(down)
    /\ UNCHANGED <<streamVars, whole, bill>>
    /\ BuildFor(ClientBody(down, said'.conversation, said'.options))

\* The channel fails and one of another protocol is tried.
NextChannel(protocol) ==
    /\ phase = "built" /\ protocol # up /\ up' = protocol
    /\ UNCHANGED <<down, source, dec, enc, client, clientGone, doneSent, ended, basis,
                   said, whole, bill>>
    /\ BuildFor(body)

\* An answer without usage is charged by its length, in bytes.
EstimateTokensFromText(bytes) == IF bytes > 0 /\ bytes < 4 THEN 1 ELSE bytes \div 4

UsageOf(answer, usage) ==
    LET u == NormalizeUsage(up, usage)
    IN  IF u # NoTokens THEN u
        ELSE [NoTokens EXCEPT !.base = EstimateTokensFromText(2),
                              !.output = EstimateTokensFromText(6 * Len(answer.parts))]

\* settleAndLog: the charge, by the call or by the token, and what the channel
\* costs in dollars.
Bill(calls, u, listing, moment) ==
    LET price == ListedPrice(listing.dollars, listing.rate, listing.markup)
        multiplier == EvaluatePeakMultiplier(PeakRules, moment[1], moment[2])
    IN  [charge |-> IF u = NoTokens THEN CalcPerCallCredits(calls, price, multiplier)
                    ELSE CalcTokenCredits(u, price, multiplier),
         cost |-> ComputeCostCredits(calls, u, listing.dollars, TRUE, listing.rate),
         multiplier |-> multiplier, moment |-> moment, rate |-> listing.rate,
         saturated |-> \E x \in DOMAIN price : price[x] = MaxCredits]

\* The channel accepts the body: its answer depends on the protocols only, and
\* the request is forgotten.
Forward ==
    /\ phase = "built" /\ phase' = "forwarded"
    /\ said' = NoPrompt /\ body' = NoBody /\ sent' = NoBody
    /\ UNCHANGED <<streamVars, whole, bill>>

\* jsonResponse
JsonResponse ==
    /\ phase = "forwarded"
    /\ phase' = "answered"
    /\ \E r \in Replies(up) :
          /\ whole' = [sent |-> r.answer, got |-> TransformResponse(down, up, r.answer),
                       reported |-> r.usage, settled |-> UsageOf(r.answer, r.usage)]
          /\ bill' = Bill(0, whole'.settled, r.listing, r.moment)
    /\ UNCHANGED <<streamVars, said, body, sent>>

\* streamResponse begins.
BeginStream ==
    /\ phase = "forwarded" /\ phase' = "streaming"
    /\ UNCHANGED <<streamVars, said, body, sent, whole, bill>>

\* Images: as many calls as asked for, or as were returned if they were fewer.
BilledCalls(asked, returned) == IF returned < asked THEN returned ELSE asked

SimpleRelay ==
    /\ phase = "new" /\ up = "openai" /\ down = "openai"
    /\ phase' = "answered"
    /\ \E asked, returned \in CallCounts, listing \in Listings, moment \in Moments :
          /\ ListedPrice(listing.dollars, listing.rate, listing.markup).perCall > 0
          /\ LET calls == BilledCalls(asked, returned)
             IN  bill' = Bill(calls, NoTokens, listing, moment)
    /\ UNCHANGED <<streamVars, said, body, sent, whole>>

Next ==
    \/ Ask
    \/ \E p \in {"openai", "anthropic", "gemini"} : NextChannel(p)
    \/ JsonResponse
    \/ SimpleRelay
    \/ Forward
    \/ BeginStream
    \/ phase = "streaming" /\ StreamNext /\ UNCHANGED <<phase, said, body, sent, whole, bill>>

Spec == Init /\ [][Next]_vars

-----------------------------------------------------------------------------
(* Properties *)

\* What an upstream reads in a body: who said which part.
Flow(protocol, built) ==
    LET who(role) == CASE role = "tool" -> "user" [] role = "model" -> "assistant"
                       [] OTHER -> role
        by(role, parts) == [i \in DOMAIN parts |-> [who |-> who(role), part |-> parts[i]]]
    IN  IF protocol = "openai"
        THEN Concat(LAMBDA m : by(m.role, m.content \o m.calls), built.messages)
        ELSE by("system", built.system)
               \o Concat(LAMBDA m : by(m.role, m.content), built.messages)

\* What was said, as far as the upstream's protocol lets it be said: only
\* Anthropic marks failed results, only OpenAI takes an image's address,
\* Gemini's results do not name their call, and thinking stays with Anthropic.
Expected(x) ==
    LET p == x.part
        kind == IF p.kind = "link" /\ up # "openai" THEN "blank" ELSE p.kind
    IN  [x EXCEPT !.part = [p EXCEPT !.kind = kind, !.err = p.err /\ {up, down} = {"anthropic"},
                                     !.of = IF up = "gemini" THEN NoPart ELSE @]]

Spoken == Concat(LAMBDA t : [i \in DOMAIN t.parts |-> [who |-> t.who, part |-> t.parts[i]]],
                 said.conversation)

\* The system's parts come first, turns stay in order, and parts of one kind
\* within them.
InOrder(x, y) ==
    LET turn(z) == z.part.n[1]
        place(z) == z.part.n[2]
    IN  \/ x.who = "system" /\ y.who # "system"
        \/ /\ x.who = "system" <=> y.who = "system"
           /\ \/ turn(x) < turn(y)
              \/ turn(x) = turn(y) /\ (x.part.kind = y.part.kind => place(x) < place(y))

\* An option keeps its value; a reasoning budget keeps its level.
SameOption(name, options) ==
    LET effort(o) == IF "effort" \in DOMAIN o THEN o["effort"]
                     ELSE BudgetToReasoningEffort(o["thinking"])
    IN  IF name \in {"effort", "thinking"}
        THEN {"effort", "thinking"} \cap DOMAIN options # {} /\ effort(options) = effort(said.options)
        ELSE name \in DOMAIN options /\ options[name] = said.options[name]

RequestKept ==
    LET got == Flow(up, sent)
        meant == {x \in ToSet(Spoken) : Passthrough \/ x.part.kind # "thinking"}
    IN  /\ ToSet(got) = {Expected(x) : x \in meant}
        /\ \A i, j \in DOMAIN got : i < j => Passthrough \/ InOrder(got[i], got[j])
        /\ \A o \in DOMAIN said.options :
              SameOption(o, sent.options) \/ (up = "gemini" /\ o \in {"user", "tool_choice"})
                \/ (up = "gemini" /\ o = "response_format" /\ said.options[o] = "text")
        /\ \A o \in {"model", "override"} \cap DOMAIN sent.options :
              up # "gemini" /\ sent.options[o] = up

\* The stop reason of a whole answer in canonical terms.
StopMeant(protocol, answer) ==
    IF protocol = "gemini" /\ OfKinds(answer.parts, {"call"}) # <<>> THEN "tool_use"
    ELSE StopOf(protocol, answer.stop)

\* Thoughts of Gemini come as text as well, before themselves.
AnswerKept ==
    LET visible == IF up = "gemini" THEN {"text", "thinking"} ELSE {"text"}
        numbers(parts, kinds) == Concat(LAMBDA p : <<p.n>>, OfKinds(parts, kinds))
        stop == StopMeant(up, whole.sent)
        u == whole.reported
        s == whole.settled
    IN  /\ numbers(whole.got.parts, {"text"}) = numbers(whole.sent.parts, visible)
        /\ numbers(whole.got.parts, {"call"}) = numbers(whole.sent.parts, {"call"})
        /\ StopOf(down, whole.got.stop) = IF down = "openai" /\ stop = "stop_sequence"
                                          THEN "end_turn" ELSE stop
        /\ u.prompt + u.output > 0 =>
              s.base + s.cached + s.written + s.output + s.audioIn + s.audioOut =
                u.prompt + u.output + (IF up = "anthropic" THEN u.cached + u.written ELSE 0)

\* A body built for a channel, also for the second or third after channels of
\* other protocols, says what the client said: every part, by the same side,
\* turn by turn, and every option, or it is refused; and nothing of the
\* parameters of another channel that was tried before. An answer
\* comes back with its text, its calls and its reason, and is settled for every
\* token the upstream counted.
MeaningKept ==
    /\ phase = "built" => RequestKept
    /\ phase = "answered" /\ whole # NoAnswer => AnswerKept

\* The operator does not lose by rounding: listed at the provider's price or
\* above, a request is charged what its channel costs, but for the micro-dollar
\* its cost was rounded up to; and at the highest rate of the hour.
PricesCover ==
    LET hour == {PeakRules[i] : i \in {j \in DOMAIN PeakRules :
                    /\ PeakRules[j].enabled /\ bill.moment[1] \in PeakRules[j].days
                    /\ bill.moment[2] \in PeakRules[j].start .. PeakRules[j].end - 1}}
        all == {Percent} \cup {r.multiplier : r \in hour}
    IN  bill # NoBill =>
          /\ bill.multiplier \in all /\ \A x \in all : x <= bill.multiplier
          /\ bill.saturated \/ bill.cost <= bill.charge + ConvertMicroUSDToCredits(1, bill.rate)
=============================================================================
