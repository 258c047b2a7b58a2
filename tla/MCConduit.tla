------------------------------ MODULE MCConduit ------------------------------
(***************************************************************************)
(* Every pair of protocols: conversations of up to three turns, each       *)
(* option and pair of options, answers of up to three parts, streams of up *)
(* to MaxPieces pieces, and small prices that divide badly.                *)
(***************************************************************************)
EXTENDS Conduit, TLC

\* Turn t of a conversation.
Result(n, of, err) == [kind |-> "result", n |-> n, of |-> of, err |-> err]
Turn(kind, t) ==
    LET by(who, kinds) ==
            [who |-> who, parts |-> [i \in DOMAIN kinds |-> Part(kinds[i], <<t, i>>)]]
    IN  CASE kind = "system" -> by("system", <<"text">>)
          [] kind = "ask" -> by("user", <<"text">>)
          [] kind = "show" -> by("user", <<"text", "image">>)
          [] kind = "point" -> by("user", <<"link", "text">>)
          [] kind = "say" -> by("assistant", <<"text">>)
          [] kind = "ponder" -> by("assistant", <<"thinking", "text">>)
          [] kind = "call" -> by("assistant", <<"text", "call", "call">>)
          [] kind = "results" ->
                [who |-> "user", parts |-> <<Result(<<t, 1>>, <<t - 1, 2>>, FALSE),
                                             Result(<<t, 2>>, <<t - 1, 3>>, TRUE),
                                             Part("text", <<t, 3>>)>>]

Kinds == {"system", "ask", "show", "point", "say", "ponder", "call", "results"}
MCConversations ==
    {[t \in DOMAIN kinds |-> Turn(kinds[t], t)] :
        kinds \in {k \in UNION {[1..n -> Kinds] : n \in 1..3} :
                     \A t \in DOMAIN k : k[t] = "results" => t > 1 /\ k[t - 1] = "call"}}

\* A client of Anthropic sends no address of an image, one of OpenAI no thinking.
Speaks(protocol, c) ==
    \A t \in DOMAIN c : \A i \in DOMAIN c[t].parts :
        c[t].parts[i].kind \in Sayable(protocol, c[t].who)

Values(protocol, name) ==
    CASE name = "effort" -> {"low", "medium", "high"}
      [] name = "thinking" -> {0, 7, 8, 23, 24}
      [] name = "response_format" -> {"json_schema", "json_object", "text"}
      [] name = "tool_choice" -> {"auto", "required", "none", "tool"}
      [] OTHER -> {"set"}
Names(protocol) ==
    {"max_tokens", "temperature", "top_p", "top_k", "user", "stop", "tools", "tool_choice"}
      \cup (IF protocol = "openai" THEN {"seed", "logprobs", "response_format", "effort"}
            ELSE {"thinking", "serial"})
MCOptions(protocol) ==
    UNION {{(x :> v) @@ (y :> w) : v \in Values(protocol, x), w \in Values(protocol, y)} :
             x, y \in Names(protocol)}

MCPrompts(protocol) ==
    {[conversation |-> c, options |-> <<>>] : c \in {d \in MCConversations : Speaks(protocol, d)}}
      \cup {[conversation |-> <<Turn("ask", 1)>>, options |-> o] : o \in
              {p \in MCOptions(protocol) : "serial" \in DOMAIN p => "tool_choice" \in DOMAIN p}}

\* Answers
AnswerKinds(protocol) ==
    IF protocol = "openai" THEN {<<>>, <<"text">>, <<"call">>, <<"text", "call", "call">>}
    ELSE UNION {[1..n -> {"text", "call", "thinking"}] : n \in 0..3}
MCAnswers(protocol) ==
    {[parts |-> [i \in DOMAIN kinds |-> Part(kinds[i], <<1, i>>)], stop |-> s] :
        kinds \in AnswerKinds(protocol), s \in FinishReasons(protocol)}

Tokens(p, c, w, o, ai, ao) ==
    [prompt |-> p, cached |-> c, written |-> w, output |-> o, audioIn |-> ai, audioOut |-> ao]
MCUsages(protocol) ==
    {Tokens(p, c, w, o, ai, ao) : p \in {0, 7, 31}, c \in {0, 3}, o \in {0, 1, 12},
        w \in (IF protocol = "anthropic" THEN {0, 5} ELSE {0}),
        ai \in (IF protocol = "openai" THEN {0, 4} ELSE {0}),
        ao \in (IF protocol = "openai" THEN {0, 1} ELSE {0})}

Price(in, out) == [input |-> in, output |-> out, cacheRead |-> 1, cacheWrite |-> in + 1,
                   audioIn |-> out, audioOut |-> in, perCall |-> out]
MCListings == {[dollars |-> Price(p[1], p[2]), rate |-> r, markup |-> k] :
                 p \in {<<1, 2>>, <<3, 7>>, <<40, 90>>}, r \in {1, 3, 25}, k \in {10, 13}}

MCMoments == {<<1, 0>>, <<1, 5>>, <<2, 5>>, <<1, 9>>}
Rule(days, start, end, multiplier, enabled) ==
    [days |-> days, start |-> start, end |-> end, multiplier |-> multiplier, enabled |-> enabled]
MCPeakRules == <<Rule({1}, 0, 9, 15, TRUE), Rule({1, 2}, 5, 6, 12, TRUE), Rule({2}, 0, 9, 30, FALSE)>>

MCReplies(protocol) ==
    LET reply(a, u, l, m) == [answer |-> a, usage |-> u, listing |-> l, moment |-> m]
        plain == [parts |-> <<Part("text", <<1, 1>>)>>, stop |-> CHOOSE s \in FinishReasons(protocol) : TRUE]
        some == CHOOSE l \in MCListings : l.rate = 3
    IN  {reply(a, Tokens(7, 3, 0, 1, 0, 0), some, <<1, 5>>) : a \in MCAnswers(protocol)}
          \cup {reply(plain, u, l, m) : l \in MCListings, m \in MCMoments,
                    u \in {v \in MCUsages(protocol) : CountedWithin(protocol, v)}}
=============================================================================
