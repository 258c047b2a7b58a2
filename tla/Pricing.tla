------------------------------- MODULE Pricing -------------------------------
(***************************************************************************)
(* What a request costs: integer arithmetic that rounds up once and stops  *)
(* at the largest credit amount, prices listed from a provider's dollars,  *)
(* the multiplier of peak hours, and the operator's own cost.              *)
(***************************************************************************)
EXTENDS Integers, Sequences, SequencesExt

CONSTANTS
    TokensPerUnit,      \* tokens a price is for
    Percent,            \* 100 percent, the multiplier without a peak
    MicroDenom,         \* microUSDRatioDenom
    MaxCredits          \* the largest amount, math.MaxInt64

ASSUME PricingAssumption ==
    {TokensPerUnit, Percent, MicroDenom, MaxCredits} \subseteq Nat \ {0}

AddMul(tokens, price) == IF tokens <= 0 \/ price <= 0 THEN 0 ELSE tokens * price

\* Mutant: the remainder is cut off.
FloorBigDiv(num, den) == IF num <= 0 \/ den <= 0 THEN 0 ELSE num \div den

CeilBigDiv(num, den) ==
    IF num <= 0 \/ den <= 0 THEN 0
    ELSE LET quo == num \div den + (IF num % den = 0 THEN 0 ELSE 1)
         IN  IF quo > MaxCredits THEN MaxCredits ELSE quo

AtLeastBase(multiplier) == IF multiplier < Percent THEN Percent ELSE multiplier

CalcTokenCredits(u, p, multiplier) ==
    LET num == AddMul(u.base, p.input) + AddMul(u.cached, p.cacheRead)
                 + AddMul(u.written, p.cacheWrite) + AddMul(u.output, p.output)
                 + AddMul(u.audioIn, p.audioIn) + AddMul(u.audioOut, p.audioOut)
    IN  CeilBigDiv(num * AtLeastBase(multiplier), Percent * TokensPerUnit)

CalcPerCallCredits(count, p, multiplier) ==
    CeilBigDiv(AddMul(count, p.perCall) * AtLeastBase(multiplier), Percent)

\* rate: exchange rate times credits for a unit of the local currency
ConvertMicroUSDToCredits(usdMicro, rate) == CeilBigDiv(AddMul(usdMicro, rate), MicroDenom)

ConvertUSDToCredits(microUSD, rate, markup) ==
    IF markup <= 0 THEN 0
    ELSE CeilBigDiv(AddMul(microUSD, rate) * markup, MicroDenom * Percent)

\* A preset's dollar prices as the prices of a model.
ListedPrice(dollars, rate, markup) ==
    [x \in DOMAIN dollars |-> ConvertUSDToCredits(dollars[x], rate, markup)]

\* Whether a rule applies, at a minute of a day of the week.
Applies(r, day, minute) ==
    r.enabled /\ day \in r.days /\ minute >= r.start /\ minute < r.end

\* Of the rules that apply the highest.
EvaluatePeakMultiplier(rules, day, minute) ==
    LET rates == [i \in DOMAIN rules |->
                    IF Applies(rules[i], day, minute) THEN rules[i].multiplier ELSE Percent]
    IN  FoldLeft(LAMBDA best, m : IF m > best THEN m ELSE best, Percent, rates)

\* The operator's cost, of calls or of tokens; channels have no audio prices.
ComputeCostCredits(calls, u, p, dollars, rate) ==
    LET priced == [p EXCEPT !.audioIn = 0, !.audioOut = 0]
        amount == IF calls > 0 THEN CalcPerCallCredits(calls, priced, Percent)
                  ELSE CalcTokenCredits(u, priced, Percent)
    IN  IF dollars THEN ConvertMicroUSDToCredits(amount, rate) ELSE amount
=============================================================================
