-------------------------------- MODULE Pricing --------------------------------
(***************************************************************************)
(* packages/shared/src/pricing.ts: what quoteRequest charges for a prompt   *)
(* and an output budget.  A cost is counted in tokens times price, and one  *)
(* atomic unit of the settlement asset buys UNIT/100 of it.  The code       *)
(* counts in doubles, whose error is taken to be less than 1/UNIT of a      *)
(* unit: it shows only where the exact amount is a whole number of units,   *)
(* which the double may exceed, and Math.ceil with it.                      *)
(***************************************************************************)
EXTENDS Integers

CONSTANTS
    MARGIN,      \* gateway margin over the provider's cost, in percent
    UNIT,        \* hundredths of cost that one atomic unit of the asset is worth
    MIN_CHARGE   \* MIN_CHARGE_USD in atomic units

ASSUME MarginAssumption == MARGIN \in Nat
ASSUME UnitAssumption == UNIT \in Nat \ {0}
ASSUME MinChargeAssumption == MIN_CHARGE \in Nat \ {0}

\* A ModelSpec, as far as its price depends on it.  Its numbers come from text
\* records and toInt lets any finite number through, negative ones too.
ModelSpec == [inputPrice : Int, outputPrice : Int, maxOutput : Int, reasoning : BOOLEAN]

Least(a, b) == IF a <= b THEN a ELSE b
Greatest(a, b) == IF a >= b THEN a ELSE b

\* REASONING_ALLOWANCE thinking tokens per visible one, for a reasoning model.
ThinkingShare(model) == IF model.reasoning THEN 1 ELSE 0

Visible(model, requested) ==
    Greatest(1, Least(requested, model.maxOutput \div (1 + ThinkingShare(model))))

Thinking(model, requested) == Visible(model, requested) * ThinkingShare(model)
MaxOutput(model, requested) == Visible(model, requested) + Thinking(model, requested)

ProviderCost(model, input, output) ==
    input * model.inputPrice + output * model.outputPrice

\* Mutant: rounding to the atomic unit below.
ToAtomicRoundedDown(x, drift) == IF x <= 0 THEN 0 ELSE x \div UNIT

\* usdToAssetAtomic rounds up, and yields nothing for a cost that is not
\* positive.  With drift, the double stands above the amount it stands for.
ToAtomic(x, drift) ==
    IF x < 0 THEN 0
    ELSE (x - 1) \div UNIT + 1 + (IF drift /\ x % UNIT = 0 THEN 1 ELSE 0)

QuoteRequest(model, input, requested, drift) ==
    LET cost == ProviderCost(model, input, MaxOutput(model, requested))
    IN  [visible   |-> Visible(model, requested),
         maxOutput |-> MaxOutput(model, requested),
         cost      |-> cost,
         amount    |-> Greatest(ToAtomic(cost * (100 + MARGIN), drift), MIN_CHARGE)]
-----------------------------------------------------------------------------
\* What quoteRequest promises of a quote, reasoning budget included, however its
\* doubles fall: it covers the provider's cost with the margin (pricing.ts:60-62)
\* by at most one atomic unit more than that, or is the minimum charge; the
\* caller gets no more visible output than it asked for, and the provider is
\* asked for no more than the model emits, if that leaves room for one token of
\* each kind.
SoundQuote(model, input, requested) ==
    \A drift \in BOOLEAN :
        LET q == QuoteRequest(model, input, requested, drift)
            due == q.cost * (100 + MARGIN)
        IN  /\ q.amount >= MIN_CHARGE
            /\ q.amount * UNIT >= due
            /\ q.amount > MIN_CHARGE => (q.amount - 1) * UNIT <= due
            /\ q.visible <= requested
            /\ model.maxOutput >= 1 + ThinkingShare(model) => q.maxOutput <= model.maxOutput
===============================================================================
