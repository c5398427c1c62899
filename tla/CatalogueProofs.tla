---------------------------- MODULE CatalogueProofs ----------------------------
(***************************************************************************)
(* Every quote, and the safety properties of CatalogueProps, for every list *)
(* of models, every split of the reads and all bounds.  Actions fall into   *)
(* three groups: those of the chain, of the script and of the gateway; each *)
(* group leaves two of the three parts of the state alone.                  *)
(***************************************************************************)
EXTENDS CatalogueProps, SequenceTheorems, TLAPS
-----------------------------------------------------------------------------
(* Pricing: every quote is sound, whatever the margin and the asset's unit *)

\* usdToAssetAtomic yields a number of units that covers the amount, and at most
\* one more than it takes.
LEMMA ToAtomicCovers ==
    ASSUME NEW x \in Int, NEW drift \in BOOLEAN
    PROVE  /\ ToAtomic(x, drift) \in Nat
           /\ ToAtomic(x, drift) * UNIT >= x
           /\ ToAtomic(x, drift) > 0 => (ToAtomic(x, drift) - 1) * UNIT <= x
<1>1. CASE x < 0
  <2>1. ToAtomic(x, drift) = 0
    BY <1>1 DEF ToAtomic
  <2>2. 0 * UNIT = 0
    BY UnitAssumption
  <2> QED
    BY <1>1, <2>1, <2>2
<1>2. CASE x >= 0
  <2> DEFINE q == (x - 1) \div UNIT
             extra == IF drift /\ x % UNIT = 0 THEN 1 ELSE 0
  <2>1. ToAtomic(x, drift) = q + 1 + extra
    BY <1>2 DEF ToAtomic
  <2>2. q \in Int /\ q + 1 \in Nat /\ q * UNIT <= x - 1 /\ x - 1 < q * UNIT + UNIT
    BY <1>2, UnitAssumption, Z3
  <2>3. (q + 1) * UNIT = q * UNIT + UNIT /\ (q + 2) * UNIT = q * UNIT + UNIT + UNIT
    BY <2>2, UnitAssumption, Z3
  <2>4. extra \in {0, 1} /\ (extra = 1 => x % UNIT = 0)
    OBVIOUS
  <2>5. x % UNIT = 0 => (q + 1) * UNIT = x
    <3> DEFINE d == x \div UNIT
    <3>1. SUFFICES ASSUME x % UNIT = 0 PROVE (q + 1) * UNIT = x
      OBVIOUS
    <3>2. d \in Int /\ x = d * UNIT
      BY <1>2, <3>1, UnitAssumption, Z3
    <3> HIDE DEF d, q
    <3>3. q * UNIT < d * UNIT /\ d * UNIT <= (q + 1) * UNIT
      BY <2>2, <2>3, <3>2, UnitAssumption, Z3
    <3>4. d = q + 1
      BY <2>2, <3>2, <3>3, UnitAssumption, Z3
    <3> QED
      BY <3>2, <3>4
  <2> HIDE DEF q, extra
  <2>6. q * UNIT \in Int /\ UNIT \in Nat /\ (q + 1) * UNIT \in Int
    BY <2>2, UnitAssumption
  <2>7. CASE extra = 0
    <3>1. ToAtomic(x, drift) = q + 1 /\ (q + 1) - 1 = q
      BY <2>1, <2>2, <2>7
    <3> QED
      BY <2>2, <2>3, <2>6, <3>1
  <2>8. CASE extra = 1
    <3>1. ToAtomic(x, drift) = q + 2 /\ (q + 2) - 1 = q + 1
      BY <2>1, <2>2, <2>8
    <3>2. (q + 1) * UNIT = x
      BY <2>4, <2>5, <2>8
    <3> QED
      BY <2>2, <2>3, <2>6, <3>1, <3>2
  <2> QED
    BY <2>4, <2>7, <2>8
<1> QED
  BY <1>1, <1>2

\* The output budget: no more visible tokens than asked for, and no more tokens
\* in all than the model emits, if it emits one of each kind.
LEMMA BudgetFits ==
    ASSUME NEW model \in ModelSpec, NEW requested \in Nat \ {0}
    PROVE  /\ MaxOutput(model, requested) \in Nat \ {0}
           /\ Visible(model, requested) <= requested
           /\ model.maxOutput >= 1 + ThinkingShare(model)
                => MaxOutput(model, requested) <= model.maxOutput
<1>1. model.maxOutput \in Int /\ model.reasoning \in BOOLEAN
  BY DEF ModelSpec
<1>2. CASE model.reasoning
  <2> DEFINE half == model.maxOutput \div 2
  <2>1. half \in Int /\ 2 * half <= model.maxOutput /\ (model.maxOutput >= 2 => half >= 1)
    BY <1>1
  <2>2. Visible(model, requested) = Greatest(1, Least(requested, half))
    BY <1>2 DEF Visible, ThinkingShare
  <2>3. MaxOutput(model, requested) = 2 * Visible(model, requested) /\ ThinkingShare(model) = 1
    <3>1. ThinkingShare(model) = 1
      BY <1>2 DEF ThinkingShare
    <3>2. Visible(model, requested) \in Int
      BY <2>1, <2>2 DEF Greatest, Least
    <3> QED
      BY <3>1, <3>2 DEF MaxOutput, Thinking
  <2> HIDE DEF half
  <2> QED
    BY <1>1, <2>1, <2>2, <2>3 DEF Greatest, Least
<1>3. CASE ~model.reasoning
  <2>1. model.maxOutput \div 1 = model.maxOutput
    BY <1>1
  <2>2. ThinkingShare(model) = 0
    BY <1>3 DEF ThinkingShare
  <2>3. Visible(model, requested) = Greatest(1, Least(requested, model.maxOutput))
    BY <2>1, <2>2 DEF Visible
  <2>4. MaxOutput(model, requested) = Visible(model, requested)
    <3>1. Visible(model, requested) \in Int
      BY <1>1, <2>3 DEF Greatest, Least
    <3> QED
      BY <2>2, <3>1 DEF MaxOutput, Thinking
  <2> QED
    BY <1>1, <2>2, <2>3, <2>4 DEF Greatest, Least
<1> QED
  BY <1>1, <1>2, <1>3

\* quoteRequest (pricing.ts:137-177) never under-quotes and never asks the
\* provider for more than the model emits, for any model, prompt and budget.
THEOREM QuoteIsSound ==
    ASSUME NEW model \in ModelSpec, NEW input \in Nat, NEW requested \in Nat \ {0}
    PROVE  SoundQuote(model, input, requested)
<1> SUFFICES ASSUME NEW drift \in BOOLEAN
             PROVE  LET q == QuoteRequest(model, input, requested, drift)
                        due == q.cost * (100 + MARGIN)
                    IN  /\ q.amount >= MIN_CHARGE
                        /\ q.amount * UNIT >= due
                        /\ q.amount > MIN_CHARGE => (q.amount - 1) * UNIT <= due
                        /\ q.visible <= requested
                        /\ model.maxOutput >= 1 + ThinkingShare(model)
                             => q.maxOutput <= model.maxOutput
  BY DEF SoundQuote
<1> DEFINE out == MaxOutput(model, requested)
           cost == ProviderCost(model, input, out)
           due == cost * (100 + MARGIN)
           q == QuoteRequest(model, input, requested, drift)
<1>1. out \in Nat
  BY BudgetFits
<1>2. model.inputPrice \in Int /\ model.outputPrice \in Int
  BY DEF ModelSpec
<1>3. cost \in Int
  BY <1>1, <1>2 DEF ProviderCost
<1>4. due \in Int
  BY <1>3, MarginAssumption
<1>5. /\ q.amount = Greatest(ToAtomic(due, drift), MIN_CHARGE)
      /\ q.cost = cost
      /\ q.visible = Visible(model, requested)
      /\ q.maxOutput = out
  BY DEF QuoteRequest
<1> HIDE DEF out, cost, due, q
<1>6. /\ ToAtomic(due, drift) \in Nat
      /\ ToAtomic(due, drift) * UNIT >= due
      /\ ToAtomic(due, drift) > 0 => (ToAtomic(due, drift) - 1) * UNIT <= due
  BY <1>4, ToAtomicCovers
<1>7. q.amount >= MIN_CHARGE /\ q.amount >= ToAtomic(due, drift) /\ q.amount \in Nat
  BY <1>5, <1>6, MinChargeAssumption DEF Greatest
<1>8. q.amount * UNIT >= due
  <2>1. q.amount * UNIT >= ToAtomic(due, drift) * UNIT
    BY <1>6, <1>7, UnitAssumption, Z3
  <2>2. q.amount * UNIT \in Int /\ ToAtomic(due, drift) * UNIT \in Int
    BY <1>6, <1>7, UnitAssumption
  <2> QED
    BY <1>4, <1>6, <2>1, <2>2
<1>9. q.amount > MIN_CHARGE => (q.amount - 1) * UNIT <= due
  <2>1. q.amount > MIN_CHARGE => q.amount = ToAtomic(due, drift) /\ ToAtomic(due, drift) > 0
    BY <1>5, <1>6, MinChargeAssumption DEF Greatest
  <2> QED
    BY <1>6, <2>1
<1>10. due = q.cost * (100 + MARGIN)
  BY <1>5 DEF due
<1>11. /\ q.visible <= requested
       /\ model.maxOutput >= 1 + ThinkingShare(model) => q.maxOutput <= model.maxOutput
  BY <1>5, BudgetFits DEF out
<1> QED
  BY <1>7, <1>8, <1>9, <1>10, <1>11 DEF q
-----------------------------------------------------------------------------
(* The catalogue's state *)

LEMMA ModelsAreNames ==
    /\ DOMAIN MODELS = 1..Len(MODELS)
    /\ Len(MODELS) \in Nat \ {0}
    /\ \A i \in 1..Len(MODELS) : MODELS[i] \in Names
    /\ \A n \in Names : \E i \in 1..Len(MODELS) : n = MODELS[i]
    /\ \A i, j \in 1..Len(MODELS) : MODELS[i] = MODELS[j] => i = j
BY ModelsAssumption DEF Names

LEMMA UnsetType ==
    Unset \in Records /\ \A n \in Names, k \in AgentRecords : Unset[n][k] = 0
BY BoundsAssumption DEF Unset, Records, Stamps

\* Settled and fresh promises hold nothing read.
LEMMA SettledType ==
    /\ Settled \in RefreshType
    /\ Settled.step = "settled"
    /\ \A n \in Names, k \in AgentRecords : Settled.got[n][k] = 0 /\ Settled.since[n][k] = 0
BY UnsetType DEF Settled, RefreshType

LEMMA StartedType ==
    ASSUME record \in Records
    PROVE  /\ Started \in RefreshType
           /\ Started.step = "logs"
           /\ Started.since = record
           /\ \A n \in Names, k \in AgentRecords : Started.got[n][k] = 0
BY UnsetType DEF Started, RefreshType

\* What was read is usable: as the chain's records go, no older than the refresh
\* and the snapshot, no newer than the chain.
GotInv(r, got) ==
    \A n \in Names, k \in AgentRecords :
        /\ got[n][k] <= writes
        /\ record[n][k] # 0 => got[n][k] <= record[n][k]
        /\ got[n][k] # 0 => /\ refresh[r].since[n][k] <= got[n][k]
                            /\ n \in DOMAIN offers => offers[n][k] <= got[n][k]

\* The step by which a refresh settles, whatever it has read.
Settles(r, got, labels) ==
    /\ refresh[r].step # "settled"
    /\ got \in Records
    /\ labels \subseteq Names
    /\ GotInv(r, got)
    /\ Finish(r, got, labels)

LEMMA FinishKeepsType ==
    ASSUME TypeOK, NEW r \in Refreshes, NEW got, NEW labels, Settles(r, got, labels)
    PROVE  /\ up' \in {"booting", "serving"}
           /\ source' \in {"builtin", "ens"}
           /\ \E served \in SUBSET Names : offers' \in [served -> [AgentRecords -> Stamps]]
           /\ stale' \in BOOLEAN
           /\ inFlight' \in BOOLEAN
           /\ refresh' \in [Refreshes -> RefreshType]
<1>1. up' = "serving" /\ inFlight' = FALSE /\ refresh' = [refresh EXCEPT ![r] = Settled]
  BY DEF Settles, Finish, End
<1>2. refresh' \in [Refreshes -> RefreshType]
  BY <1>1, SettledType DEF TypeOK
<1>3. /\ source' \in {"builtin", "ens"}
      /\ \E served \in SUBSET Names : offers' \in [served -> [AgentRecords -> Stamps]]
      /\ stale' \in BOOLEAN
  <2>1. CASE KeepCurrent(Usable(got, labels)) /\ UNCHANGED <<source, offers, stale>>
    BY <2>1 DEF TypeOK
  <2>2. CASE /\ source' = "ens"
             /\ offers' = [n \in Usable(got, labels) |-> got[n]]
             /\ stale' = FALSE
    <3>1. Usable(got, labels) \in SUBSET Names
      BY DEF Usable, Settles
    <3>2. offers' \in [Usable(got, labels) -> [AgentRecords -> Stamps]]
      BY <2>2, <3>1 DEF Settles, Records
    <3> QED
      BY <2>2, <3>1, <3>2
  <2> QED
    BY <2>1, <2>2 DEF Settles, Finish
<1> QED
  BY <1>1, <1>2, <1>3

\* The refresh that settles was the only one.
LEMMA FinishKeepsInv ==
    ASSUME TypeOK, SnapshotInv, NEW r \in Refreshes, NEW got, NEW labels,
           Settles(r, got, labels), UNCHANGED chainVars
    PROVE  SnapshotInv'
<1>1. up' = "serving" /\ inFlight' = FALSE /\ refresh' = [refresh EXCEPT ![r] = Settled]
  BY DEF Settles, Finish, End
<1>2. \A q \in Refreshes : refresh'[q] = Settled
  <2>1. refresh[r] # Settled
    BY SettledType DEF Settles
  <2> QED
    BY <1>1, <2>1 DEF SnapshotInv, OneRefreshAtATime, TypeOK
<1>3. SettledIsSettled' /\ OneRefreshAtATime'
  BY <1>1, <1>2 DEF SettledIsSettled, OneRefreshAtATime
<1>4. UNCHANGED <<record, writes>> /\ writes \in Nat
  BY BoundsAssumption DEF chainVars, TypeOK, Stamps
<1>5. \A q \in Refreshes, n \in Names, k \in AgentRecords :
         refresh'[q].got[n][k] = 0 /\ refresh'[q].since[n][k] = 0
  BY <1>2, SettledType
<1>6. \A n \in Names, k \in AgentRecords : record[n][k] \in Nat /\ record[n][k] <= writes
  BY BoundsAssumption DEF SnapshotInv, RecordsOnlyAdvance, TypeOK, Records, Stamps
<1>7. CASE UNCHANGED <<source, offers>>
  <2>1. RecordsOnlyAdvance'
    BY <1>4, <1>5, <1>6, <1>7 DEF SnapshotInv, RecordsOnlyAdvance
  <2> QED
    BY <1>3, <1>7, <2>1 DEF SnapshotInv, NoOffer
<1>8. CASE /\ Usable(got, labels) # {}
           /\ source' = "ens"
           /\ offers' = [n \in Usable(got, labels) |-> got[n]]
  <2>1. \A n \in DOMAIN offers' : n \in Names /\ offers'[n] = got[n]
                                   /\ \A k \in AgentRecords : got[n][k] # 0
    BY <1>8 DEF Usable, Settles
  <2>2. \A n \in Names, k \in AgentRecords : got[n][k] \in Nat
    BY BoundsAssumption DEF Settles, Records, Stamps
  <2>3. \A n \in DOMAIN offers', k \in AgentRecords :
           offers'[n][k] \in 1..writes /\ (record[n][k] # 0 => offers'[n][k] <= record[n][k])
    BY <1>4, <2>1, <2>2 DEF Settles, GotInv
  <2>4. RecordsOnlyAdvance'
    BY <1>4, <1>5, <1>6, <2>3 DEF RecordsOnlyAdvance
  <2>5. offers' # NoOffer
    <3>1. DOMAIN offers' # {}
      BY <1>8
    <3> QED
      BY <3>1 DEF NoOffer
  <2> QED
    BY <1>3, <1>8, <2>4, <2>5 DEF SnapshotInv, NoOffer, Unset
<1> QED
  BY <1>7, <1>8 DEF Settles, Finish, KeepCurrent

\* What the two action properties say of a step, when the step is the end of a refresh.
OfferedStep ==
    /\ \A n \in DOMAIN offers \cap DOMAIN offers', k \in AgentRecords :
          offers'[n][k] >= offers[n][k]
    /\ offers' # offers /\ up' = "serving" =>
          \E r \in Refreshes : refresh[r] # Settled /\
             \A n \in DOMAIN offers', k \in AgentRecords :
                offers'[n][k] \in (refresh[r].since[n][k]..writes) \ {0}

LEMMA FinishOffers ==
    ASSUME TypeOK, SnapshotInv, NEW r \in Refreshes, NEW got, NEW labels, Settles(r, got, labels)
    PROVE  OfferedStep
<1>0. writes \in Nat /\ refresh[r].since \in Records /\ refresh[r] # Settled
  BY BoundsAssumption, SettledType DEF TypeOK, Stamps, Settles, RefreshType
<1>1. \A n \in DOMAIN offers, k \in AgentRecords : n \in Names /\ offers[n][k] \in Nat
  BY BoundsAssumption DEF TypeOK, Stamps
<1>2. CASE UNCHANGED offers
  BY <1>1, <1>2 DEF OfferedStep
<1>3. CASE offers' = [n \in Usable(got, labels) |-> got[n]]
  <2>1. \A n \in DOMAIN offers' : n \in Names /\ offers'[n] = got[n]
                                   /\ \A k \in AgentRecords : got[n][k] # 0
    BY <1>3 DEF Usable, Settles
  <2>2. \A n \in Names, k \in AgentRecords : got[n][k] \in Nat /\ refresh[r].since[n][k] \in Nat
    BY <1>0, BoundsAssumption DEF Settles, Records, Stamps
  <2>3. \A n \in DOMAIN offers \cap DOMAIN offers', k \in AgentRecords :
           offers'[n][k] >= offers[n][k]
    BY <1>1, <2>1, <2>2 DEF Settles, GotInv
  <2>4. \A n \in DOMAIN offers', k \in AgentRecords :
           offers'[n][k] \in (refresh[r].since[n][k]..writes) \ {0}
    BY <1>0, <2>1, <2>2 DEF Settles, GotInv
  <2> QED
    BY <1>0, <2>3, <2>4 DEF OfferedStep
<1> QED
  BY <1>2, <1>3 DEF Settles, Finish

\* A refresh under way moves on: it keeps the moment it began, and what it has
\* got by now is usable.
MovesOn(r, to) ==
    /\ refresh[r].step # "settled"
    /\ to \in RefreshType
    /\ to.step # "settled"
    /\ to.since = refresh[r].since
    /\ GotInv(r, to.got)
    /\ refresh' = [refresh EXCEPT ![r] = to]
    /\ UNCHANGED <<up, source, offers, stale, inFlight>>

LEMMA MovingOn ==
    ASSUME TypeOK, SnapshotInv, NEW r \in Refreshes, NEW to, MovesOn(r, to), UNCHANGED chainVars
    PROVE  SnapshotInv' /\ OfferedStep /\ refresh' \in [Refreshes -> RefreshType]
<1>1. refresh' \in [Refreshes -> RefreshType]
  BY DEF TypeOK, MovesOn
<1>2. \A q \in Refreshes : /\ q # r => refresh'[q] = refresh[q]
                           /\ refresh'[q].since = refresh[q].since
                           /\ refresh'[q] # Settled <=> refresh[q] # Settled
  BY SettledType DEF MovesOn, TypeOK
<1>3. SettledIsSettled' /\ OneRefreshAtATime'
  BY <1>2, SettledType DEF SnapshotInv, SettledIsSettled, OneRefreshAtATime, MovesOn, TypeOK
<1>4. RecordsOnlyAdvance'
  <2>1. refresh'[r].got = to.got /\ UNCHANGED <<record, writes, offers>>
    BY DEF MovesOn, TypeOK, chainVars
  <2>2. ASSUME NEW q \in Refreshes, NEW n \in Names, NEW k \in AgentRecords
        PROVE  LET got == refresh'[q].got[n][k]
                   since == refresh'[q].since[n][k]
               IN  /\ got <= writes /\ since <= writes
                   /\ record[n][k] # 0 => got <= record[n][k] /\ since <= record[n][k]
                   /\ got # 0 => since <= got /\ (n \in DOMAIN offers => offers[n][k] <= got)
    <3>1. CASE q = r
      BY <1>2, <2>1, <3>1 DEF SnapshotInv, RecordsOnlyAdvance, MovesOn, GotInv
    <3>2. CASE q # r
      BY <1>2, <3>2 DEF SnapshotInv, RecordsOnlyAdvance
    <3> QED
      BY <3>1, <3>2
  <2> QED
    BY <2>1, <2>2 DEF SnapshotInv, RecordsOnlyAdvance
<1>5. OfferedStep
  BY BoundsAssumption DEF OfferedStep, MovesOn, TypeOK, Stamps
<1> QED
  BY <1>1, <1>3, <1>4, <1>5 DEF SnapshotInv, MovesOn, NoOffer, Unset

\* The shape of a gateway step that reads: it settles the refresh or moves it on.
ReadStep(r) ==
    \/ \E got, labels : Settles(r, got, labels)
    \/ \E to : MovesOn(r, to)

LEMMA UnsetIsUsable ==
    ASSUME TypeOK, NEW r \in Refreshes
    PROVE  GotInv(r, Unset)
BY UnsetType, BoundsAssumption DEF GotInv, TypeOK, Records, Stamps

LEMMA ReadLogsShape ==
    ASSUME TypeOK, SnapshotInv, NEW r \in Refreshes, ReadLogs(r)
    PROVE  ReadStep(r)
<1> DEFINE labels == {n \in Names : status[n] # "unknown"}
           to == [refresh[r] EXCEPT !.step = "states", !.labels = labels]
<1>1. CASE labels = {} /\ Finish(r, Unset, {})
  <2>1. Settles(r, Unset, {})
    BY <1>1, UnsetType, UnsetIsUsable DEF Settles, ReadLogs
  <2> QED
    BY <2>1 DEF ReadStep
<1>2. CASE refresh' = [refresh EXCEPT ![r].step = "states", ![r].labels = labels]
           /\ UNCHANGED <<up, source, offers, stale, inFlight>>
  <2>1. refresh[r] \in RefreshType
    BY DEF TypeOK
  <2>2. to \in RefreshType /\ to.step = "states" /\ to.since = refresh[r].since
        /\ to.got = refresh[r].got
    BY <2>1 DEF RefreshType
  <2>3. refresh' = [refresh EXCEPT ![r] = to]
    BY <1>2, <2>1 DEF RefreshType
  <2>4. GotInv(r, to.got)
    BY <2>2 DEF SnapshotInv, RecordsOnlyAdvance, GotInv
  <2>5. MovesOn(r, to)
    BY <1>2, <2>2, <2>3, <2>4 DEF MovesOn, ReadLogs
  <2> QED
    BY <2>5 DEF ReadStep
<1> QED
  BY <1>1, <1>2 DEF ReadLogs

LEMMA ReadStatesShape ==
    ASSUME TypeOK, SnapshotInv, NEW r \in Refreshes, ReadStates(r)
    PROVE  ReadStep(r)
<1>0. refresh[r] \in RefreshType /\ refresh[r].labels \subseteq Names
  BY DEF TypeOK, RefreshType
<1>1. PICK labels \in SUBSET Names : Proceed(r, labels)
  BY <1>0 DEF ReadStates
<1> DEFINE todo == {c \in Chunks : \E q \in c : q[1] \in labels}
           to == [refresh[r] EXCEPT !.step = "texts", !.labels = labels, !.todo = todo]
<1>2. CASE Finish(r, Unset, {})
  <2>1. Settles(r, Unset, {})
    BY <1>2, UnsetType, UnsetIsUsable DEF Settles, ReadStates
  <2> QED
    BY <2>1 DEF ReadStep
<1>3. CASE refresh' = [refresh EXCEPT ![r].step = "texts", ![r].labels = labels, ![r].todo = todo]
           /\ UNCHANGED <<up, source, offers, stale, inFlight>>
  <2>0. todo \in SUBSET Chunks
    OBVIOUS
  <2> HIDE DEF todo
  <2>2. to \in RefreshType /\ to.step = "texts" /\ to.since = refresh[r].since
        /\ to.got = refresh[r].got
    BY <1>0, <2>0 DEF RefreshType
  <2>3. refresh' = [refresh EXCEPT ![r] = to]
    BY <1>0, <1>3 DEF RefreshType
  <2>4. GotInv(r, to.got)
    BY <2>2 DEF SnapshotInv, RecordsOnlyAdvance, GotInv
  <2>5. MovesOn(r, to)
    BY <1>3, <2>2, <2>3, <2>4 DEF MovesOn, ReadStates
  <2> QED
    BY <2>5 DEF ReadStep
<1> QED
  BY <1>1, <1>2, <1>3 DEF Proceed

\* What an answer, or its absence, adds to what the refresh has got.
LEMMA MergedIsUsable ==
    ASSUME TypeOK, SnapshotInv, NEW r \in Refreshes, NEW c, NEW answer \in {Answer(c), Unset}
    PROVE  Merged(r, c, answer) \in Records /\ GotInv(r, Merged(r, c, answer))
<1> DEFINE got == Merged(r, c, answer)
<1>0. refresh[r] \in RefreshType /\ refresh[r].got \in Records /\ refresh[r].since \in Records
      /\ record \in Records
  BY DEF TypeOK, RefreshType
<1>1. \A n \in Names, k \in AgentRecords : answer[n][k] \in {0, record[n][k]}
  <2>1. ASSUME NEW n \in Names, NEW k \in AgentRecords
        PROVE  Answer(c)[n][k] \in {0, record[n][k]}
    <3>1. Answer(c)[n][k] = IF <<n, k>> \in c /\ status[n] = "registered" THEN record[n][k] ELSE 0
      BY DEF Answer
    <3> QED
      BY <3>1
  <2> QED
    BY <2>1, UnsetType
<1>2. \A n \in Names, k \in AgentRecords :
         got[n][k] \in {0, record[n][k], refresh[r].got[n][k]}
  BY <1>1 DEF Merged, Value
<1>3. \A n \in Names, k \in AgentRecords :
         /\ record[n][k] \in Stamps /\ refresh[r].got[n][k] \in Stamps /\ 0 \in Stamps
         /\ refresh[r].since[n][k] \in Stamps
  BY <1>0, BoundsAssumption DEF Records, Stamps
<1>4. got \in Records
  <2>1. got = [n \in Names |-> [k \in AgentRecords |-> got[n][k]]]
    BY DEF Merged
  <2>2. \A n \in Names, k \in AgentRecords : got[n][k] \in Stamps
    BY <1>2, <1>3
  <2> HIDE DEF got
  <2> QED
    BY <2>1, <2>2 DEF Records
<1>5. GotInv(r, got)
  <2> HIDE DEF got
  <2>1. SUFFICES ASSUME NEW n \in Names, NEW k \in AgentRecords
        PROVE  /\ got[n][k] <= writes
               /\ record[n][k] # 0 => got[n][k] <= record[n][k]
               /\ got[n][k] # 0 => /\ refresh[r].since[n][k] <= got[n][k]
                                   /\ n \in DOMAIN offers => offers[n][k] <= got[n][k]
    BY DEF GotInv
  <2>2. writes \in Nat /\ record[n][k] \in Nat /\ refresh[r].got[n][k] \in Nat
    BY <1>3, BoundsAssumption DEF TypeOK, Stamps
  <2>3. record[n][k] <= writes /\ refresh[r].got[n][k] <= writes
    BY DEF SnapshotInv, RecordsOnlyAdvance
  <2>4. record[n][k] # 0 => /\ refresh[r].got[n][k] <= record[n][k]
                            /\ refresh[r].since[n][k] <= record[n][k]
                            /\ n \in DOMAIN offers => offers[n][k] <= record[n][k]
    BY DEF SnapshotInv, RecordsOnlyAdvance
  <2>5. refresh[r].got[n][k] # 0 => /\ refresh[r].since[n][k] <= refresh[r].got[n][k]
                                    /\ n \in DOMAIN offers => offers[n][k] <= refresh[r].got[n][k]
    BY DEF SnapshotInv, RecordsOnlyAdvance
  <2>6. CASE got[n][k] = 0
    BY <2>2, <2>6
  <2>7. CASE got[n][k] = record[n][k] /\ record[n][k] # 0
    BY <2>2, <2>3, <2>4, <2>7
  <2>8. CASE got[n][k] = refresh[r].got[n][k]
    BY <2>3, <2>4, <2>5, <2>8
  <2> QED
    BY <1>2, <2>6, <2>7, <2>8
<1> QED
  BY <1>4, <1>5

LEMMA ReadTextsShape ==
    ASSUME TypeOK, SnapshotInv, NEW r \in Refreshes, NEW c \in Chunks, ReadTexts(r, c)
    PROVE  ReadStep(r)
<1>0. refresh[r] \in RefreshType /\ refresh[r].labels \subseteq Names
  BY DEF TypeOK, RefreshType
<1>1. PICK answer \in {Answer(c), Unset} : Received(r, c, answer)
  BY DEF ReadTexts
<1> DEFINE got == Merged(r, c, answer)
           to == [refresh[r] EXCEPT !.todo = @ \ {c}, !.got = got]
<1>2. got \in Records /\ GotInv(r, got)
  BY MergedIsUsable
<1>3. CASE Finish(r, got, refresh[r].labels)
  <2>1. Settles(r, got, refresh[r].labels)
    BY <1>0, <1>2, <1>3 DEF Settles, ReadTexts
  <2> QED
    BY <2>1 DEF ReadStep
<1>4. CASE refresh' = [refresh EXCEPT ![r].todo = @ \ {c}, ![r].got = got]
           /\ UNCHANGED <<up, source, offers, stale, inFlight>>
  <2> HIDE DEF got
  <2>1. to \in RefreshType /\ to.step = refresh[r].step /\ to.since = refresh[r].since
        /\ to.got = got
    BY <1>0, <1>2 DEF RefreshType
  <2>2. refresh' = [refresh EXCEPT ![r] = to]
    BY <1>0, <1>4 DEF RefreshType
  <2>3. MovesOn(r, to)
    BY <1>2, <1>4, <2>1, <2>2 DEF MovesOn, ReadTexts
  <2> QED
    BY <2>3 DEF ReadStep
<1> QED
  BY <1>1, <1>3, <1>4 DEF Received

LEMMA ReadingKeepsInv ==
    ASSUME TypeOK, SnapshotInv, NEW r \in Refreshes, Reading(r)
    PROVE  SnapshotInv' /\ OfferedStep /\ TypeOK'
<1>1. UNCHANGED <<chainVars, scriptVars>> /\ faults' \in 0..MaxFaults
  BY BoundsAssumption DEF Reading, ReadLogs, LogsFail, ReadStates, ReadTexts, Fault, TypeOK
<1>2. CASE LogsFail(r)
  <2>1. up' = "serving" /\ inFlight' = FALSE /\ refresh' = [refresh EXCEPT ![r] = Settled]
        /\ UNCHANGED <<source, offers, stale>> /\ refresh[r] # Settled
    BY <1>2, SettledType DEF LogsFail, End
  <2>2. \A q \in Refreshes : refresh'[q] = Settled
    BY <2>1 DEF SnapshotInv, OneRefreshAtATime, TypeOK
  <2>3. SettledIsSettled' /\ OneRefreshAtATime'
    BY <2>1, <2>2 DEF SettledIsSettled, OneRefreshAtATime
  <2>4. RecordsOnlyAdvance'
    <3>1. UNCHANGED <<record, writes, offers>>
      BY <1>1, <2>1 DEF chainVars
    <3>2. \A n \in Names, k \in AgentRecords : record[n][k] \in Nat /\ writes \in Nat
      BY BoundsAssumption DEF TypeOK, Records, Stamps
    <3>3. \A q \in Refreshes, n \in Names, k \in AgentRecords :
             refresh'[q].got[n][k] = 0 /\ refresh'[q].since[n][k] = 0
      BY <2>2, SettledType
    <3> QED
      BY <3>1, <3>2, <3>3 DEF SnapshotInv, RecordsOnlyAdvance
  <2>5. OfferedStep
    BY <2>1, BoundsAssumption DEF OfferedStep, TypeOK, Stamps
  <2>6. refresh' \in [Refreshes -> RefreshType]
    BY <2>1, SettledType DEF TypeOK
  <2>7. TypeOK'
    BY <1>1, <2>1, <2>6 DEF TypeOK, chainVars, scriptVars
  <2> QED
    BY <2>1, <2>3, <2>4, <2>5, <2>7 DEF SnapshotInv, NoOffer, Unset
<1>3. CASE ~LogsFail(r)
  <2>1. ReadStep(r)
    BY <1>3, ReadLogsShape, ReadStatesShape, ReadTextsShape DEF Reading
  <2>2. CASE \E got, labels : Settles(r, got, labels)
    <3>1. PICK got, labels : Settles(r, got, labels)
      BY <2>2
    <3>2. SnapshotInv' /\ OfferedStep
      BY <1>1, <3>1, FinishKeepsInv, FinishOffers
    <3>3. TypeOK'
      BY <1>1, <3>1, FinishKeepsType DEF TypeOK, chainVars, scriptVars
    <3> QED
      BY <3>2, <3>3
  <2>3. CASE \E to : MovesOn(r, to)
    <3>1. PICK to : MovesOn(r, to)
      BY <2>3
    <3>2. SnapshotInv' /\ OfferedStep /\ refresh' \in [Refreshes -> RefreshType]
      BY <1>1, <3>1, MovingOn
    <3>3. TypeOK'
      BY <1>1, <3>1, <3>2 DEF TypeOK, chainVars, scriptVars, MovesOn
    <3> QED
      BY <3>2, <3>3
  <2> QED
    BY <2>1, <2>2, <2>3 DEF ReadStep
<1> QED
  BY <1>2, <1>3

\* A refresh that begins: the chain as it is now is where it starts from.
LEMMA RefreshSoonKeepsInv ==
    ASSUME TypeOK, SnapshotInv, NEW r \in Refreshes, RefreshSoon(r)
    PROVE  SnapshotInv' /\ OfferedStep /\ TypeOK'
<1>1. /\ inFlight' = TRUE /\ refresh' = [refresh EXCEPT ![r] = Started]
      /\ UNCHANGED <<up, source, offers, stale, chainVars, scriptVars, faults>>
      /\ up = "serving" /\ ~inFlight
  BY DEF RefreshSoon, MayBegin
<1>2. Started \in RefreshType /\ Started # Settled /\ Started.step = "logs"
  BY StartedType, SettledType DEF TypeOK
<1>3. \A q \in Refreshes : refresh[q] = Settled /\ refresh'[q] = IF q = r THEN Started ELSE Settled
  BY <1>1 DEF SnapshotInv, OneRefreshAtATime, TypeOK
<1>4. SettledIsSettled' /\ OneRefreshAtATime'
  BY <1>1, <1>2, <1>3 DEF SettledIsSettled, OneRefreshAtATime
<1>5. RecordsOnlyAdvance'
  <2>1. UNCHANGED <<record, writes, offers>>
    BY <1>1 DEF chainVars
  <2>2. \A n \in Names, k \in AgentRecords : record[n][k] \in Nat /\ writes \in Nat
    BY BoundsAssumption DEF TypeOK, Records, Stamps
  <2>3. \A q \in Refreshes, n \in Names, k \in AgentRecords :
           refresh'[q].got[n][k] = 0 /\ refresh'[q].since[n][k] \in {0, record[n][k]}
    <3>1. record \in Records
      BY DEF TypeOK
    <3>2. \A n \in Names, k \in AgentRecords :
             Started.got[n][k] = 0 /\ Started.since[n][k] = record[n][k]
      BY <3>1, StartedType
    <3> QED
      BY <1>3, <3>2, SettledType
  <2> QED
    BY <2>1, <2>2, <2>3 DEF SnapshotInv, RecordsOnlyAdvance
<1>6. refresh' \in [Refreshes -> RefreshType]
  BY <1>1, <1>2 DEF TypeOK
<1>7. TypeOK'
  BY <1>1, <1>6 DEF TypeOK, chainVars, scriptVars
<1>8. OfferedStep
  BY <1>1, BoundsAssumption DEF OfferedStep, TypeOK, Stamps
<1> QED
  BY <1>1, <1>4, <1>5, <1>7, <1>8 DEF SnapshotInv, NoOffer, Unset

\* The gateway before it has read anything, at its start or after a restart.
Booting ==
    /\ up = "booting" /\ source = "builtin" /\ offers = NoOffer
    /\ stale = FALSE /\ inFlight = FALSE
    /\ refresh = [r \in Refreshes |-> IF r = 1 THEN Started ELSE Settled]

LEMMA BootingInv ==
    ASSUME record \in Records, writes \in Stamps, Booting,
           \A n \in Names, k \in AgentRecords : record[n][k] <= writes
    PROVE  /\ SnapshotInv
           /\ refresh \in [Refreshes -> RefreshType]
           /\ \E served \in SUBSET Names : offers \in [served -> [AgentRecords -> Stamps]]
<1>1. Started \in RefreshType /\ Started # Settled /\ Started.step = "logs" /\ Settled \in RefreshType
  BY StartedType, SettledType
<1>2. DOMAIN offers = {} /\ offers \in [{} -> [AgentRecords -> Stamps]]
  BY DEF Booting, NoOffer
<1>3. SettledIsSettled /\ OneRefreshAtATime
  BY <1>1, RefreshAssumption DEF Booting, SettledIsSettled, OneRefreshAtATime
<1>4. RecordsOnlyAdvance
  <2>1. \A q \in Refreshes, n \in Names, k \in AgentRecords :
           refresh[q].got[n][k] = 0 /\ refresh[q].since[n][k] \in {0, record[n][k]}
    BY SettledType, StartedType DEF Booting
  <2>2. \A n \in Names, k \in AgentRecords : record[n][k] \in Nat /\ writes \in Nat
    BY BoundsAssumption DEF Records, Stamps
  <2> QED
    BY <1>2, <2>1, <2>2 DEF RecordsOnlyAdvance
<1>5. SnapshotInv
  BY <1>3, <1>4 DEF SnapshotInv, Booting
<1>6. refresh \in [Refreshes -> RefreshType]
  BY <1>1 DEF Booting
<1> QED
  BY <1>2, <1>5, <1>6

LEMMA RestartKeepsInv ==
    ASSUME TypeOK, SnapshotInv, Restart
    PROVE  SnapshotInv' /\ OfferedStep /\ TypeOK'
<1>1. UNCHANGED <<chainVars, scriptVars>> /\ faults' \in 0..MaxFaults /\ up' = "booting"
  BY BoundsAssumption DEF Restart, Fault, TypeOK
<1>2. Booting'
  BY <1>1 DEF Restart, Booting, Started, NoOffer, Unset, Settled, chainVars
<1>3. /\ (record \in Records)' /\ (writes \in Stamps)'
      /\ (\A n \in Names, k \in AgentRecords : record[n][k] <= writes)'
  BY <1>1 DEF TypeOK, chainVars, SnapshotInv, RecordsOnlyAdvance
<1>4. /\ SnapshotInv'
      /\ (refresh \in [Refreshes -> RefreshType])'
      /\ (\E served \in SUBSET Names : offers \in [served -> [AgentRecords -> Stamps]])'
  BY <1>2, <1>3, BootingInv, PTL
<1>5. TypeOK'
  BY <1>1, <1>2, <1>4 DEF TypeOK, chainVars, scriptVars, Booting
<1>6. OfferedStep
  BY <1>1, <1>2 DEF OfferedStep, Booting, NoOffer
<1> QED
  BY <1>4, <1>5, <1>6

LEMMA AgeKeepsInv ==
    ASSUME TypeOK, SnapshotInv, Age
    PROVE  SnapshotInv' /\ OfferedStep /\ TypeOK'
<1>1. /\ stale' = TRUE
      /\ UNCHANGED <<up, source, offers, inFlight, refresh, chainVars, scriptVars, faults>>
  BY DEF Age
<1>2. UNCHANGED SnapshotInv
  BY <1>1 DEF SnapshotInv, SettledIsSettled, OneRefreshAtATime, RecordsOnlyAdvance, NoOffer,
              Unset, Settled, chainVars
<1>3. TypeOK'
  BY <1>1 DEF TypeOK, chainVars, scriptVars
<1>4. OfferedStep
  BY <1>1, BoundsAssumption DEF OfferedStep, TypeOK, Stamps
<1> QED
  BY <1>2, <1>3, <1>4

LEMMA GatewayKeepsInv ==
    ASSUME TypeOK, SnapshotInv, Gateway
    PROVE  SnapshotInv' /\ OfferedStep /\ TypeOK'
BY AgeKeepsInv, RestartKeepsInv, RefreshSoonKeepsInv, ReadingKeepsInv DEF Gateway
-----------------------------------------------------------------------------
(* The chain: a record that is written is newer than all there was. *)

\* What any write leaves of the records.
ChainStep ==
    /\ UNCHANGED gatewayVars
    /\ writes' \in Stamps /\ writes <= writes'
    /\ record' \in Records
    /\ \A n \in Names, k \in AgentRecords :
          record'[n][k] = record[n][k] \/ record'[n][k] = writes' \/ record'[n][k] = 0
    /\ \A n \in Names, k \in AgentRecords : record'[n][k] <= writes'

LEMMA ChainKeepsSnapshot ==
    ASSUME TypeOK, SnapshotInv, ChainStep
    PROVE  SnapshotInv' /\ OfferedStep
<1>1. UNCHANGED <<up, source, offers, stale, inFlight, refresh>>
  BY DEF ChainStep, gatewayVars
<1>2. SettledIsSettled' /\ OneRefreshAtATime'
  BY <1>1 DEF SnapshotInv, SettledIsSettled, OneRefreshAtATime, Settled, Unset
<1>3. writes \in Nat /\ writes' \in Nat /\ writes <= writes'
  BY BoundsAssumption DEF ChainStep, TypeOK, Stamps
<1>4. RecordsOnlyAdvance'
  <2>1. SUFFICES ASSUME NEW n \in Names, NEW k \in AgentRecords
        PROVE  /\ record'[n][k] <= writes'
               /\ \A r \in Refreshes :
                     LET got == refresh[r].got[n][k]
                         since == refresh[r].since[n][k]
                     IN  /\ got <= writes' /\ since <= writes'
                         /\ record'[n][k] # 0 => got <= record'[n][k] /\ since <= record'[n][k]
                         /\ got # 0 => since <= got /\ (n \in DOMAIN offers => offers[n][k] <= got)
               /\ n \in DOMAIN offers =>
                     /\ offers[n][k] \in 1..writes'
                     /\ record'[n][k] # 0 => offers[n][k] <= record'[n][k]
    BY <1>1 DEF RecordsOnlyAdvance
  <2>2. /\ record[n][k] \in Nat
        /\ \A r \in Refreshes : refresh[r].got[n][k] \in Nat /\ refresh[r].since[n][k] \in Nat
    BY BoundsAssumption DEF TypeOK, RefreshType, Records, Stamps
  <2>3. record'[n][k] <= writes' /\ record'[n][k] \in {record[n][k], writes', 0}
    BY DEF ChainStep
  <2>4. ASSUME NEW r \in Refreshes
        PROVE  LET got == refresh[r].got[n][k]
                   since == refresh[r].since[n][k]
               IN  /\ got <= writes' /\ since <= writes'
                   /\ record'[n][k] # 0 => got <= record'[n][k] /\ since <= record'[n][k]
                   /\ got # 0 => since <= got /\ (n \in DOMAIN offers => offers[n][k] <= got)
    <3>1. LET got == refresh[r].got[n][k]
              since == refresh[r].since[n][k]
          IN  /\ got <= writes /\ since <= writes
              /\ record[n][k] # 0 => got <= record[n][k] /\ since <= record[n][k]
              /\ got # 0 => since <= got /\ (n \in DOMAIN offers => offers[n][k] <= got)
      BY DEF SnapshotInv, RecordsOnlyAdvance
    <3> QED
      BY <1>3, <2>2, <2>3, <3>1
  <2>5. n \in DOMAIN offers =>
            /\ offers[n][k] \in 1..writes'
            /\ record'[n][k] # 0 => offers[n][k] <= record'[n][k]
    <3>1. n \in DOMAIN offers =>
              /\ offers[n][k] \in 1..writes
              /\ record[n][k] # 0 => offers[n][k] <= record[n][k]
      BY DEF SnapshotInv, RecordsOnlyAdvance
    <3> QED
      BY <1>3, <2>2, <2>3, <3>1
  <2> QED
    BY <2>3, <2>4, <2>5
<1>5. OfferedStep
  BY <1>1, BoundsAssumption DEF OfferedStep, TypeOK, Stamps
<1> QED
  BY <1>1, <1>2, <1>4, <1>5 DEF SnapshotInv, NoOffer, Unset

LEMMA UnchangedRecords ==
    ASSUME TypeOK, SnapshotInv, UNCHANGED <<record, writes, gatewayVars>>
    PROVE  ChainStep
BY BoundsAssumption DEF TypeOK, SnapshotInv, RecordsOnlyAdvance, ChainStep, Stamps, Records

\* A new write, of one name: its records become the newest ones.
LEMMA NewWrite ==
    ASSUME TypeOK, SnapshotInv, UNCHANGED gatewayVars, NEW m \in Names,
           writes < MaxWrites, writes' = writes + 1,
           NEW values \in [AgentRecords -> Nat],
           \A k \in AgentRecords : values[k] \in {0, writes + 1, record[m][k]},
           record' = [record EXCEPT ![m] = values]
    PROVE  ChainStep
<1>1. writes \in Nat /\ writes' \in Stamps /\ \A w \in Stamps : w \in Nat
  BY BoundsAssumption DEF TypeOK, Stamps
<1>2. \A n \in Names, k \in AgentRecords :
         record[n][k] \in Stamps /\ record[n][k] <= writes
  BY DEF TypeOK, Records, SnapshotInv, RecordsOnlyAdvance
<1>3. ASSUME NEW n \in Names, NEW k \in AgentRecords
      PROVE  /\ record'[n][k] \in {record[n][k], writes', 0}
             /\ record'[n][k] \in Stamps /\ record'[n][k] <= writes'
  <2>1. record'[n] = IF n = m THEN values ELSE record[n]
    BY DEF TypeOK, Records
  <2> QED
    BY <1>1, <1>2, <2>1, BoundsAssumption DEF Stamps
<1>4. values \in [AgentRecords -> Stamps]
  BY <1>1, <1>2, BoundsAssumption DEF Stamps
<1>5. record' \in Records
  BY <1>4 DEF TypeOK, Records
<1> QED
  BY <1>1, <1>3, <1>5 DEF ChainStep
-----------------------------------------------------------------------------
(* The operator's transactions *)

Scripts ==
    [pc : {"idle", "check", "registering", "recording", "done"},
     next : 1..Len(MODELS), run : 0..MaxRuns, lost : SUBSET Names,
     reverted : SUBSET Names]

LEMMA PublishingType ==
    ASSUME TypeOK
    PROVE  /\ Publishing \in Names
           /\ script.next \in 1..Len(MODELS)
           /\ \A i \in 1..(script.next - 1) : MODELS[i] \in Names /\ MODELS[i] # Publishing
<1>1. script.next \in 1..Len(MODELS)
  BY DEF TypeOK
<1> QED
  BY <1>1, ModelsAreNames DEF Publishing

\* The queue after its head is gone, and after a transaction is added.
LEMMA MinedQueue ==
    ASSUME TypeOK, pending # <<>>, pending' = Tail(pending)
    PROVE  /\ pending' \in Seq(Transactions)
           /\ Head(pending) \in Transactions
           /\ pending' = <<>> => Head(pending) = pending[Len(pending)]
           /\ pending' # <<>> => pending'[Len(pending')] = pending[Len(pending)]
           /\ \A i \in DOMAIN pending' : \E j \in DOMAIN pending : pending'[i] = pending[j]
           /\ \E j \in DOMAIN pending : Head(pending) = pending[j]
<1>1. pending \in Seq(Transactions)
  BY DEF TypeOK
<1>2. Len(pending) \in Nat \ {0} /\ Head(pending) = pending[1] /\ DOMAIN pending = 1..Len(pending)
  BY <1>1
<1>3. /\ Tail(pending) \in Seq(Transactions)
      /\ Len(Tail(pending)) = Len(pending) - 1
      /\ \A i \in 1..Len(Tail(pending)) : Tail(pending)[i] = pending[i + 1]
  BY <1>1, HeadTailProperties
<1>4. Tail(pending) = <<>> => Len(pending) = 1
  <2>1. Tail(pending) = <<>> => Len(Tail(pending)) = 0
    BY EmptySeq
  <2> QED
    BY <1>2, <1>3, <2>1
<1>5. Tail(pending) # <<>> => Len(Tail(pending)) \in 1..Len(Tail(pending))
  BY <1>2, <1>3
<1>6. DOMAIN Tail(pending) = 1..Len(Tail(pending)) /\ \A i \in 1..Len(Tail(pending)) : i + 1 \in 1..Len(pending)
  BY <1>2, <1>3
<1> QED
  BY <1>1, <1>2, <1>3, <1>4, <1>5, <1>6

LEMMA LongerQueue ==
    ASSUME TypeOK, NEW tx \in Transactions, pending' = Append(pending, tx)
    PROVE  /\ pending' \in Seq(Transactions)
           /\ pending' # <<>>
           /\ pending'[Len(pending')] = tx
           /\ pending = <<>> => \A i \in DOMAIN pending' : pending'[i] = tx
<1>1. pending \in Seq(Transactions)
  BY DEF TypeOK
<1> QED
  BY <1>1, AppendProperties

LEMMA ScriptInvUnchanged ==
    ASSUME ScriptInv, UNCHANGED <<status, scriptVars>>
    PROVE  ScriptInv'
BY DEF ScriptInv, Kept, Carried, Own, Publishing, scriptVars

LEMMA MineKeepsInv ==
    ASSUME IInv, Mine
    PROVE  IInv' /\ OfferedStep
<1> PICK tx : tx = Head(pending)
  OBVIOUS
<1>0. TypeOK /\ SnapshotInv /\ ScriptInv /\ UNCHANGED <<delegated, gatewayVars>>
  BY DEF IInv, Mine
<1>1. pending # <<>> /\ pending' = Tail(pending)
  BY DEF Mine
<1>2. /\ pending' \in Seq(Transactions)
      /\ tx \in Transactions
      /\ pending' = <<>> => tx = pending[Len(pending)]
      /\ pending' # <<>> => pending'[Len(pending')] = pending[Len(pending)]
      /\ \A i \in DOMAIN pending' : \E j \in DOMAIN pending : pending'[i] = pending[j]
      /\ \E j \in DOMAIN pending : tx = pending[j]
  BY <1>0, <1>1, MinedQueue
<1>3. tx.name \in Names /\ tx.run \in 1..MaxRuns /\ tx.kind \in {"register", "records"}
  BY <1>2 DEF Transactions
<1> DEFINE missedNames == Missed(tx, "register", script.lost)
           missedRecords == Missed(tx, "records", script.reverted)
           registers == /\ tx.kind = "register"
                        /\ status' = [status EXCEPT ![tx.name] = "registered"]
                        /\ UNCHANGED <<record, writes, publishedBy, script, faults>>
           writesRecords == /\ tx.kind = "records"
                            /\ writes < MaxWrites
                            /\ record' = Written(tx.name)
                            /\ writes' = writes + 1
                            /\ publishedBy' = [publishedBy EXCEPT ![tx.name] = tx.run]
                            /\ UNCHANGED <<status, script, faults>>
           reverts == /\ Fault
                      /\ script' = [script EXCEPT !.lost = missedNames,
                                                  !.reverted = missedRecords]
                      /\ UNCHANGED <<status, record, writes, publishedBy>>
<1>4. registers \/ writesRecords \/ reverts
  BY DEF Mine, Effect
<1>5. ChainStep
  <2>1. CASE UNCHANGED <<record, writes>>
    BY <1>0, <2>1, UnchangedRecords
  <2>2. CASE writesRecords
    <3> DEFINE values == [k \in AgentRecords |-> writes + 1]
    <3>1. values \in [AgentRecords -> Nat]
      BY <1>0, BoundsAssumption DEF TypeOK, Stamps
    <3> QED
      BY <1>0, <1>3, <2>2, <3>1, NewWrite DEF Written
  <2> QED
    BY <1>4, <2>1, <2>2
<1>6. /\ script' \in Scripts
      /\ script'.pc = script.pc /\ script'.next = script.next /\ script'.run = script.run
      /\ script.lost \subseteq script'.lost /\ script.reverted \subseteq script'.reverted
      /\ reverts => script'.lost = missedNames /\ script'.reverted = missedRecords
  <2>1. script \in Scripts
    BY <1>0 DEF TypeOK, Scripts
  <2>2. /\ missedNames \in SUBSET Names /\ script.lost \subseteq missedNames
        /\ missedRecords \in SUBSET Names /\ script.reverted \subseteq missedRecords
    BY <1>3, <2>1 DEF Missed, Scripts
  <2>3. CASE reverts
    <3> HIDE DEF missedNames, missedRecords
    <3> QED
      BY <2>1, <2>2, <2>3 DEF Scripts
  <2> QED
    BY <1>4, <2>1, <2>3
<1>7. TypeOK'
  <2>1. status' \in [Names -> {"unknown", "registered", "gone"}]
        /\ publishedBy' \in [Names -> 0..MaxRuns]
    <3>1. /\ status \in [Names -> {"unknown", "registered", "gone"}]
          /\ publishedBy \in [Names -> 0..MaxRuns]
      BY <1>0 DEF TypeOK
    <3>2. tx.run \in 0..MaxRuns
      BY <1>3, BoundsAssumption
    <3>3. CASE registers
      BY <3>1, <3>3
    <3>4. CASE writesRecords
      BY <3>1, <3>2, <3>4
    <3>5. CASE reverts
      BY <3>1, <3>5
    <3> QED
      BY <1>4, <3>3, <3>4, <3>5
  <2>2. faults' \in 0..MaxFaults
    BY <1>0, <1>4, BoundsAssumption DEF TypeOK, Fault
  <2> QED
    <3>1. delegated' \in SUBSET Names
      BY <1>0 DEF TypeOK
    <3>2. record' \in Records /\ writes' \in Stamps
      BY <1>5 DEF ChainStep
    <3> HIDE DEF missedNames, missedRecords, registers, writesRecords, reverts
    <3> QED
      BY <1>0, <1>2, <1>6, <2>1, <2>2, <3>1, <3>2 DEF TypeOK, gatewayVars, Scripts
<1>8. ScriptInv'
  <2>0. /\ \A n \in Names : Kept(n) => Kept(n)'
        /\ tx.kind = "register" /\ tx.run = script.run => Kept(tx.name)'
        /\ tx.kind = "records" /\ tx.run = script.run => Carried(tx.name)'
        /\ \A n \in Names : n # tx.name => (Carried(n) => Carried(n)')
    <3>0. DOMAIN status = Names /\ DOMAIN publishedBy = Names
      BY <1>0 DEF TypeOK
    <3>1. CASE registers
      BY <1>3, <1>6, <3>0, <3>1 DEF Kept, Carried
    <3>2. CASE writesRecords
      BY <1>3, <1>6, <3>0, <3>2 DEF Kept, Carried
    <3>3. CASE reverts
      BY <1>3, <1>6, <3>0, <3>3 DEF Kept, Carried, Missed
    <3> QED
      BY <1>4, <3>1, <3>2, <3>3
  <2> HIDE DEF missedNames, missedRecords, registers, writesRecords, reverts
  <2>1. /\ Publishing \in Names
        /\ \A i \in 1..(script.next - 1) : MODELS[i] \in Names /\ MODELS[i] # Publishing
    BY <1>0, PublishingType
  <2>2. ~(script.pc = "check" /\ script.next > 1) /\ script.pc # "done"
    BY <1>0, <1>1 DEF ScriptInv
  <2>3. script.pc \in {"check", "registering", "recording"} =>
           /\ script.run \in 1..MaxRuns
           /\ \A i \in 1..(script.next - 1) : Carried(MODELS[i])' /\ Kept(MODELS[i])'
           /\ script.next > 1 => \A i \in DOMAIN pending' : pending'[i].name = Publishing
    <3>1. SUFFICES ASSUME script.pc \in {"check", "registering", "recording"}
          PROVE  /\ script.run \in 1..MaxRuns
                 /\ \A i \in 1..(script.next - 1) : Carried(MODELS[i])' /\ Kept(MODELS[i])'
                 /\ script.next > 1 => \A i \in DOMAIN pending' : pending'[i].name = Publishing
      OBVIOUS
    <3>2. script.next > 1 => tx.name = Publishing
      BY <1>0, <1>2, <3>1 DEF ScriptInv
    <3>3. script.next > 1 => \A i \in DOMAIN pending' : pending'[i].name = Publishing
      BY <1>0, <1>2, <3>1 DEF ScriptInv
    <3>4. ASSUME NEW i \in 1..(script.next - 1)
          PROVE  Carried(MODELS[i])' /\ Kept(MODELS[i])'
      <4>1. script.next > 1
        BY <1>0 DEF TypeOK
      <4>2. Carried(MODELS[i]) /\ Kept(MODELS[i])
        BY <1>0, <3>1 DEF ScriptInv
      <4> QED
        BY <2>0, <2>1, <3>2, <4>1, <4>2
    <3> QED
      BY <1>0, <3>1, <3>3, <3>4 DEF ScriptInv
  <2>4. script.pc = "registering" =>
           IF pending' = <<>> THEN Kept(Publishing)'
           ELSE Own(pending'[Len(pending')]) /\ pending'[Len(pending')].kind = "register"
    <3>1. SUFFICES ASSUME script.pc = "registering"
          PROVE  IF pending' = <<>> THEN Kept(Publishing)'
                 ELSE Own(pending'[Len(pending')]) /\ pending'[Len(pending')].kind = "register"
      OBVIOUS
    <3>2. Own(pending[Len(pending)]) /\ pending[Len(pending)].kind = "register"
      BY <1>0, <1>1, <3>1 DEF ScriptInv
    <3>3. CASE pending' = <<>>
      <4>1. tx.kind = "register" /\ tx.name = Publishing /\ tx.run = script.run
        BY <1>2, <3>2, <3>3 DEF Own
      <4>2. script'.next = script.next /\ Kept(tx.name)'
        BY <1>6, <2>0, <4>1
      <4>3. Kept(Publishing)'
        BY <4>1, <4>2 DEF Kept, Publishing
      <4> QED
        BY <3>3, <4>3
    <3>4. CASE pending' # <<>>
      BY <1>2, <3>2, <3>4
    <3> QED
      BY <3>3, <3>4
  <2>5. script.pc = "recording" =>
           /\ Kept(Publishing)'
           /\ IF pending' = <<>> THEN Carried(Publishing)'
              ELSE Own(pending'[Len(pending')]) /\ pending'[Len(pending')].kind = "records"
    <3>1. SUFFICES ASSUME script.pc = "recording"
          PROVE  /\ Kept(Publishing)'
                 /\ IF pending' = <<>> THEN Carried(Publishing)'
                    ELSE Own(pending'[Len(pending')]) /\ pending'[Len(pending')].kind = "records"
      OBVIOUS
    <3>2. Own(pending[Len(pending)]) /\ pending[Len(pending)].kind = "records" /\ Kept(Publishing)
      BY <1>0, <1>1, <3>1 DEF ScriptInv
    <3>3. Publishing' = Publishing
      BY <1>6 DEF Publishing
    <3>4. Kept(Publishing)'
      BY <2>0, <2>1, <3>2, <3>3 DEF Kept
    <3>5. CASE pending' = <<>>
      <4>1. tx.kind = "records" /\ tx.name = Publishing /\ tx.run = script.run
        BY <1>2, <3>2, <3>5 DEF Own
      <4>2. Carried(tx.name)'
        BY <2>0, <4>1
      <4>3. Carried(Publishing)'
        BY <3>3, <4>1, <4>2 DEF Carried
      <4> QED
        BY <3>4, <3>5, <4>3
    <3>6. CASE pending' # <<>>
      BY <1>2, <3>2, <3>4, <3>6
    <3> QED
      BY <3>5, <3>6
  <2>6. Publishing' = Publishing
    BY <1>6 DEF Publishing
  <2> QED
    BY <1>6, <2>2, <2>3, <2>4, <2>5, <2>6 DEF ScriptInv, Own
<1> QED
  BY <1>0, <1>5, <1>7, <1>8, ChainKeepsSnapshot DEF IInv

LEMMA ProvidersKeepInv ==
    ASSUME IInv, NEW n \in Names,
           \/ Unregister(n)
           \/ \E grant \in BOOLEAN : DelegateAgentRecords(n, grant)
           \/ \E usable \in BOOLEAN : EditPrice(n, usable)
    PROVE  IInv' /\ OfferedStep
<1>0. TypeOK /\ SnapshotInv /\ ScriptInv
  BY DEF IInv
<1>1. CASE Unregister(n)
  <2>1. ChainStep
    BY <1>0, <1>1, UnchangedRecords DEF Unregister
  <2>2. /\ status' = [status EXCEPT ![n] = "gone"]
        /\ script' = [script EXCEPT !.lost = IF script.pc = "idle" THEN {} ELSE @ \cup {n}]
        /\ UNCHANGED <<record, delegated, writes, pending, publishedBy, gatewayVars, faults>>
    BY <1>1 DEF Unregister
  <2>3. /\ script' \in Scripts
        /\ script'.reverted = script.reverted
        /\ script'.pc = script.pc /\ script'.next = script.next /\ script'.run = script.run
        /\ script.pc # "idle" => script'.lost = script.lost \cup {n}
    <3> DEFINE lost == IF script.pc = "idle" THEN {} ELSE script.lost \cup {n}
    <3>1. lost \in SUBSET Names /\ (script.pc # "idle" => lost = script.lost \cup {n})
      BY <1>0 DEF TypeOK
    <3>2. script' = [script EXCEPT !.lost = lost]
      BY <2>2
    <3> HIDE DEF lost
    <3> QED
      BY <1>0, <3>1, <3>2 DEF TypeOK, Scripts
  <2>4. TypeOK'
    BY <1>0, <2>2, <2>3 DEF TypeOK, gatewayVars, Scripts
  <2>5. /\ Publishing' = Publishing
        /\ script.pc # "idle" =>
              \A m \in Names : (Kept(m) => Kept(m)') /\ (Carried(m) => Carried(m)')
    BY <1>0, <2>2, <2>3 DEF Publishing, Kept, Carried, TypeOK
  <2>6. Publishing \in Names /\ \A i \in 1..(script.next - 1) : MODELS[i] \in Names
    BY <1>0, PublishingType
  <2>7. ScriptInv'
    BY <1>0, <2>2, <2>3, <2>5, <2>6 DEF ScriptInv, Own
  <2> QED
    BY <1>0, <2>1, <2>4, <2>7, ChainKeepsSnapshot DEF IInv
<1>2. CASE \E grant \in BOOLEAN : DelegateAgentRecords(n, grant)
  <2>1. /\ delegated' \in SUBSET Names
        /\ UNCHANGED <<status, record, writes, scriptVars, gatewayVars, faults>>
    BY <1>0, <1>2 DEF DelegateAgentRecords, TypeOK
  <2>2. ChainStep
    BY <1>0, <2>1, UnchangedRecords
  <2>3. TypeOK'
    BY <1>0, <2>1 DEF TypeOK, gatewayVars, scriptVars
  <2> QED
    BY <1>0, <2>1, <2>2, <2>3, ChainKeepsSnapshot, ScriptInvUnchanged DEF IInv
<1>3. CASE \E usable \in BOOLEAN : EditPrice(n, usable)
  <2>1. PICK usable \in BOOLEAN : EditPrice(n, usable)
    BY <1>3
  <2>2. /\ writes < MaxWrites /\ writes' = writes + 1
        /\ record' = [record EXCEPT ![n]["price"] = IF usable THEN writes + 1 ELSE 0]
        /\ UNCHANGED <<status, delegated, scriptVars, gatewayVars, faults>>
    BY <2>1 DEF EditPrice
  <2> DEFINE values == [record[n] EXCEPT !["price"] = IF usable THEN writes + 1 ELSE 0]
  <2>3. record' = [record EXCEPT ![n] = values]
    BY <2>2
  <2>4. values \in [AgentRecords -> Nat] /\ \A k \in AgentRecords : values[k] \in {0, writes + 1, record[n][k]}
    <3>1. writes \in Nat /\ record[n] \in [AgentRecords -> Nat]
      BY <1>0, BoundsAssumption DEF TypeOK, Records, Stamps
    <3> DEFINE value == IF usable THEN writes + 1 ELSE 0
    <3>2. value \in Nat /\ value \in {0, writes + 1}
      BY <3>1
    <3> HIDE DEF value
    <3>3. /\ [record[n] EXCEPT !["price"] = value] \in [AgentRecords -> Nat]
          /\ \A k \in AgentRecords :
                [record[n] EXCEPT !["price"] = value][k] \in {0, writes + 1, record[n][k]}
      BY <3>1, <3>2
    <3> QED
      BY <3>3 DEF value
  <2>5. ChainStep
    <3> HIDE DEF values
    <3> QED
      BY <1>0, <2>2, <2>3, <2>4, NewWrite
  <2>6. TypeOK'
    BY <1>0, <2>2, <2>5 DEF TypeOK, ChainStep, gatewayVars, scriptVars
  <2> QED
    BY <1>0, <2>2, <2>5, <2>6, ChainKeepsSnapshot, ScriptInvUnchanged DEF IInv
<1> QED
  BY <1>1, <1>2, <1>3
-----------------------------------------------------------------------------
(* The script *)

LEMMA ScriptStepKeepsRest ==
    ASSUME TypeOK, SnapshotInv, UNCHANGED <<publishedBy, chainVars, gatewayVars>>,
           script' \in Scripts, pending' \in Seq(Transactions), faults' \in 0..MaxFaults
    PROVE  TypeOK' /\ SnapshotInv' /\ OfferedStep
<1>1. TypeOK'
  BY DEF TypeOK, Scripts, chainVars, gatewayVars
<1>2. UNCHANGED SnapshotInv
  BY DEF SnapshotInv, SettledIsSettled, OneRefreshAtATime, RecordsOnlyAdvance, NoOffer,
         Unset, Settled, chainVars, gatewayVars
<1>3. OfferedStep
  BY BoundsAssumption DEF OfferedStep, TypeOK, Stamps, gatewayVars
<1> QED
  BY <1>1, <1>2, <1>3

LEMMA RunScriptKeepsInv ==
    ASSUME IInv, RunScript
    PROVE  IInv' /\ OfferedStep
<1>1. /\ script' = [pc |-> "check", next |-> 1, run |-> script.run + 1,
                   lost |-> {}, reverted |-> {}]
      /\ script.run \in 0..MaxRuns /\ script.run < MaxRuns
      /\ UNCHANGED <<pending, publishedBy, chainVars, gatewayVars, faults>>
  BY DEF RunScript, IInv, TypeOK
<1>2. script' \in Scripts /\ script'.run \in 1..MaxRuns
  BY <1>1, ModelsAreNames, BoundsAssumption DEF Scripts
<1>3. ScriptInv'
  BY <1>1, <1>2 DEF ScriptInv
<1> QED
  BY <1>1, <1>2, <1>3, ScriptStepKeepsRest DEF IInv, TypeOK

\* A transaction is sent from a state in which none is pending or the script
\* has just begun: it is the last one, and all that the script waits for.
LEMMA SendKeepsInv ==
    ASSUME IInv, NEW kind \in {"register", "records"},
           NEW pc \in {"registering", "recording"}, NEW lost \in SUBSET Names,
           script.pc \in {"check", "registering"},
           script.next > 1 => pending = <<>>,
           (pc = "registering") <=> (kind = "register"),
           script.lost \ {Publishing} \subseteq lost,
           pc = "recording" => status[Publishing] = "registered" \/ Publishing \in lost,
           Send(kind), script' = [script EXCEPT !.pc = pc, !.lost = lost],
           UNCHANGED <<publishedBy, chainVars, gatewayVars, faults>>
    PROVE  IInv' /\ OfferedStep
<1>0. TypeOK /\ ScriptInv
  BY DEF IInv
<1> PICK tx : tx = [kind |-> kind, name |-> Publishing, run |-> script.run]
  OBVIOUS
<1>1. /\ Publishing \in Names
      /\ \A i \in 1..(script.next - 1) : MODELS[i] \in Names /\ MODELS[i] # Publishing
      /\ script.next \in 1..Len(MODELS)
  BY <1>0, PublishingType
<1>2. /\ script.run \in 1..MaxRuns
      /\ \A i \in 1..(script.next - 1) : Carried(MODELS[i]) /\ Kept(MODELS[i])
  BY <1>0 DEF ScriptInv
<1>3. tx \in Transactions /\ tx.name = Publishing /\ tx.run = script.run /\ tx.kind = kind
  BY <1>1, <1>2 DEF Transactions
<1>4. /\ pending' \in Seq(Transactions)
      /\ pending' # <<>>
      /\ pending'[Len(pending')] = tx
      /\ pending = <<>> => \A i \in DOMAIN pending' : pending'[i] = tx
  BY <1>0, <1>3, LongerQueue DEF Send
<1>5. /\ script' \in Scripts
      /\ script'.pc = pc /\ script'.next = script.next /\ script'.run = script.run
      /\ script'.lost = lost /\ script'.reverted = script.reverted
  BY <1>0 DEF TypeOK, Scripts
<1>6. Publishing' = Publishing /\ status' = status /\ publishedBy' = publishedBy
  BY <1>5 DEF Publishing, chainVars
<1>7. \A i \in 1..(script.next - 1) : Carried(MODELS[i])' /\ Kept(MODELS[i])'
  BY <1>1, <1>2, <1>5, <1>6 DEF Kept, Carried
<1>8. script.next > 1 => \A i \in DOMAIN pending' : pending'[i].name = Publishing
  BY <1>3, <1>4
<1>9. pc = "recording" => Kept(Publishing)'
  BY <1>5, <1>6 DEF Kept
<1>10. Own(pending[Len(pending)])' /\ pending'[Len(pending')].kind = kind
  BY <1>3, <1>4, <1>5, <1>6 DEF Own
<1>11. ScriptInv'
  BY <1>2, <1>4, <1>5, <1>6, <1>7, <1>8, <1>9, <1>10 DEF ScriptInv
<1> QED
  BY <1>0, <1>4, <1>5, <1>11, ScriptStepKeepsRest DEF IInv, TypeOK

LEMMA CheckStateKeepsInv ==
    ASSUME IInv, CheckState
    PROVE  IInv' /\ OfferedStep
<1>1. script.pc = "check" /\ UNCHANGED <<publishedBy, chainVars, gatewayVars, faults>>
  BY DEF CheckState
<1>2. script.next > 1 => pending = <<>>
  BY <1>1 DEF IInv, ScriptInv
<1> DEFINE lost == script.lost \ {Publishing}
<1>3. lost \in SUBSET Names
  BY DEF IInv, TypeOK
<1>4. CASE /\ status[Publishing] = "registered"
           /\ Send("records")
           /\ script' = [script EXCEPT !.pc = "recording", !.lost = lost]
  <2> HIDE DEF lost
  <2>1. script.lost \ {Publishing} \subseteq lost
    BY DEF lost
  <2> QED
    BY <1>1, <1>2, <1>3, <1>4, <2>1, SendKeepsInv
<1>5. CASE /\ Send("register")
           /\ script' = [script EXCEPT !.pc = "registering", !.lost = lost]
  <2> HIDE DEF lost
  <2>1. script.lost \ {Publishing} \subseteq lost
    BY DEF lost
  <2> QED
    BY <1>1, <1>2, <1>3, <1>5, <2>1, SendKeepsInv
<1> QED
  BY <1>4, <1>5 DEF CheckState

LEMMA RegisteredKeepsInv ==
    ASSUME IInv, Registered
    PROVE  IInv' /\ OfferedStep
<1>1. /\ script.pc = "registering" /\ pending = <<>> /\ Send("records")
      /\ script' = [script EXCEPT !.pc = "recording"]
      /\ UNCHANGED <<publishedBy, chainVars, gatewayVars, faults>>
  BY DEF Registered, Receipt
<1>2. script.lost \in SUBSET Names
      /\ script' = [script EXCEPT !.pc = "recording", !.lost = script.lost]
  BY <1>1 DEF IInv, TypeOK
<1>3. Kept(Publishing)
  BY <1>1 DEF IInv, ScriptInv
<1> QED
  BY <1>1, <1>2, <1>3, SendKeepsInv DEF Kept

LEMMA RecordedKeepsInv ==
    ASSUME IInv, Recorded
    PROVE  IInv' /\ OfferedStep
<1>0. TypeOK /\ ScriptInv
  BY DEF IInv
<1>1. /\ script.pc = "recording" /\ pending = <<>> /\ Advance
      /\ UNCHANGED <<pending, publishedBy, chainVars, gatewayVars, faults>>
  BY DEF Recorded, Receipt
<1>2. /\ script.run \in 1..MaxRuns /\ script.next \in 1..Len(MODELS)
      /\ \A i \in 1..script.next : Carried(MODELS[i]) /\ Kept(MODELS[i])
  <2>1. Carried(Publishing) /\ Kept(Publishing) /\ script.run \in 1..MaxRuns
    BY <1>0, <1>1 DEF ScriptInv
  <2>2. \A i \in 1..(script.next - 1) : Carried(MODELS[i]) /\ Kept(MODELS[i])
    BY <1>0, <1>1 DEF ScriptInv
  <2>3. script.next \in 1..Len(MODELS)
    BY <1>0, PublishingType
  <2> QED
    BY <2>1, <2>2, <2>3 DEF Publishing
<1>3. script' \in Scripts /\ script'.run = script.run
         /\ script'.lost = script.lost /\ script'.reverted = script.reverted =>
             \A n \in Names : (Kept(n) => Kept(n)') /\ (Carried(n) => Carried(n)')
  BY <1>1 DEF Kept, Carried, chainVars
<1>4. CASE script.next < Len(MODELS)
  <2>1. script' = [script EXCEPT !.pc = "check", !.next = script.next + 1]
    BY <1>1, <1>4 DEF Advance
  <2>2. /\ script' \in Scripts /\ script'.pc = "check" /\ script'.next = script.next + 1
        /\ script'.run = script.run /\ script'.lost = script.lost
        /\ script'.reverted = script.reverted
    <3>1. script \in Scripts
      BY <1>0 DEF TypeOK, Scripts
    <3>2. script.next + 1 \in 1..Len(MODELS)
      BY <1>2, <1>4, ModelsAreNames
    <3> QED
      BY <2>1, <3>1, <3>2 DEF Scripts
  <2>3. \A i \in 1..(script'.next - 1) :
           Carried(MODELS[i])' /\ Kept(MODELS[i])'
    BY <1>1, <1>2, <1>3, <2>2, ModelsAreNames
  <2>4. \A i \in DOMAIN pending' : FALSE
    BY <1>1
  <2>5. ScriptInv'
    BY <1>1, <1>2, <2>2, <2>3, <2>4 DEF ScriptInv
  <2> QED
    BY <1>1, <2>2, <2>5, ScriptStepKeepsRest DEF IInv, TypeOK
<1>5. CASE script.next = Len(MODELS)
  <2>1. script' = [script EXCEPT !.pc = "done"]
    BY <1>1, <1>2, <1>5, ModelsAreNames DEF Advance
  <2>2. /\ script' \in Scripts /\ script'.pc = "done"
        /\ script'.run = script.run /\ script'.lost = script.lost
        /\ script'.reverted = script.reverted
    BY <1>0, <2>1 DEF TypeOK, Scripts
  <2>3. \A n \in Names : Carried(n)' /\ Kept(n)'
    BY <1>1, <1>2, <1>3, <1>5, <2>2, ModelsAreNames
  <2>4. ScriptInv'
    BY <1>1, <2>2, <2>3 DEF ScriptInv
  <2> QED
    BY <1>1, <2>2, <2>4, ScriptStepKeepsRest DEF IInv, TypeOK
<1> QED
  BY <1>2, <1>4, <1>5, ModelsAreNames

LEMMA ScriptDiesKeepsInv ==
    ASSUME IInv, ScriptDies
    PROVE  IInv' /\ OfferedStep
<1>1. /\ script' = [script EXCEPT !.pc = "idle", !.next = 1, !.lost = {}, !.reverted = {}]
      /\ UNCHANGED <<pending, publishedBy, chainVars, gatewayVars>>
      /\ faults' \in 0..MaxFaults
  BY DEF ScriptDies, IInv, TypeOK
<1>2. script' \in Scripts /\ script'.pc = "idle"
  <2>1. script \in Scripts
    BY DEF IInv, TypeOK, Scripts
  <2>2. 1 \in 1..Len(MODELS)
    BY ModelsAreNames
  <2> QED
    BY <1>1, <2>1, <2>2 DEF Scripts
<1>3. ScriptInv'
  BY <1>2 DEF ScriptInv
<1> QED
  BY <1>1, <1>2, <1>3, ScriptStepKeepsRest DEF IInv, TypeOK
-----------------------------------------------------------------------------
LEMMA InitInv ==
    ASSUME Init
    PROVE  IInv
<1>1. record \in Records /\ writes \in Stamps
      /\ \A n \in Names, k \in AgentRecords : record[n][k] <= writes
  BY UnsetType, BoundsAssumption DEF Init, Stamps
<1>2. Booting
  BY DEF Init, Booting
<1>3. /\ SnapshotInv
      /\ refresh \in [Refreshes -> RefreshType]
      /\ \E served \in SUBSET Names : offers \in [served -> [AgentRecords -> Stamps]]
  BY <1>1, <1>2, BootingInv
<1>4. script \in Scripts
  BY ModelsAreNames, BoundsAssumption DEF Init, Scripts
<1>5. pending \in Seq(Transactions)
  BY EmptySeq DEF Init
<1>6. TypeOK
  <2>1. /\ publishedBy \in [Names -> 0..MaxRuns]
        /\ faults \in 0..MaxFaults
        /\ status \in [Names -> {"unknown", "registered", "gone"}]
        /\ delegated \in SUBSET Names
    BY BoundsAssumption DEF Init
  <2> QED
    BY <1>1, <1>3, <1>4, <1>5, <2>1 DEF Init, TypeOK, Scripts
<1>7. ScriptInv
  BY DEF Init, ScriptInv
<1> QED
  BY <1>3, <1>6, <1>7 DEF IInv

LEMMA NextInv ==
    ASSUME IInv, [Next]_vars
    PROVE  IInv' /\ OfferedStep
<1>1. CASE Chain
  BY <1>1, MineKeepsInv, ProvidersKeepInv DEF Chain
<1>2. CASE Script
  BY <1>2, RunScriptKeepsInv, CheckStateKeepsInv, RegisteredKeepsInv, RecordedKeepsInv,
     ScriptDiesKeepsInv DEF Script
<1>3. CASE Gateway
  <2>1. UNCHANGED <<status, scriptVars>>
    BY <1>3 DEF Gateway, Age, Restart, RefreshSoon, Reading, ReadLogs, LogsFail, ReadStates,
                ReadTexts, chainVars
  <2> QED
    BY <1>3, <2>1, GatewayKeepsInv, ScriptInvUnchanged DEF IInv
<1>4. CASE UNCHANGED vars
  <2>1. UNCHANGED <<publishedBy, chainVars, gatewayVars, scriptVars, faults>>
    BY <1>4 DEF vars, scriptVars
  <2>2. TypeOK' /\ SnapshotInv' /\ OfferedStep
    BY <2>1, ScriptStepKeepsRest DEF IInv, TypeOK, Scripts, scriptVars
  <2> QED
    BY <2>1, <2>2, ScriptInvUnchanged DEF IInv, chainVars
<1> QED
  BY <1>1, <1>2, <1>3, <1>4 DEF Next
-----------------------------------------------------------------------------
\* The inductive invariant of publisher, chain and gateway together.
THEOREM CatalogueInvariant == Spec => []IInv
<1>1. Init => IInv
  BY InitInv
<1>2. IInv /\ [Next]_vars => IInv'
  BY NextInv
<1> QED
  BY <1>1, <1>2, PTL DEF Spec

\* refreshSoon coalesces: no state has two refreshes under way, and inFlight
\* never stays set after the one it stands for (catalogue.ts:98-108).
THEOREM RefreshesNeverOverlap == Spec => []OneRefreshAtATime
<1>1. IInv => OneRefreshAtATime
  BY DEF IInv, SnapshotInv
<1> QED
  BY <1>1, CatalogueInvariant, PTL

\* A registry emptied, or unreadable, leaves models to route (catalogue.ts:62-70).
THEOREM GatewayServesSomething == Spec => []ServesSomething
<1>1. IInv => ServesSomething
  BY DEF IInv, SnapshotInv, ServesSomething
<1> QED
  BY <1>1, CatalogueInvariant, PTL

\* What publish-catalogue.ts reports is on the chain, whatever earlier runs
\* left in the queue of transactions.
THEOREM ReportIsTrue == Spec => []ReportedIsPublished
<1>1. IInv => ReportedIsPublished
  BY DEF IInv, ScriptInv, ReportedIsPublished
<1> QED
  BY <1>1, CatalogueInvariant, PTL

\* A model assembled from records of different moments is quoted soundly, as
\* long as every write on its own describes a model (agentFromRecords refuses
\* the rest).
THEOREM ServedQuotesAreSound == Spec => []QuotesAreSound
<1>1. ASSUME IInv
      PROVE  QuotesAreSound
  <2> SUFFICES ASSUME NEW n \in DOMAIN offers, NEW reasoning \in BOOLEAN
               PROVE  SoundMixture[offers[n]["identity"]][offers[n]["price"]][reasoning]
    BY DEF QuotesAreSound
  <2> DEFINE identity == offers[n]["identity"]
             price == offers[n]["price"]
  <2>1. n \in Names
    BY <1>1 DEF IInv, TypeOK
  <2>2. identity \in 1..writes /\ price \in 1..writes
    BY <1>1, <2>1 DEF IInv, SnapshotInv, RecordsOnlyAdvance, AgentRecords
  <2>3. identity \in 1..MaxWrites /\ price \in 1..MaxWrites
    BY <1>1, <2>2, BoundsAssumption DEF IInv, TypeOK, Stamps
  <2> HIDE DEF identity, price
  <2>4. Offered[identity] \in ModelSpec /\ Offered[price] \in ModelSpec
    BY <2>3, OfferedAssumption
  <2>5. Assembled(identity, price, reasoning) \in ModelSpec
    BY <2>4 DEF Assembled, ModelSpec
  <2>6. ASSUME NEW input \in 0..2, NEW requested \in 1..3
        PROVE  SoundQuote(Assembled(identity, price, reasoning), input, requested)
    <3>1. input \in Nat /\ requested \in Nat \ {0}
      OBVIOUS
    <3> QED
      BY <2>5, <3>1, QuoteIsSound
  <2>7. SoundMixture[identity][price][reasoning]
        = \A input \in 0..2, requested \in 1..3 :
             SoundQuote(Assembled(identity, price, reasoning), input, requested)
    BY <2>3, Zenon DEF SoundMixture
  <2>8. SoundMixture[identity][price][reasoning]
    BY <2>6, <2>7, Zenon
  <2> QED
    BY <2>8, Zenon DEF identity, price
<1> QED
  BY <1>1, CatalogueInvariant, PTL

\* What the gateway serves was on the chain while the refresh ran, record by
\* record (resolve.ts:21-71, catalogue.ts:147-164).
THEOREM ServedWasOnChain == Spec => OfferedWasOnChain
<1>1. IInv /\ [Next]_vars =>
         [up' = "serving" =>
             \E r \in Refreshes : refresh[r] # Settled /\
                \A n \in DOMAIN offers', k \in AgentRecords :
                   offers'[n][k] \in (refresh[r].since[n][k]..writes) \ {0}]_offers
  BY NextInv DEF OfferedStep
<1> QED
  BY <1>1, CatalogueInvariant, PTL DEF Spec, OfferedWasOnChain

\* Between restarts no served record goes back to an older one.
THEOREM ServedOnlyAdvances == Spec => PricesNeverGoBack
<1>1. IInv /\ [Next]_vars =>
         [\A n \in DOMAIN offers \cap DOMAIN offers', k \in AgentRecords :
             offers'[n][k] >= offers[n][k]]_offers
  BY NextInv DEF OfferedStep
<1> QED
  BY <1>1, CatalogueInvariant, PTL DEF Spec, PricesNeverGoBack
===============================================================================
