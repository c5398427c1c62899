---------------------------- MODULE CatalogueProps -----------------------------
(***************************************************************************)
(* What a caller of the gateway, a provider and the operator may rely on.  *)
(***************************************************************************)
EXTENDS Catalogue

Stamps == 0..MaxWrites
Records == [Names -> [AgentRecords -> Stamps]]

RefreshType ==
    [step : {"settled", "logs", "states", "texts"}, labels : SUBSET Names,
     todo : SUBSET Chunks, got : Records, since : Records]

Transactions == [kind : {"register", "records"}, name : Names, run : 1..MaxRuns]

\* The types of all variables.
TypeOK ==
    /\ status \in [Names -> {"unknown", "registered", "gone"}]
    /\ record \in Records
    /\ delegated \in SUBSET Names
    /\ writes \in Stamps
    /\ pending \in Seq(Transactions)
    /\ script \in [pc : {"idle", "check", "registering", "recording", "done"},
                   next : 1..Len(MODELS), run : 0..MaxRuns, lost : SUBSET Names,
                   reverted : SUBSET Names]
    /\ publishedBy \in [Names -> 0..MaxRuns]
    /\ up \in {"booting", "serving"}
    /\ source \in {"builtin", "ens"}
    /\ \E served \in SUBSET Names : offers \in [served -> [AgentRecords -> Stamps]]
    /\ stale \in BOOLEAN
    /\ inFlight \in BOOLEAN
    /\ refresh \in [Refreshes -> RefreshType]
    /\ faults \in 0..MaxFaults
-----------------------------------------------------------------------------
\* refreshSoon coalesces (catalogue.ts:98-108): while serving, a refresh is
\* under way exactly when inFlight says so, and it is the only one, whatever
\* failed and however long it takes.
OneRefreshAtATime ==
    /\ \A r, q \in Refreshes : refresh[r] # Settled /\ refresh[q] # Settled => r = q
    /\ (\E r \in Refreshes : refresh[r] # Settled) <=> inFlight \/ up = "booting"

\* An emptied registry, or one whose states could not be read, never leaves
\* the gateway without models to route (catalogue.ts:62-70).
ServesSomething == source = "ens" => offers # NoOffer

\* Every record that gets into the snapshot was on the chain at some moment
\* after the refresh that read it began, even though the records of one model,
\* and of different models, are read at different moments while their
\* publishers change them, and some of the reads fail.
OfferedWasOnChain ==
    [][up' = "serving" =>
          \E r \in Refreshes : refresh[r] # Settled /\
             \A n \in DOMAIN offers', k \in AgentRecords :
                offers'[n][k] \in (refresh[r].since[n][k]..writes) \ {0}]_offers

\* One refresh after another: between restarts no record of a model goes back
\* to an older value than the gateway has already served, which the overlap of
\* two refreshes would allow.
PricesNeverGoBack ==
    [][\A n \in DOMAIN offers \cap DOMAIN offers', k \in AgentRecords :
          offers'[n][k] >= offers[n][k]]_offers

\* A name got the records of the run under way, unless their transaction
\* reverted; and it is registered, unless registering it reverted or it was ended.
Carried(n) == publishedBy[n] = script.run \/ n \in script.reverted
Kept(n) == status[n] = "registered" \/ n \in script.lost

\* When publish-catalogue.ts reports its models published, none of its
\* transactions is still to come, and each name carries the records of that run
\* and not those of an earlier run that died with a transaction pending; only a
\* transaction of its own that reverted, or the end of a name, makes the report
\* wrong (agents.ts:131, 152: a receipt is waited for and its status not read).
ReportedIsPublished ==
    script.pc = "done" => pending = <<>> /\ \A n \in Names : Carried(n) /\ Kept(n)

\* "writes each model out as a name with price, provider and payment records.
\* After this has run the array is only a seed: the gateway reads the live
\* catalogue back off ENS" (publish-catalogue.ts:4-7): when the script has run,
\* the models that it reports published are the records it wrote.
PublishedAsReported ==
    script.pc = "done" => \A n \in Names : publishedBy[n] = script.run

\* The ModelSpec the gateway assembles: its parts may come from different writes,
\* and a reasoning record that could not be read makes it a plain model.
Assembled(identity, price, reasoning) ==
    [inputPrice  |-> Offered[price].inputPrice,
     outputPrice |-> Offered[price].outputPrice,
     maxOutput   |-> Offered[identity].maxOutput,
     reasoning   |-> reasoning /\ Offered[identity].reasoning]

\* Whether the quotes of such a mixture cover what they authorise.
SoundMixture ==
    [identity \in 1..MaxWrites |-> [price \in 1..MaxWrites |-> [reasoning \in BOOLEAN |->
        \A input \in 0..2, requested \in 1..3 :
            SoundQuote(Assembled(identity, price, reasoning), input, requested)]]]

\* Whatever mixture of records the gateway serves, its quotes are sound
\* (quoteRequest, pricing.ts:137-177, over catalogue.ts:33-48).
QuotesAreSound ==
    \A n \in DOMAIN offers, reasoning \in BOOLEAN :
        SoundMixture[offers[n]["identity"]][offers[n]["price"]][reasoning]
-----------------------------------------------------------------------------
(* The inductive invariant *)

\* A refresh that has settled holds nothing of what it read.
SettledIsSettled == \A r \in Refreshes : refresh[r].step = "settled" => refresh[r] = Settled

\* Later writes have larger numbers: what a refresh has got is no older than the
\* snapshot and than the refresh, and the chain is no older than any of them,
\* unless its record is blank by now.
RecordsOnlyAdvance ==
    \A n \in Names, k \in AgentRecords :
        /\ record[n][k] <= writes
        /\ \A r \in Refreshes :
              LET got == refresh[r].got[n][k]
                  since == refresh[r].since[n][k]
              IN  /\ got <= writes /\ since <= writes
                  /\ record[n][k] # 0 => got <= record[n][k] /\ since <= record[n][k]
                  /\ got # 0 => since <= got /\ (n \in DOMAIN offers => offers[n][k] <= got)
        /\ n \in DOMAIN offers =>
              /\ offers[n][k] \in 1..writes
              /\ record[n][k] # 0 => offers[n][k] <= record[n][k]

SnapshotInv ==
    /\ SettledIsSettled
    /\ OneRefreshAtATime
    /\ RecordsOnlyAdvance
    /\ source = "ens" <=> offers # NoOffer

Own(tx) == tx.name = Publishing /\ tx.run = script.run

\* What the script knows of the models it has dealt with, and of the
\* transaction it is waiting for: the last one sent.
ScriptInv ==
    /\ script.pc \in {"check", "registering", "recording"} =>
          /\ script.run \in 1..MaxRuns
          /\ \A i \in 1..(script.next - 1) :
                Carried(MODELS[i]) /\ Kept(MODELS[i])
          /\ script.next > 1 => \A i \in DOMAIN pending : pending[i].name = Publishing
    /\ script.pc = "check" /\ script.next > 1 => pending = <<>>
    /\ script.pc = "registering" =>
          IF pending = <<>> THEN Kept(Publishing)
          ELSE Own(pending[Len(pending)]) /\ pending[Len(pending)].kind = "register"
    /\ script.pc = "recording" =>
          /\ Kept(Publishing)
          /\ IF pending = <<>> THEN Carried(Publishing)
             ELSE Own(pending[Len(pending)]) /\ pending[Len(pending)].kind = "records"
    /\ script.pc = "done" =>
          pending = <<>> /\ \A n \in Names : Carried(n) /\ Kept(n)

\* What the proofs show inductive; TypeOK, OneRefreshAtATime, ServesSomething
\* and ReportedIsPublished are part of it or follow from it.
IInv == TypeOK /\ SnapshotInv /\ ScriptInv
-----------------------------------------------------------------------------
\* What the chain says can be offered.
Published ==
    {n \in Names : status[n] = "registered" /\ \A k \in AgentRecords : record[n][k] # 0}

\* Once nobody publishes and reads stop failing, the gateway ends up serving
\* what is published, as published, whatever failed before; a registry without
\* a usable model leaves it with what it had (catalogue.ts:62-70).
CatalogueConverges ==
    <>[](Published # {} => offers = [n \in Published |-> record[n]])

\* "ENS being briefly unreachable slows nothing down and fails nothing"
\* (catalogue.ts:18-20): a model that is served, and stays published, is not
\* dropped because some of the calls of a refresh failed.
UnreachableFailsNothing ==
    [][\A n \in DOMAIN offers :
          \/ n \in DOMAIN offers'
          \/ up' = "booting"
          \/ n \notin Published
          \/ \E r \in Refreshes : refresh[r] # Settled /\ record[n] # refresh[r].since[n]]_offers
===============================================================================
