------------------------------- MODULE Catalogue -------------------------------
(***************************************************************************)
(* The model catalogue: packages/ens publishes each model as a name with    *)
(* text records, apps/gateway/src/catalogue.ts keeps a snapshot of what it  *)
(* reads back.  Publisher, providers, registry and gateway share nothing    *)
(* but the chain; a refresh reads it in many calls, each at its own moment. *)
(***************************************************************************)
EXTENDS Pricing, Sequences, FiniteSets

CONSTANTS
    MODELS,       \* the models the publisher's checkout lists, in order
    Offered,      \* what the n-th write to the resolver says: a ModelSpec
    Delegable,    \* the models handed to a provider of their own
    Chunks,       \* which records of which names one eth_call of readTexts asks for
    Refreshes,    \* promises refresh() may have returned and not settled
    MaxWrites,    \* bounds: writes to the resolver,
    MaxRuns,      \* runs of the publishing script,
    MaxFaults     \* and failed calls, reverted transactions and restarts of the gateway

Names == {MODELS[i] : i \in DOMAIN MODELS}

ASSUME ModelsAssumption ==
    /\ MODELS \in Seq(Names)
    /\ MODELS # <<>>
    /\ \A i, j \in DOMAIN MODELS : MODELS[i] = MODELS[j] => i = j
ASSUME ChunksAssumption == UNION Chunks = Names \X {"identity", "price"}
ASSUME RefreshAssumption == 1 \in Refreshes /\ Refreshes \subseteq Nat
ASSUME OfferedAssumption == \A w \in 1..MaxWrites : Offered[w] \in ModelSpec
ASSUME BoundsAssumption ==
    MaxWrites \in Nat /\ MaxRuns \in Nat /\ MaxFaults \in Nat

VARIABLES
    status,       \* per name: what the agent registry knows of it
    record,       \* per name and record: the write that put it there, 0 for no usable value
    delegated,    \* names whose provider may edit the price records
    writes,       \* number of writes to the resolver
    pending,      \* the operator's transactions not yet mined, in nonce order
    script,       \* publish-catalogue.ts
    publishedBy,  \* history: per name, the run whose records it got last
    up,           \* the gateway: booting until initializeCatalogue returns
    source,       \* where the snapshot it serves came from,
    offers,       \* and per model in it, the records it was assembled from
    stale,        \* REFRESH_INTERVAL_MS have passed since the snapshot was read
    inFlight,     \* refreshSoon's promise is set
    refresh,      \* per promise: how far its reads are
    faults        \* how many calls failed, transactions reverted and gateways stopped

chainVars == <<status, record, delegated, writes>>
scriptVars == <<pending, script, publishedBy>>
gatewayVars == <<up, source, offers, stale, inFlight, refresh>>
vars == <<chainVars, scriptVars, gatewayVars, faults>>

\* The records agentFromRecords insists on, in two groups: what the model is,
\* and what it costs.  The others are null, or no, when they are missing.
AgentRecords == {"identity", "price"}

Unset == [n \in Names |-> [k \in AgentRecords |-> 0]]
NoOffer == [n \in {} |-> Unset[n]]
Settled == [step |-> "settled", labels |-> {}, todo |-> {}, got |-> Unset, since |-> Unset]
Started == [step |-> "logs", labels |-> {}, todo |-> {}, got |-> Unset, since |-> record]

Init ==
    /\ status = [n \in Names |-> "unknown"]
    /\ record = Unset
    /\ delegated = {}
    /\ writes = 0
    /\ pending = <<>>
    /\ script = [pc |-> "idle", next |-> 1, run |-> 0, lost |-> {}, reverted |-> {}]
    /\ publishedBy = [n \in Names |-> 0]
    /\ up = "booting"
    /\ source = "builtin"
    /\ offers = NoOffer
    /\ stale = FALSE
    /\ inFlight = FALSE
    /\ refresh = [r \in Refreshes |-> IF r = 1 THEN Started ELSE Settled]
    /\ faults = 0

Fault == faults < MaxFaults /\ faults' = faults + 1
-----------------------------------------------------------------------------
(* The chain and those who write to it *)

\* A record transaction replaces all of the name's records at once.
Written(n) == [record EXCEPT ![n] = [k \in AgentRecords |-> writes + 1]]

\* What a transaction does when it succeeds.  Registering a name that is
\* registered changes nothing.
Effect(tx) ==
    \/ /\ tx.kind = "register"
       /\ status' = [status EXCEPT ![tx.name] = "registered"]
       /\ UNCHANGED <<record, writes, publishedBy>>
    \/ /\ tx.kind = "records"
       /\ writes < MaxWrites
       /\ record' = Written(tx.name)
       /\ writes' = writes + 1
       /\ publishedBy' = [publishedBy EXCEPT ![tx.name] = tx.run]
       /\ UNCHANGED status

\* The names the script leaves without what it sent for them; it does not know.
Missed(tx, kind, names) ==
    IF tx.run = script.run /\ tx.kind = kind THEN names \cup {tx.name} ELSE names

\* The operator's next transaction is mined, and succeeds or reverts (a role
\* was taken back, the gas ran out): either way it has a receipt.
Mine ==
    /\ pending # <<>>
    /\ pending' = Tail(pending)
    /\ \/ Effect(Head(pending)) /\ UNCHANGED <<script, faults>>
       \/ /\ Fault
          /\ script' = [script EXCEPT !.lost = Missed(Head(pending), "register", @),
                                     !.reverted = Missed(Head(pending), "records", @)]
          /\ UNCHANGED <<status, record, writes, publishedBy>>
    /\ UNCHANGED <<delegated, gatewayVars>>

\* The name expires, or its owner ends it.  Its records stay on the resolver.
Unregister(n) ==
    /\ status[n] = "registered"
    /\ status' = [status EXCEPT ![n] = "gone"]
    /\ script' = [script EXCEPT !.lost = IF script.pc = "idle" THEN {} ELSE @ \cup {n}]
    /\ UNCHANGED <<record, delegated, writes, pending, publishedBy, gatewayVars, faults>>

\* delegateAgentRecords: the provider of one agent gets its price records, or
\* loses them again.
DelegateAgentRecords(n, grant) ==
    /\ delegated' = IF grant THEN delegated \cup {n} ELSE delegated \ {n}
    /\ n \in Delegable
    /\ delegated' # delegated
    /\ UNCHANGED <<status, record, writes, scriptVars, gatewayVars, faults>>

\* The provider edits the price it was handed, to a number or to something
\* that toInt does not take for one.
EditPrice(n, usable) ==
    /\ n \in delegated
    /\ writes < MaxWrites
    /\ writes' = writes + 1
    /\ record' = [record EXCEPT ![n]["price"] = IF usable THEN writes + 1 ELSE 0]
    /\ UNCHANGED <<status, delegated, scriptVars, gatewayVars, faults>>
-----------------------------------------------------------------------------
(* publish-catalogue.ts: publishAgent for each model in turn *)

RunScript ==
    /\ script.pc \in {"idle", "done"}
    /\ script.run < MaxRuns
    /\ script' = [pc |-> "check", next |-> 1, run |-> script.run + 1,
                  lost |-> {}, reverted |-> {}]
    /\ UNCHANGED <<pending, publishedBy, chainVars, gatewayVars, faults>>

Publishing == MODELS[script.next]
Send(kind) == pending' = Append(pending, [kind |-> kind, name |-> Publishing, run |-> script.run])

\* getState decides whether the name has to be registered first.  An earlier
\* run may have left a transaction that will change the answer.
CheckState ==
    /\ script.pc = "check"
    /\ \/ /\ status[Publishing] = "registered"
          /\ Send("records")
          /\ script' = [script EXCEPT !.pc = "recording", !.lost = @ \ {Publishing}]
       \/ /\ status[Publishing] # "registered"
          /\ Send("register")
          /\ script' = [script EXCEPT !.pc = "registering", !.lost = @ \ {Publishing}]
    /\ UNCHANGED <<publishedBy, chainVars, gatewayVars, faults>>

\* waitForTransactionReceipt: nonces are mined in order, so the script's last
\* transaction is mined when none is left.  The receipt's status is not looked at.
Receipt == pending = <<>>

Registered ==
    /\ script.pc = "registering"
    /\ Receipt
    /\ Send("records")
    /\ script' = [script EXCEPT !.pc = "recording"]
    /\ UNCHANGED <<publishedBy, chainVars, gatewayVars, faults>>

Advance ==
    script' = IF script.next < Len(MODELS)
              THEN [script EXCEPT !.pc = "check", !.next = @ + 1]
              ELSE [script EXCEPT !.pc = "done"]

\* Mutant: publishAgent returns once the transaction is sent.
RecordedOnceSent ==
    /\ script.pc = "recording"
    /\ Advance
    /\ UNCHANGED <<pending, publishedBy, chainVars, gatewayVars, faults>>

Recorded ==
    /\ script.pc = "recording"
    /\ Receipt
    /\ Advance
    /\ UNCHANGED <<pending, publishedBy, chainVars, gatewayVars, faults>>

\* A call throws, or the operator stops the script: what was sent stays sent.
ScriptDies ==
    /\ script.pc \in {"check", "registering", "recording"}
    /\ script' = [script EXCEPT !.pc = "idle", !.next = 1, !.lost = {}, !.reverted = {}]
    /\ UNCHANGED <<pending, publishedBy, chainVars, gatewayVars, faults>>
-----------------------------------------------------------------------------
(* catalogue.ts *)

\* Mutant: a snapshot is replaced also by a catalogue without models.
KeepNever(agents) == FALSE
KeepCurrent(agents) == agents = {}

\* Mutant: the fallback for a record that did not arrive is the one served so far.
OrAsServed(n, k, value) ==
    IF value = 0 /\ n \in DOMAIN offers THEN offers[n][k] ELSE value
\* readTexts: no value, a failed call and a malformed record are all skipped.
Value(n, k, value) == value

\* agentFromRecords: a name that lacks a required record is no agent.
Usable(got, labels) == {n \in labels : \A k \in AgentRecords : got[n][k] # 0}

\* The promise settles: `finally` clears inFlight, and the startup's await
\* lets the server listen.
End(r) ==
    /\ refresh' = [refresh EXCEPT ![r] = Settled]
    /\ up' = "serving"
    /\ inFlight' = FALSE

\* The end of refresh(): the agents read become the snapshot, unless there are none.
Finish(r, got, labels) ==
    LET agents == Usable(got, labels) IN
    /\ \/ KeepCurrent(agents) /\ UNCHANGED <<source, offers, stale>>
       \/ /\ ~KeepCurrent(agents)
          /\ source' = "ens"
          /\ offers' = [n \in agents |-> got[n]]
          /\ stale' = FALSE
    /\ End(r)

\* Mutant: a refresh begins although one is under way.
BeginWithoutCoalescing == stale /\ up = "serving"
MayBegin == stale /\ up = "serving" /\ ~inFlight

\* current(): a request finds the snapshot stale; it is served from it all the
\* same, and a refresh begins unless one is under way.
RefreshSoon(r) ==
    /\ MayBegin
    /\ refresh[r] = Settled
    /\ inFlight' = TRUE
    /\ refresh' = [refresh EXCEPT ![r] = Started]
    /\ UNCHANGED <<up, source, offers, stale, chainVars, scriptVars, faults>>

\* listAgentLabels: the names ever registered, from the registry's logs.
ReadLogs(r) ==
    /\ refresh[r].step = "logs"
    /\ LET labels == {n \in Names : status[n] # "unknown"} IN
       \/ /\ labels = {}
          /\ Finish(r, Unset, {})
       \/ /\ labels # {}
          /\ refresh' = [refresh EXCEPT ![r].step = "states", ![r].labels = labels]
          /\ UNCHANGED <<up, source, offers, stale, inFlight>>
    /\ UNCHANGED <<chainVars, scriptVars, faults>>

\* Mutant: inFlight is cleared only where the refresh succeeds.
LogsFailForGood(r) ==
    /\ refresh[r].step = "logs"
    /\ Fault
    /\ refresh' = [refresh EXCEPT ![r] = Settled]
    /\ up' = "serving"
    /\ UNCHANGED <<inFlight, source, offers, stale, chainVars, scriptVars>>

\* getContractEvents throws, and with it the refresh.
LogsFail(r) ==
    /\ refresh[r].step = "logs"
    /\ Fault
    /\ End(r)
    /\ UNCHANGED <<source, offers, stale, chainVars, scriptVars>>

Proceed(r, labels) ==
    \/ /\ labels = {}
       /\ Finish(r, Unset, {})
    \/ /\ labels # {}
       /\ refresh' = [refresh EXCEPT ![r].step = "texts", ![r].labels = labels,
                                     ![r].todo = {c \in Chunks : \E q \in c : q[1] \in labels}]
       /\ UNCHANGED <<up, source, offers, stale, inFlight>>

\* getState of every label, in one call: those not registered now drop out,
\* and so do all of them when the call fails.
ReadStates(r) ==
    /\ refresh[r].step = "states"
    /\ \/ /\ Proceed(r, {n \in refresh[r].labels : status[n] = "registered"})
          /\ UNCHANGED faults
       \/ Fault /\ Proceed(r, {})
    /\ UNCHANGED <<chainVars, scriptVars>>

\* What a call of readTexts yields: the records as they are at this moment;
\* a name that is not registered resolves to nothing.
Answer(c) ==
    [n \in Names |-> [k \in AgentRecords |->
        IF <<n, k>> \in c /\ status[n] = "registered" THEN record[n][k] ELSE 0]]

Merged(r, c, answer) ==
    [n \in Names |-> [k \in AgentRecords |->
        IF <<n, k>> \in c THEN Value(n, k, answer[n][k]) ELSE refresh[r].got[n][k]]]

Received(r, c, answer) ==
    \/ /\ refresh[r].todo = {c}
       /\ Finish(r, Merged(r, c, answer), refresh[r].labels)
    \/ /\ refresh[r].todo # {c}
       /\ refresh' = [refresh EXCEPT ![r].todo = @ \ {c}, ![r].got = Merged(r, c, answer)]
       /\ UNCHANGED <<up, source, offers, stale, inFlight>>

\* viem splits a multicall over a name's keys into several eth_calls.  Each is
\* answered at its own moment, or fails, which readTexts takes for no value.
\* With the last answer the refresh ends.
ReadTexts(r, c) ==
    /\ refresh[r].step = "texts"
    /\ c \in refresh[r].todo
    /\ \/ Received(r, c, Answer(c)) /\ UNCHANGED faults
       \/ Fault /\ Received(r, c, Unset)
    /\ UNCHANGED <<chainVars, scriptVars>>

\* REFRESH_INTERVAL_MS pass over the snapshot.
Age ==
    /\ ~stale
    /\ stale' = TRUE
    /\ UNCHANGED <<up, source, offers, inFlight, refresh, chainVars, scriptVars, faults>>

\* The gateway restarts: the snapshot is the built-in one until ENS is read.
Restart ==
    /\ Fault
    /\ up' = "booting"
    /\ source' = "builtin"
    /\ offers' = NoOffer
    /\ stale' = FALSE
    /\ inFlight' = FALSE
    /\ refresh' = [r \in Refreshes |-> IF r = 1 THEN Started ELSE Settled]
    /\ UNCHANGED <<chainVars, scriptVars>>
-----------------------------------------------------------------------------
Chain ==
    \/ Mine
    \/ \E n \in Names :
          \/ Unregister(n)
          \/ \E grant \in BOOLEAN : DelegateAgentRecords(n, grant)
          \/ \E usable \in BOOLEAN : EditPrice(n, usable)

Script == RunScript \/ CheckState \/ Registered \/ Recorded \/ ScriptDies

Reading(r) ==
    \/ ReadLogs(r) \/ LogsFail(r) \/ ReadStates(r)
    \/ \E c \in Chunks : ReadTexts(r, c)

Gateway == Age \/ Restart \/ \E r \in Refreshes : RefreshSoon(r) \/ Reading(r)

Next == Chain \/ Script \/ Gateway

Spec == Init /\ [][Next]_vars

\* The chain mines what was sent, every read settles (viem's transport has a
\* timeout), time passes, and requests keep coming, which is what begins a refresh.
CatalogueFairness ==
    /\ WF_vars(Mine)
    /\ WF_vars(Age)
    /\ \A r \in Refreshes : WF_vars(Reading(r)) /\ WF_vars(RefreshSoon(r))

FairSpec == Spec /\ CatalogueFairness
===============================================================================
