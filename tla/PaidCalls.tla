------------------------------- MODULE PaidCalls -------------------------------
(***************************************************************************)
(* The paid inference pipeline of apps/gateway: session check, x402        *)
(* pricing, the route handlers of routes/chat.ts, settlement through the   *)
(* facilitator and the ledger.  One process per paid POST (Calls) and one  *)
(* per GET /v1/chat/stream/:token (Gets); every await of the source is a   *)
(* point where another process may run.                                    *)
(*                                                                         *)
(* The database (spent, shut, row, payment) and Hedera (transfer) survive a *)
(* restart of the gateway; tickets, contexts and the quote cache do not.    *)
(***************************************************************************)
EXTENDS QuoteCache, ErrorMapping

CONSTANTS
    Gets,            \* requests for GET /v1/chat/stream/:token
    Sessions,
    SessionOf,       \* the session whose token a call carries
    KindOf,          \* "completion" or "stream"
    BodyOf,          \* the request body of a call
    SpendCap,        \* Session.spendCapAtomic
    PerRequestCap,   \* Session.perRequestCapAtomic
    MaxInFlight,     \* bound: calls the gateway serves at the same time
    MaxRestarts,     \* bound: restarts of the gateway process
    Repricing,       \* whether catalogue refreshes change prices
    Faults           \* subset of {"db", "facilitator"}: what may throw

ASSUME CallsAssumption ==
    /\ IsFiniteSet(Calls)
    /\ Calls \cap Gets = {}
    /\ Nothing \notin Calls \cup Gets
    /\ SessionOf \in [Calls -> Sessions]
    /\ KindOf \in [Calls -> {"completion", "stream"}]
    /\ BodyOf \in [Calls -> Bodies]
ASSUME CapAssumption ==
    /\ SpendCap \in [Sessions -> Nat \ {0}]
    /\ PerRequestCap \in [Sessions -> Nat \ {0}]

Procs == Calls \cup Gets

\* The columns of Payment the pipeline reads back.
PaymentRow == [status : {"SETTLED", "FAILED"}, amount : Prices,
               request : Procs \cup {Nothing}]

ASSUME NothingAssumption == Nothing \notin PaymentRow
ASSUME BoundAssumption ==
    /\ MaxInFlight \in Nat \ {0}
    /\ MaxRestarts \in Nat
    /\ Repricing \in BOOLEAN
    /\ Faults \subseteq {"db", "facilitator"}

VARIABLES
    pc,          \* where each process is
    signed,      \* amount the client's payment payload authorises
    required,    \* amount of the x402 requirements (dynamicPrice)
    quoted,      \* amount the handler priced: PricedRequest.quote.amountAtomic
    settlement,  \* context.settlement
    booked,      \* calls whose context holds a paymentId
    tickets,     \* the delivery tickets still in the Map, by issuing call
    claim,       \* the call whose ticket a GET holds
    shut,        \* sessions with revokedAt set or expiresAt passed
    spent,       \* Session.spentAtomic
    row,         \* InferenceRequest.status, by the process that opened the row
    payment,     \* the Payment row of a call
    transfer,    \* what became of the signed transfer on Hedera
    restarts

memoryVars == <<pc, signed, required, quoted, settlement, booked, tickets, claim>>
storeVars  == <<shut, spent, row, payment>>
vars == <<quoteVars, memoryVars, storeVars, transfer, restarts>>

\* A call that passed loadSession and whose settlement is not booked yet.
Charging == {"naming", "pricing", "previewing", "verifying", "handling",
             "opening", "serving", "settling", "booking"}
Running == Charging \cup {"replying", "linking", "delivering"}
Ended == {"refused", "unsettled", "answered", "undelivered", "lost"}

\* Mutants: the cap, or revocation and expiry, are not looked at.
OpenWithoutCap(s) == s \notin shut
OpenWithoutRevocation(s) == spent[s] < SpendCap[s]
Open(s) == s \notin shut /\ spent[s] < SpendCap[s]
Admitted == {c \in Calls : pc[c] \in Charging}
InFlight(s) == {c \in Admitted : SessionOf[c] = s}

Goto(p, label) == pc' = [pc EXCEPT ![p] = label]

Init ==
    /\ QuoteInit
    /\ pc = [p \in Procs |-> "new"]
    /\ signed = [c \in Calls |-> Nothing]
    /\ required = [c \in Calls |-> Nothing]
    /\ quoted = [c \in Calls |-> Nothing]
    /\ settlement = [c \in Calls |-> "none"]
    /\ booked = {}
    /\ tickets = {}
    /\ claim = [g \in Gets |-> Nothing]
    /\ shut = {}
    /\ spent = [s \in Sessions |-> 0]
    /\ row = [p \in Procs |-> "none"]
    /\ payment = [c \in Calls |-> Nothing]
    /\ transfer = [c \in Calls |-> "none"]
    /\ restarts = 0
-----------------------------------------------------------------------------
(* Authentication: middleware/session.ts *)

\* loadSession reads the row; the cap test uses the spend recorded by now.  (A
\* read that throws refuses the call too, as NameChecked may.)
LoadSession(c) ==
    /\ pc[c] = "new"
    /\ Cardinality(Admitted) < MaxInFlight
    /\ Goto(c, IF Open(SessionOf[c]) THEN "naming" ELSE "refused")
    /\ UNCHANGED <<quoteVars, signed, required, quoted, settlement, booked,
                   tickets, claim, storeVars, transfer, restarts>>

\* isSessionNameLive answers; only `false` turns the caller away.
NameChecked(c) ==
    /\ pc[c] = "naming"
    /\ \E live \in {TRUE, FALSE, Nothing} :
          Goto(c, IF live = FALSE THEN "refused" ELSE "pricing")
    /\ UNCHANGED <<quoteVars, signed, required, quoted, settlement, booked,
                   tickets, claim, storeVars, transfer, restarts>>
-----------------------------------------------------------------------------
(* Pricing: quote.ts, called from x402.ts and from the handlers *)

AsksPrice == {"pricing", "previewing", "handling"}

StartCount(c) ==
    /\ pc[c] \in AsksPrice
    /\ Miss(c, BodyOf[c])
    /\ UNCHANGED <<memoryVars, storeVars, transfer, restarts>>

CountFails(c) ==
    /\ pc[c] \in AsksPrice
    /\ CountFailed(c)
    /\ Goto(c, "refused")
    /\ UNCHANGED <<signed, required, quoted, settlement, booked, tickets, claim,
                   storeVars, transfer, restarts>>

\* dynamicPrice: a payment is accepted only for exactly the amount now required.
DynamicPrice(c) ==
    /\ pc[c] = "pricing"
    /\ \E q \in Prices :
          /\ Quoted(c, BodyOf[c], q)
          /\ required' = [required EXCEPT ![c] = q]
          /\ Goto(c, IF signed[c] = Nothing THEN "previewing"
                     ELSE IF signed[c] = q THEN "verifying" ELSE "refused")
    /\ UNCHANGED <<signed, quoted, settlement, booked, tickets, claim,
                   storeVars, transfer, restarts>>

\* The 402 challenge goes out; the client signs what it requires and retries.
QuotePreview(c) ==
    /\ pc[c] = "previewing"
    /\ \E q \in Prices : Quoted(c, BodyOf[c], q)
    /\ signed' = [signed EXCEPT ![c] = required[c]]
    /\ Goto(c, "new")
    /\ UNCHANGED <<required, quoted, settlement, booked, tickets, claim,
                   storeVars, transfer, restarts>>

\* The facilitator verifies the payload before the handler runs.
Verify(c) ==
    /\ pc[c] = "verifying"
    /\ \E label \in {"handling", "refused"} : Goto(c, label)
    /\ UNCHANGED <<quoteVars, signed, required, quoted, settlement, booked,
                   tickets, claim, storeVars, transfer, restarts>>
-----------------------------------------------------------------------------
(* The handlers: routes/chat.ts, inference.ts *)

\* The handler finished below 400, so the middleware asks for settlement.
Settle(c) == transfer' = [transfer EXCEPT ![c] = "submitted"]

WithinRequestCap(c, q) == q <= PerRequestCap[SessionOf[c]]

\* The handler prices the body again and tests that price against the cap.
HandlerPrice(c) ==
    /\ pc[c] = "handling"
    /\ \E q \in Prices :
          /\ Quoted(c, BodyOf[c], q)
          /\ quoted' = [quoted EXCEPT ![c] = q]
          /\ \/ /\ ~WithinRequestCap(c, q)
                /\ Goto(c, "refused")
                /\ UNCHANGED <<tickets, transfer>>
             \/ /\ WithinRequestCap(c, q)
                /\ KindOf[c] = "completion"
                /\ Goto(c, "opening")
                /\ UNCHANGED <<tickets, transfer>>
             \/ /\ WithinRequestCap(c, q)
                /\ KindOf[c] = "stream"
                /\ tickets' = tickets \cup {c}
                /\ Settle(c)
                /\ Goto(c, "settling")
    /\ UNCHANGED <<signed, required, settlement, booked, claim, storeVars, restarts>>

OpenRow(c) ==
    /\ pc[c] = "opening"
    /\ row' = [row EXCEPT ![c] = "PENDING"]
    /\ Goto(c, "serving")
    /\ UNCHANGED <<quoteVars, signed, required, quoted, settlement, booked,
                   tickets, claim, shut, spent, payment, transfer, restarts>>

\* The insert threw, with or without having committed.
OpenRowFails(c) ==
    /\ pc[c] = "opening"
    /\ "db" \in Faults
    /\ UNCHANGED row \/ row' = [row EXCEPT ![c] = "PENDING"]
    /\ Goto(c, "refused")
    /\ UNCHANGED <<quoteVars, signed, required, quoted, settlement, booked,
                   tickets, claim, shut, spent, payment, transfer, restarts>>

\* runCompletion: the provider answered and closeInferenceRequest committed.
Complete(c) ==
    /\ pc[c] = "serving"
    /\ row' = [row EXCEPT ![c] = "SETTLED"]
    /\ Settle(c)
    /\ Goto(c, "settling")
    /\ UNCHANGED <<quoteVars, signed, required, quoted, settlement, booked,
                   tickets, claim, shut, spent, payment, restarts>>

\* Mutant: the catch block forgets failInferenceRequest.
FailRowForgotten(p) == UNCHANGED row

\* What throws may be closeInferenceRequest, with or without having committed,
\* and failInferenceRequest swallows its own errors.
FailRow(p) ==
    \/ row' = [row EXCEPT ![p] = "FAILED"]
    \/ "db" \in Faults /\ (UNCHANGED row \/ row' = [row EXCEPT ![p] = "SETTLED"])

\* The provider (or the closing update) threw.  x402 asks for the settlement of
\* whatever was answered below 400, so nothing but the mapping of the error to a
\* status keeps a failed completion from being paid for.
CompletionFails(c) ==
    /\ pc[c] = "serving"
    /\ FailRow(c)
    /\ \E status \in ErrorStatuses :
          \/ /\ status >= 400
             /\ Goto(c, "refused")
             /\ UNCHANGED transfer
          \/ /\ status < 400
             /\ Settle(c)
             /\ Goto(c, "settling")
    /\ UNCHANGED <<quoteVars, signed, required, quoted, settlement, booked,
                   tickets, claim, shut, spent, payment, restarts>>
-----------------------------------------------------------------------------
(* Settlement: the facilitator, x402.ts hooks, ledger.ts *)

\* External: Hedera executes the submitted transfer, possibly after the gateway
\* stopped waiting for it.
Transfer(c) ==
    /\ transfer[c] = "submitted"
    /\ transfer' = [transfer EXCEPT ![c] = "moved"]
    /\ UNCHANGED <<quoteVars, memoryVars, storeVars, restarts>>

\* onAfterSettle: the facilitator answered.
SettleAnswered(c) ==
    /\ pc[c] = "settling"
    /\ \/ /\ transfer[c] = "moved"
          /\ settlement' = [settlement EXCEPT ![c] = "success"]
          /\ UNCHANGED transfer
       \/ /\ transfer[c] = "submitted"
          /\ settlement' = [settlement EXCEPT ![c] = "failure"]
          /\ transfer' = [transfer EXCEPT ![c] = "rejected"]
    /\ Goto(c, "booking")
    /\ UNCHANGED <<quoteVars, signed, required, quoted, booked, tickets, claim,
                   storeVars, restarts>>

\* onSettleFailure: no answer within 30 s, whatever Hedera did or will do.
SettleThrows(c) ==
    /\ pc[c] = "settling"
    /\ "facilitator" \in Faults
    /\ settlement' = [settlement EXCEPT ![c] = "failure"]
    /\ Goto(c, "booking")
    /\ UNCHANGED <<quoteVars, signed, required, quoted, booked, tickets, claim,
                   storeVars, transfer, restarts>>

\* Mutants: a failed settlement is booked like any other, or only payments whose
\* inference row is already closed count as settled.
StatusPresumed(c) == "SETTLED"
StatusOfClosedRow(c) ==
    IF settlement[c] = "success" /\ row[c] = "SETTLED" THEN "SETTLED" ELSE "FAILED"
StatusOf(c) == IF settlement[c] = "success" THEN "SETTLED" ELSE "FAILED"

Charge(c) == IF settlement[c] = "success" THEN required[c] ELSE 0

\* Mutant: the context's inferenceRequestId is not passed on.
RequestNever(c) == Nothing
RequestOf(c) == IF row[c] = "none" THEN Nothing ELSE c

\* Mutant: the two writes are not one transaction, and the second may fail alone.
WritePaymentTorn(c) ==
    /\ payment' = [payment EXCEPT ![c] =
          [status |-> StatusOf(c), amount |-> required[c], request |-> RequestOf(c)]]
    /\ \/ spent' = [spent EXCEPT ![SessionOf[c]] = @ + Charge(c)]
       \/ "db" \in Faults /\ UNCHANGED spent

\* The transaction of recordSettlement: the payment row, and for a success the
\* session's spend counter.
WritePayment(c) ==
    /\ payment' = [payment EXCEPT ![c] =
          [status |-> StatusOf(c), amount |-> required[c], request |-> RequestOf(c)]]
    /\ spent' = [spent EXCEPT ![SessionOf[c]] = @ + Charge(c)]

RecordSettlement(c) ==
    /\ pc[c] = "booking"
    /\ WritePayment(c)
    /\ booked' = booked \cup {c}
    /\ Goto(c, "replying")
    /\ UNCHANGED <<quoteVars, signed, required, quoted, settlement, tickets, claim,
                   shut, row, transfer, restarts>>

\* The transaction threw, with or without having committed; that is only logged.
RecordSettlementThrows(c) ==
    /\ pc[c] = "booking"
    /\ "db" \in Faults
    /\ WritePayment(c) \/ UNCHANGED <<payment, spent>>
    /\ Goto(c, "replying")
    /\ UNCHANGED <<quoteVars, signed, required, quoted, settlement, booked, tickets,
                   claim, shut, row, transfer, restarts>>

\* Mutants: the response leaves before the settlement is known, or only ever
\* after a successful one.
ReplyUnsettled(c) ==
    /\ pc[c] = "replying"
    /\ Goto(c, "answered")
    /\ UNCHANGED <<quoteVars, signed, required, quoted, settlement, booked, tickets,
                   claim, storeVars, transfer, restarts>>
ReplyOnSuccess(c) == ReplyUnsettled(c) /\ settlement[c] = "success"

\* The buffered response is released, or replaced by a 402.
Reply(c) ==
    /\ pc[c] = "replying"
    /\ Goto(c, IF settlement[c] = "success" THEN "answered" ELSE "unsettled")
    /\ UNCHANGED <<quoteVars, signed, required, quoted, settlement, booked, tickets,
                   claim, storeVars, transfer, restarts>>
-----------------------------------------------------------------------------
(* Delivery: GET /v1/chat/stream/:token *)

\* Mutant: the ticket is read and left in the Map.
TicketsKept(c) == tickets
TicketsWithout(c) == tickets \ {c}

\* A client that was handed the token asks; the ticket is claimed and removed.
ClaimTicket(g, c) ==
    /\ pc[g] = "new"
    /\ pc[c] = "answered" /\ KindOf[c] = "stream"
    /\ IF c \in tickets
       THEN Goto(g, "opening") /\ claim' = [claim EXCEPT ![g] = c]
       ELSE Goto(g, "refused") /\ UNCHANGED claim
    /\ tickets' = TicketsWithout(c)
    /\ UNCHANGED <<quoteVars, signed, required, quoted, settlement, booked,
                   storeVars, transfer, restarts>>

\* TICKET_TTL_MS outlasts the settlement (30 s), so a ticket in the hands of
\* sweepTickets belongs to a call that has ended.
SweepTicket(c) ==
    /\ c \in tickets
    /\ pc[c] \in Ended
    /\ tickets' = tickets \ {c}
    /\ UNCHANGED <<quoteVars, pc, signed, required, quoted, settlement, booked,
                   claim, storeVars, transfer, restarts>>

OpenDelivery(g) ==
    /\ pc[g] = "opening"
    /\ row' = [row EXCEPT ![g] = "PENDING"]
    /\ Goto(g, "linking")
    /\ UNCHANGED <<quoteVars, signed, required, quoted, settlement, booked,
                   tickets, claim, shut, spent, payment, transfer, restarts>>

\* openInferenceRequest is outside the try: the caller gets a 500, the ticket
\* is gone.
OpenDeliveryFails(g) ==
    /\ pc[g] = "opening"
    /\ "db" \in Faults
    /\ UNCHANGED row \/ row' = [row EXCEPT ![g] = "PENDING"]
    /\ Goto(g, "undelivered")
    /\ UNCHANGED <<quoteVars, signed, required, quoted, settlement, booked,
                   tickets, claim, shut, spent, payment, transfer, restarts>>

\* linkPaymentToRequest: nothing to do without a paymentId; errors are logged.
LinkPayment(g) ==
    /\ pc[g] = "linking"
    /\ \/ /\ claim[g] \in booked
          /\ payment' = [payment EXCEPT ![claim[g]].request = g]
       \/ /\ claim[g] \notin booked \/ "db" \in Faults
          /\ UNCHANGED payment
    /\ Goto(g, "delivering")
    /\ UNCHANGED <<quoteVars, signed, required, quoted, settlement, booked,
                   tickets, claim, shut, spent, row, transfer, restarts>>

Deliver(g) ==
    /\ pc[g] = "delivering"
    /\ row' = [row EXCEPT ![g] = "SETTLED"]
    /\ Goto(g, "answered")
    /\ UNCHANGED <<quoteVars, signed, required, quoted, settlement, booked,
                   tickets, claim, shut, spent, payment, transfer, restarts>>

DeliveryFails(g) ==
    /\ pc[g] = "delivering"
    /\ FailRow(g)
    /\ Goto(g, "undelivered")
    /\ UNCHANGED <<quoteVars, signed, required, quoted, settlement, booked,
                   tickets, claim, shut, spent, payment, transfer, restarts>>
-----------------------------------------------------------------------------
(* The environment *)

\* POST /v1/sessions/current/revoke commits, or the clock passes expiresAt.
Shut(s) ==
    /\ s \notin shut
    /\ shut' = shut \cup {s}
    /\ UNCHANGED <<quoteVars, memoryVars, spent, row, payment, transfer, restarts>>

CacheAges(b) == Age(b) /\ UNCHANGED <<memoryVars, storeVars, transfer, restarts>>

CatalogueRefresh(b) ==
    /\ Repricing
    /\ \E p \in Prices : Reprice(b, p)
    /\ UNCHANGED <<memoryVars, storeVars, transfer, restarts>>

\* The gateway dies and starts again: connections, contexts, tickets and the
\* cache are gone; the database and whatever was submitted to Hedera are not.
Restart ==
    /\ restarts < MaxRestarts
    /\ restarts' = restarts + 1
    /\ QuoteRestart
    /\ pc' = [p \in Procs |-> IF pc[p] \in Running THEN "lost" ELSE pc[p]]
    /\ tickets' = {}
    /\ booked' = {}
    /\ UNCHANGED <<signed, required, quoted, settlement, claim, storeVars, transfer>>

CallStep(c) ==
    \/ NameChecked(c) \/ StartCount(c) \/ CountFails(c) \/ DynamicPrice(c)
    \/ QuotePreview(c) \/ Verify(c) \/ HandlerPrice(c)
    \/ OpenRow(c) \/ OpenRowFails(c) \/ Complete(c) \/ CompletionFails(c)
    \/ SettleAnswered(c) \/ SettleThrows(c)
    \/ RecordSettlement(c) \/ RecordSettlementThrows(c) \/ Reply(c)

GetStep(g) ==
    \/ OpenDelivery(g) \/ OpenDeliveryFails(g) \/ LinkPayment(g)
    \/ Deliver(g) \/ DeliveryFails(g)

Next ==
    \/ \E c \in Calls : LoadSession(c) \/ CallStep(c) \/ Transfer(c) \/ SweepTicket(c)
    \/ \E g \in Gets : GetStep(g) \/ \E c \in Calls : ClaimTicket(g, c)
    \/ \E s \in Sessions : Shut(s)
    \/ \E b \in Bodies : CacheAges(b) \/ CatalogueRefresh(b)
    \/ Restart

\* Every await of the gateway ends: the provider, the facilitator, ENS and the
\* database answer or their client times out.  Clients, time and Hedera are not fair.
GatewayFairness ==
    /\ \A c \in Calls : WF_vars(CallStep(c))
    /\ \A g \in Gets : WF_vars(GetStep(g))

Spec == Init /\ [][Next]_vars
FairSpec == Spec /\ GatewayFairness
===============================================================================
