---------------------------- MODULE PaidCallsProps ----------------------------
(***************************************************************************)
(* What the paid pipeline of PaidCalls promises.                           *)
(***************************************************************************)
EXTENDS PaidCalls, FiniteSetsExt

Amount == Prices \cup {Nothing}
Labels == Charging \cup Running \cup Ended \cup {"new"}
RowStatus == {"none", "PENDING", "SETTLED", "FAILED"}

StateTypeOK ==
    /\ pc \in [Procs -> Labels]
    /\ signed \in [Calls -> Amount]
    /\ required \in [Calls -> Amount]
    /\ quoted \in [Calls -> Amount]
    /\ settlement \in [Calls -> {"none", "success", "failure"}]
    /\ booked \in SUBSET Calls
    /\ tickets \in SUBSET Calls
    /\ claim \in [Gets -> Calls \cup {Nothing}]
    /\ shut \in SUBSET Sessions
    /\ spent \in [Sessions -> Nat]
    /\ row \in [Procs -> RowStatus]
    /\ payment \in [Calls -> PaymentRow \cup {Nothing}]
    /\ transfer \in [Calls -> {"none", "submitted", "moved", "rejected"}]
    /\ restarts \in 0..MaxRestarts

\* Every variable has its type; in particular a payment row is never written
\* without an amount, and a claim always names a call.
TypeOK == QuoteTypeOK /\ StateTypeOK
-----------------------------------------------------------------------------
(* How far concurrent calls can overshoot a session's cap *)

\* What a session may still come to have spent through calls already admitted.
Exposure(s) == spent[s] + MaxPrice * Cardinality(InFlight(s))

\* Every call admitted below the cap may settle after it: the overshoot is
\* bounded by the calls in flight at once, however many calls are ever made
\* (loadSession, middleware/session.ts:20; the increment, ledger.ts:104).
ExposureBounded ==
    \A s \in Sessions : Exposure(s) <= SpendCap[s] - 1 + MaxPrice * MaxInFlight

\* Revocation, expiry and exhaustion each end a session for good: from then on
\* only calls admitted before can still be charged, so what the session may
\* come to cost never grows again (middleware/session.ts:17-21).
Closed(s) == s \in shut \/ spent[s] >= SpendCap[s]
ClosedSessionWindsDown ==
    [][\A s \in Sessions : Closed(s) => Exposure(s)' <= Exposure(s)]_vars
-----------------------------------------------------------------------------
(* Money against work *)

\* POST /v1/chat/completions: the transfer is submitted only after the provider
\* answered and the row was closed, and nothing reopens the row, so no failed
\* completion is ever paid for (README: "settle after the handler, cancel on
\* failure").
PaidCompletionWasServed ==
    \A c \in Calls : KindOf[c] = "completion" /\ transfer[c] \in {"submitted", "moved"}
                     => row[c] = "SETTLED"

\* The streaming path: a delivery runs only against money that has moved on
\* chain, although the GET carries neither a session nor a payment
\* (routes/chat.ts:151).
DeliveryWasPaid ==
    \A g \in Gets : claim[g] # Nothing => transfer[claim[g]] = "moved"

\* One payment buys at most one delivery, however its GETs race, expire or
\* straddle a restart (claimDeliveryTicket, inference.ts:149).
OneDeliveryPerPayment ==
    \A g, h \in Gets : claim[g] = claim[h] /\ claim[g] # Nothing => g = h
-----------------------------------------------------------------------------
(* The ledger against the chain *)

SettledIn(s) ==
    {c \in Calls : SessionOf[c] = s /\ payment[c] # Nothing /\ payment[c].status = "SETTLED"}

\* The spend counter is exactly the sum of the session's settled payments,
\* whatever transactions failed in between (recordSettlement, ledger.ts:84-111).
AmountIn(s) == [c \in SettledIn(s) |-> payment[c].amount]
SpendIsSumOfPayments ==
    \A s \in Sessions : spent[s] = SumFunctionOnSet(AmountIn(s), SettledIn(s))

\* A payment recorded SETTLED moved on chain, for the very amount the client
\* signed: neither a re-quote in the handler nor a settlement that timed out
\* makes the ledger claim money the caller did not authorise.
SettledPaymentIsOnChain ==
    \A s \in Sessions : \A c \in SettledIn(s) :
        transfer[c] = "moved" /\ payment[c].amount = signed[c]

\* GET /v1/requests/:id finds the settlement: the payment of a finished request
\* whose context held the payment id points at that request's row, on the
\* streaming path too, where the row is opened after the payment
\* (linkPaymentToRequest, ledger.ts:186).
OwnerOf(p) == IF p \in Calls THEN p ELSE claim[p]
SettlementIsFindable ==
    \A p \in Procs :
        pc[p] = "answered" /\ row[p] = "SETTLED" => payment[OwnerOf(p)].request = p
-----------------------------------------------------------------------------
(* The contract with the client *)

SettledPayments == {c \in Calls : payment[c] # Nothing /\ payment[c].status = "SETTLED"}
Delivered == {claim[g] : g \in {h \in Gets : row[h] = "SETTLED"}}

Served == {c \in Calls : row[c] = "SETTLED"} \cup Delivered
Paid == {c \in Calls : transfer[c] = "moved"}

Contract == INSTANCE PaymentContract WITH
    served <- Served, paid <- Paid, recorded <- SettledPayments

\* Whatever fails, times out or restarts, the gateway serves, is paid for and
\* records each call at most once and in the order its endpoint promises: it
\* implements PaymentContract (routes/chat.ts, x402.ts:40-73, ledger.ts:79).
HonoursContract == Contract!Spec
-----------------------------------------------------------------------------
(* Why the properties above hold: the inductive invariant *)

Accepted == {"verifying", "handling", "opening", "serving", "settling", "booking"}
CallLabels == Charging \cup {"new", "replying", "refused", "unsettled", "answered", "lost"}
GetLabels == {"new", "refused", "opening", "linking", "delivering",
              "answered", "undelivered", "lost"}

\* Where a call stands fixes what it has left in the stores.
CallInv(c) ==
    /\ pc[c] \in CallLabels
    /\ pc[c] \in Accepted => signed[c] \in Prices /\ required[c] = signed[c]
    /\ pc[c] \in {"new", "naming", "pricing", "previewing", "verifying", "handling"}
          => row[c] = "none"
    /\ pc[c] \in {"pricing", "verifying", "handling", "new", "naming", "previewing",
                  "opening", "serving"}
          => transfer[c] = "none"
    /\ pc[c] \in {"previewing"} => required[c] \in Prices
    /\ pc[c] \in {"opening", "serving"} => KindOf[c] = "completion"
    /\ pc[c] = "opening" => row[c] = "none"
    /\ pc[c] = "serving" => row[c] = "PENDING"
    /\ pc[c] = "settling" => transfer[c] \in {"submitted", "moved"}
    /\ pc[c] \in {"new", "naming", "pricing", "previewing"} \cup Accepted
          => payment[c] = Nothing
    /\ pc[c] = "answered" => settlement[c] = "success"
    /\ settlement[c] = "success" => transfer[c] = "moved"

\* The chain, the ledger and the inference row of a call agree.
StoreInv(c) ==
    /\ KindOf[c] = "stream" => row[c] = "none"
    /\ KindOf[c] = "completion" /\ transfer[c] # "none" => row[c] = "SETTLED"
    /\ payment[c] # Nothing => payment[c].amount = signed[c]
    /\ payment[c] # Nothing /\ payment[c].status = "SETTLED" => transfer[c] = "moved"
    /\ c \in booked => payment[c] # Nothing

\* A ticket is in the Map or in the hands of the one GET that claimed it.
GetInv(g) ==
    /\ pc[g] \in GetLabels
    /\ pc[g] \in {"new", "refused"} <=> claim[g] = Nothing
    /\ pc[g] \in {"new", "refused", "opening"} => row[g] = "none"
    /\ pc[g] \in {"linking", "delivering"} => row[g] = "PENDING"
    /\ claim[g] # Nothing =>
          /\ KindOf[claim[g]] = "stream"
          /\ pc[claim[g]] = "answered"
          /\ claim[g] \notin tickets

Agreement ==
    /\ \A c \in Calls : CallInv(c) /\ StoreInv(c)
    /\ \A g \in Gets : GetInv(g)
    /\ OneDeliveryPerPayment

IInv == TypeOK /\ Agreement

\* While the database answers, the payment id is in the context before the
\* response leaves, stays there as long as the ticket, and is in the hands of
\* the GET that links the payment to its request.
CallFinds(c) ==
    /\ pc[c] = "booking" /\ KindOf[c] = "completion" => row[c] = "SETTLED"
    /\ pc[c] = "replying" => c \in booked
    /\ pc[c] = "answered" /\ c \in tickets => c \in booked
    /\ pc[c] \in {"replying", "answered"} /\ KindOf[c] = "completion"
          => payment[c] # Nothing /\ payment[c].request = c
GetFinds(g) ==
    /\ pc[g] \in {"opening", "linking"} => claim[g] \in booked
    /\ pc[g] \in {"delivering", "answered"}
          => payment[claim[g]] # Nothing /\ payment[claim[g]].request = g
FindInv == (\A c \in Calls : CallFinds(c)) /\ (\A g \in Gets : GetFinds(g))

\* Whatever is remembered of a body's price is a price it has had, and what has
\* passed the handler's test was quoted one within the cap.
Passed == {"opening", "serving", "settling", "booking"}
QuotesFrom(b, P) ==
    /\ \A i \in At(b) : cache[i].quote \in P
    /\ \A c \in Calls : counting[c] # Nothing /\ counting[c].body = b => counting[c].quote \in P
ChargedFrom(c, P) ==
    /\ pc[c] \in Accepted => required[c] \in P
    /\ pc[c] \in Passed \/ payment[c] # Nothing
          => \E q \in P : q <= PerRequestCap[SessionOf[c]]
    /\ payment[c] # Nothing => payment[c].amount \in P
-----------------------------------------------------------------------------
(* Progress *)

\* An admitted call ends or hands the client a challenge; a GET that claimed a
\* ticket ends.  Nothing in the pipeline waits on another call.
EveryRequestEnds ==
    \A p \in Procs : pc[p] \in Running ~> pc[p] \in Ended \cup {"new"}

\* With no failing dependency, money that moved is recorded as a settled
\* payment, and the session is charged for it, unless the gateway restarts.
MovedMoneyIsBooked ==
    \A c \in Calls : transfer[c] = "moved" ~>
        restarts > 0 \/ (payment[c] # Nothing /\ payment[c].status = "SETTLED")

\* Likewise an inference row does not stay PENDING: it is closed or failed.
EveryRowIsResolved ==
    \A p \in Procs : row[p] = "PENDING" ~>
        restarts > 0 \/ row[p] \in {"SETTLED", "FAILED"}
-----------------------------------------------------------------------------
(* What the documentation says and the code does not do *)

\* schema.prisma:51: "Total the session may ever spend".
SpentWithinCap == \A s \in Sessions : spent[s] <= SpendCap[s]

\* schema.prisma:55: "Ceiling for any single request".
WithinCeiling(c) ==
    c \in SettledPayments => payment[c].amount <= PerRequestCap[SessionOf[c]]
ChargeWithinRequestCap == \A c \in Calls : WithinCeiling(c)

\* README.md:66: "Revoking the session or hitting either cap stops it immediately."
ClosedSpendsNoMore ==
    [][\A s \in Sessions : Closed(s) => spent'[s] = spent[s]]_vars
===============================================================================
