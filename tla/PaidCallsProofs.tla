---------------------------- MODULE PaidCallsProofs ----------------------------
(***************************************************************************)
(* The paid pipeline for every number of calls, sessions, bodies, prices    *)
(* and restarts, whatever throws.                                          *)
(***************************************************************************)
EXTENDS PaidCallsProps, QuoteCacheProofs, FiniteSetTheorems

\* Every step of the pipeline leaves the quote cache alone or is one of its own.
LEMMA QuoteStep ==
    ASSUME QuoteTypeOK, [Next]_vars
    PROVE  QuoteTypeOK'
<1>1. ASSUME NEW c \in Calls, CallStep(c)
      PROVE  QuoteTypeOK'
  <2>1. BodyOf[c] \in Bodies
    BY CallsAssumption
  <2>2. \/ Miss(c, BodyOf[c])
        \/ \E q \in Prices : Quoted(c, BodyOf[c], q)
        \/ CountFailed(c)
        \/ UNCHANGED quoteVars
    BY <1>1 DEF CallStep, NameChecked, StartCount, CountFails, DynamicPrice,
         QuotePreview, Verify, HandlerPrice, OpenRow, OpenRowFails, Complete,
         CompletionFails, SettleAnswered, SettleThrows, RecordSettlement,
         RecordSettlementThrows, Reply
  <2>3. QED
    BY <2>1, <2>2, QuoteStepKeepsCache
<1>2. ASSUME NEW c \in Calls, LoadSession(c) \/ Transfer(c) \/ SweepTicket(c)
      PROVE  QuoteTypeOK'
  BY <1>2, QuoteStepKeepsCache DEF LoadSession, Transfer, SweepTicket
<1>3. ASSUME NEW g \in Gets, GetStep(g) \/ \E c \in Calls : ClaimTicket(g, c)
      PROVE  QuoteTypeOK'
  BY <1>3, QuoteStepKeepsCache DEF GetStep, ClaimTicket, OpenDelivery,
       OpenDeliveryFails, LinkPayment, Deliver, DeliveryFails
<1>4. ASSUME NEW s \in Sessions, Shut(s)
      PROVE  QuoteTypeOK'
  BY <1>4, QuoteStepKeepsCache DEF Shut
<1>5. ASSUME NEW b \in Bodies, CacheAges(b) \/ CatalogueRefresh(b)
      PROVE  QuoteTypeOK'
  BY <1>5, QuoteStepKeepsCache DEF CacheAges, CatalogueRefresh
<1>6. CASE Restart
  BY <1>6, QuoteStepKeepsCache DEF Restart
<1>7. CASE UNCHANGED vars
  BY <1>7, QuoteStepKeepsCache DEF vars
<1>8. QED
  BY <1>1, <1>2, <1>3, <1>4, <1>5, <1>6, <1>7 DEF Next

\* Admission moves the call only; it comes from "new", where nothing is signed off.
LEMMA LoadSessionKeeps ==
    ASSUME IInv, NEW c \in Calls, LoadSession(c)
    PROVE  StateTypeOK' /\ Agreement'
<1> USE CallsAssumption DEF IInv, Agreement, TypeOK, StateTypeOK, Procs, memoryVars, storeVars,
       LoadSession, Goto
<1>1. StateTypeOK'
  BY DEF Labels, Charging, Running, Ended, Amount, RowStatus
<1>2. \A d \in Calls : CallInv(d)'
  BY DEF CallInv, StoreInv, CallLabels, Accepted, Charging
<1>3. \A d \in Calls : StoreInv(d)'
  BY DEF CallInv, StoreInv
<1>4. \A g \in Gets : GetInv(g)'
  BY DEF GetInv, CallInv, Ended, AsksPrice
<1>5. OneDeliveryPerPayment'
  BY DEF OneDeliveryPerPayment
<1>6. QED
  BY <1>2, <1>3, <1>4, <1>5, <1>1 DEF Agreement

\* The answer about the session's name only lets the call go on or ends it.
LEMMA NameCheckedKeeps ==
    ASSUME IInv, NEW c \in Calls, NameChecked(c)
    PROVE  StateTypeOK' /\ Agreement'
<1> USE CallsAssumption DEF IInv, Agreement, TypeOK, StateTypeOK, Procs, memoryVars, storeVars,
       NameChecked, Goto
<1>1. StateTypeOK'
  BY DEF Labels, Charging, Running, Ended, Amount, RowStatus
<1>2. \A d \in Calls : CallInv(d)'
  BY DEF CallInv, StoreInv, CallLabels, Accepted, Charging
<1>3. \A d \in Calls : StoreInv(d)'
  BY DEF CallInv, StoreInv
<1>4. \A g \in Gets : GetInv(g)'
  BY DEF GetInv, CallInv, Ended, AsksPrice
<1>5. OneDeliveryPerPayment'
  BY DEF OneDeliveryPerPayment
<1>6. QED
  BY <1>2, <1>3, <1>4, <1>5, <1>1 DEF Agreement

\* A price request suspends; the call itself stands where it stood.
LEMMA StartCountKeeps ==
    ASSUME IInv, NEW c \in Calls, StartCount(c)
    PROVE  StateTypeOK' /\ Agreement'
<1> USE CallsAssumption DEF IInv, Agreement, TypeOK, StateTypeOK, Procs, memoryVars, storeVars,
       StartCount
<1>1. StateTypeOK'
  BY DEF Labels, Charging, Running, Ended, Amount, RowStatus
<1>2. \A d \in Calls : CallInv(d)'
  BY DEF CallInv, StoreInv, CallLabels, Accepted, Charging
<1>3. \A d \in Calls : StoreInv(d)'
  BY DEF CallInv, StoreInv
<1>4. \A g \in Gets : GetInv(g)'
  BY DEF GetInv, CallInv, Ended, AsksPrice
<1>5. OneDeliveryPerPayment'
  BY DEF OneDeliveryPerPayment
<1>6. QED
  BY <1>2, <1>3, <1>4, <1>5, <1>1 DEF Agreement

\* A price request that throws ends the call before anything was submitted.
LEMMA CountFailsKeeps ==
    ASSUME IInv, NEW c \in Calls, CountFails(c)
    PROVE  StateTypeOK' /\ Agreement'
<1> USE CallsAssumption DEF IInv, Agreement, TypeOK, StateTypeOK, Procs, memoryVars, storeVars,
       CountFails, Goto
<1>1. StateTypeOK'
  BY DEF Labels, Charging, Running, Ended, Amount, RowStatus
<1>2. \A d \in Calls : CallInv(d)'
  BY DEF CallInv, StoreInv, CallLabels, Accepted, Charging
<1>3. \A d \in Calls : StoreInv(d)'
  BY DEF CallInv, StoreInv
<1>4. \A g \in Gets : GetInv(g)'
  BY DEF GetInv, CallInv, Ended, AsksPrice
<1>5. OneDeliveryPerPayment'
  BY DEF OneDeliveryPerPayment
<1>6. QED
  BY <1>2, <1>3, <1>4, <1>5, <1>1 DEF Agreement

\* A call goes on to verification only for exactly the amount it signed.
LEMMA DynamicPriceKeeps ==
    ASSUME IInv, NEW c \in Calls, DynamicPrice(c)
    PROVE  StateTypeOK' /\ Agreement'
<1> USE CallsAssumption DEF IInv, Agreement, TypeOK, StateTypeOK, Procs, memoryVars, storeVars,
       DynamicPrice, Goto, Accepted
<1>1. StateTypeOK'
  BY DEF Labels, Charging, Running, Ended, Amount, RowStatus
<1>2. \A d \in Calls : CallInv(d)'
  BY DEF CallInv, StoreInv, CallLabels, Accepted, Charging
<1>3. \A d \in Calls : StoreInv(d)'
  BY DEF CallInv, StoreInv
<1>4. \A g \in Gets : GetInv(g)'
  BY DEF GetInv, CallInv, Ended, AsksPrice
<1>5. OneDeliveryPerPayment'
  BY DEF OneDeliveryPerPayment
<1>6. QED
  BY <1>2, <1>3, <1>4, <1>5, <1>1 DEF Agreement

\* The challenge fixes the amount the client signs: the one required now.
LEMMA QuotePreviewKeeps ==
    ASSUME IInv, NEW c \in Calls, QuotePreview(c)
    PROVE  StateTypeOK' /\ Agreement'
<1> USE CallsAssumption DEF IInv, Agreement, TypeOK, StateTypeOK, Procs, memoryVars, storeVars,
       QuotePreview, Goto
<1>1. StateTypeOK'
  BY DEF Labels, Charging, Running, Ended, Amount, RowStatus
<1>2. \A d \in Calls : CallInv(d)'
  BY DEF CallInv, StoreInv, CallLabels, Accepted, Charging
<1>3. \A d \in Calls : StoreInv(d)'
  BY DEF CallInv, StoreInv
<1>4. \A g \in Gets : GetInv(g)'
  BY DEF GetInv, CallInv, Ended, AsksPrice
<1>5. OneDeliveryPerPayment'
  BY DEF OneDeliveryPerPayment
<1>6. QED
  BY <1>2, <1>3, <1>4, <1>5, <1>1 DEF Agreement

\* Verification starts the handler with signed and required amounts equal.
LEMMA VerifyKeeps ==
    ASSUME IInv, NEW c \in Calls, Verify(c)
    PROVE  StateTypeOK' /\ Agreement'
<1> USE CallsAssumption DEF IInv, Agreement, TypeOK, StateTypeOK, Procs, memoryVars, storeVars,
       Verify, Goto
<1>1. StateTypeOK'
  BY DEF Labels, Charging, Running, Ended, Amount, RowStatus
<1>2. \A d \in Calls : CallInv(d)'
  BY DEF CallInv, StoreInv, CallLabels, Accepted, Charging
<1>3. \A d \in Calls : StoreInv(d)'
  BY DEF CallInv, StoreInv
<1>4. \A g \in Gets : GetInv(g)'
  BY DEF GetInv, CallInv, Ended, AsksPrice
<1>5. OneDeliveryPerPayment'
  BY DEF OneDeliveryPerPayment
<1>6. QED
  BY <1>2, <1>3, <1>4, <1>5, <1>1 DEF Agreement

\* The handler's price decides whether to go on; a stream settles and has no row.
LEMMA HandlerPriceKeeps ==
    ASSUME IInv, NEW c \in Calls, HandlerPrice(c)
    PROVE  StateTypeOK' /\ Agreement'
<1> USE CallsAssumption DEF IInv, Agreement, TypeOK, StateTypeOK, Procs, memoryVars, storeVars,
       HandlerPrice, Goto, Settle, WithinRequestCap
<1>1. StateTypeOK'
  BY DEF Labels, Charging, Running, Ended, Amount, RowStatus
<1>2. \A d \in Calls : CallInv(d)'
  BY DEF CallInv, StoreInv, CallLabels, Accepted, Charging
<1>3. \A d \in Calls : StoreInv(d)'
  BY DEF CallInv, StoreInv
<1>4. \A g \in Gets : GetInv(g)'
  BY DEF GetInv, CallInv, Ended, AsksPrice
<1>5. OneDeliveryPerPayment'
  BY DEF OneDeliveryPerPayment
<1>6. QED
  BY <1>2, <1>3, <1>4, <1>5, <1>1 DEF Agreement

\* The row of a completion is opened before the provider is asked.
LEMMA OpenRowKeeps ==
    ASSUME IInv, NEW c \in Calls, OpenRow(c)
    PROVE  StateTypeOK' /\ Agreement'
<1> USE CallsAssumption DEF IInv, Agreement, TypeOK, StateTypeOK, Procs, memoryVars, storeVars,
       OpenRow, Goto
<1>1. StateTypeOK'
  BY DEF Labels, Charging, Running, Ended, Amount, RowStatus
<1>2. \A d \in Calls : CallInv(d)'
  BY DEF CallInv, StoreInv, CallLabels, Accepted, Charging
<1>3. \A d \in Calls : StoreInv(d)'
  BY DEF CallInv, StoreInv
<1>4. \A g \in Gets : GetInv(g)'
  BY DEF GetInv, CallInv, Ended, AsksPrice
<1>5. OneDeliveryPerPayment'
  BY DEF OneDeliveryPerPayment
<1>6. QED
  BY <1>2, <1>3, <1>4, <1>5, <1>1 DEF Agreement

\* A row that could not be opened ends the call, with nothing submitted.
LEMMA OpenRowFailsKeeps ==
    ASSUME IInv, NEW c \in Calls, OpenRowFails(c)
    PROVE  StateTypeOK' /\ Agreement'
<1> USE CallsAssumption DEF IInv, Agreement, TypeOK, StateTypeOK, Procs, memoryVars, storeVars,
       OpenRowFails, Goto
<1>1. StateTypeOK'
  BY DEF Labels, Charging, Running, Ended, Amount, RowStatus
<1>2. \A d \in Calls : CallInv(d)'
  BY DEF CallInv, StoreInv, CallLabels, Accepted, Charging
<1>3. \A d \in Calls : StoreInv(d)'
  BY DEF CallInv, StoreInv
<1>4. \A g \in Gets : GetInv(g)'
  BY DEF GetInv, CallInv, Ended, AsksPrice
<1>5. OneDeliveryPerPayment'
  BY DEF OneDeliveryPerPayment
<1>6. QED
  BY <1>2, <1>3, <1>4, <1>5, <1>1 DEF Agreement

\* The row is closed in the step that asks for the settlement.
LEMMA CompleteKeeps ==
    ASSUME IInv, NEW c \in Calls, Complete(c)
    PROVE  StateTypeOK' /\ Agreement'
<1> USE CallsAssumption DEF IInv, Agreement, TypeOK, StateTypeOK, Procs, memoryVars, storeVars,
       Complete, Goto, Settle
<1>1. StateTypeOK'
  BY DEF Labels, Charging, Running, Ended, Amount, RowStatus
<1>2. \A d \in Calls : CallInv(d)'
  BY DEF CallInv, StoreInv, CallLabels, Accepted, Charging
<1>3. \A d \in Calls : StoreInv(d)'
  BY DEF CallInv, StoreInv
<1>4. \A g \in Gets : GetInv(g)'
  BY DEF GetInv, CallInv, Ended, AsksPrice
<1>5. OneDeliveryPerPayment'
  BY DEF OneDeliveryPerPayment
<1>6. QED
  BY <1>2, <1>3, <1>4, <1>5, <1>1 DEF Agreement

\* Whatever a provider reports, in its status or in the documents of its message,
\* the caller is answered with an error: middleware/error.ts passes no success, no
\* 402 and no 401 of a provider on.
THEOREM EveryErrorIsRefused ==
    /\ \A status \in ErrorStatuses : status \in Nat /\ status >= 400
    /\ \A e \in UpstreamErrors : Status(e) \in {400, 429, 500, 503}
<1>1. \A e \in UpstreamErrors : Status(e) \in {400, 429, 500, 503}
  <2>1. SUFFICES ASSUME NEW e \in UpstreamErrors
                 PROVE  UpstreamStatus(e) \in {400, 429, 500, 503}
    BY <2>1 DEF Status, UpstreamErrors
  <2>2. QED
    BY DEF UpstreamStatus
<1>2. \A e \in OwnErrors : Status(e) \in OwnStatuses
  BY DEF Status, OwnErrors
<1>3. QED
  BY <1>1, <1>2 DEF ErrorStatuses, Errors, OwnStatuses

\* A completion that fails is refused and not settled.
LEMMA FailedCompletionIsRefused ==
    ASSUME NEW c \in Calls, CompletionFails(c)
    PROVE  Goto(c, "refused") /\ UNCHANGED transfer
BY EveryErrorIsRefused DEF CompletionFails

\* A failed completion ends without a transfer, whether or not its row was marked.
LEMMA CompletionFailsKeeps ==
    ASSUME IInv, NEW c \in Calls, CompletionFails(c)
    PROVE  StateTypeOK' /\ Agreement'
<1>0. /\ pc[c] = "serving"
      /\ FailRow(c)
      /\ Goto(c, "refused")
      /\ UNCHANGED <<signed, required, quoted, settlement, booked, tickets, claim,
                     shut, spent, payment, transfer, restarts>>
  BY FailedCompletionIsRefused DEF CompletionFails
<1> USE <1>0, CallsAssumption
    DEF IInv, Agreement, TypeOK, StateTypeOK, Procs, Goto, FailRow
<1>1. StateTypeOK'
  BY DEF Labels, Charging, Running, Ended, Amount, RowStatus
<1>2. \A d \in Calls : CallInv(d)'
  BY DEF CallInv, StoreInv, CallLabels, Accepted, Charging
<1>3. \A d \in Calls : StoreInv(d)'
  BY DEF CallInv, StoreInv
<1>4. \A g \in Gets : GetInv(g)'
  BY DEF GetInv, CallInv, Ended, AsksPrice
<1>5. OneDeliveryPerPayment'
  BY DEF OneDeliveryPerPayment
<1>6. QED
  BY <1>2, <1>3, <1>4, <1>5, <1>1 DEF Agreement

\* A settlement is a success only if the transfer has moved.
LEMMA SettleAnsweredKeeps ==
    ASSUME IInv, NEW c \in Calls, SettleAnswered(c)
    PROVE  StateTypeOK' /\ Agreement'
<1> USE CallsAssumption DEF IInv, Agreement, TypeOK, StateTypeOK, Procs, memoryVars, storeVars,
       SettleAnswered, Goto
<1>1. StateTypeOK'
  BY DEF Labels, Charging, Running, Ended, Amount, RowStatus
<1>2. \A d \in Calls : CallInv(d)'
  BY DEF CallInv, StoreInv, CallLabels, Accepted, Charging
<1>3. \A d \in Calls : StoreInv(d)'
  BY DEF CallInv, StoreInv
<1>4. \A g \in Gets : GetInv(g)'
  BY DEF GetInv, CallInv, Ended, AsksPrice
<1>5. OneDeliveryPerPayment'
  BY DEF OneDeliveryPerPayment
<1>6. QED
  BY <1>2, <1>3, <1>4, <1>5, <1>1 DEF Agreement

\* A settlement that threw is a failure, whatever became of the transfer.
LEMMA SettleThrowsKeeps ==
    ASSUME IInv, NEW c \in Calls, SettleThrows(c)
    PROVE  StateTypeOK' /\ Agreement'
<1> USE CallsAssumption DEF IInv, Agreement, TypeOK, StateTypeOK, Procs, memoryVars, storeVars,
       SettleThrows, Goto
<1>1. StateTypeOK'
  BY DEF Labels, Charging, Running, Ended, Amount, RowStatus
<1>2. \A d \in Calls : CallInv(d)'
  BY DEF CallInv, StoreInv, CallLabels, Accepted, Charging
<1>3. \A d \in Calls : StoreInv(d)'
  BY DEF CallInv, StoreInv
<1>4. \A g \in Gets : GetInv(g)'
  BY DEF GetInv, CallInv, Ended, AsksPrice
<1>5. OneDeliveryPerPayment'
  BY DEF OneDeliveryPerPayment
<1>6. QED
  BY <1>2, <1>3, <1>4, <1>5, <1>1 DEF Agreement

\* The transaction of recordSettlement writes a well-formed row that claims
\* exactly the signed amount, and claims it settled only after a success.
LEMMA WritePaymentRow ==
    ASSUME IInv, NEW c \in Calls, pc[c] = "booking", WritePayment(c)
    PROVE  /\ payment' \in [Calls -> PaymentRow \cup {Nothing}]
           /\ spent' \in [Sessions -> Nat]
           /\ payment'[c] # Nothing /\ payment'[c].amount = signed[c]
           /\ payment'[c].status = "SETTLED" => settlement[c] = "success"
           /\ \A d \in Calls : d # c => payment'[d] = payment[d]
<1> DEFINE p == [status |-> StatusOf(c), amount |-> required[c], request |-> RequestOf(c)]
<1>1. /\ required[c] \in Prices /\ required[c] = signed[c]
      /\ payment \in [Calls -> PaymentRow \cup {Nothing}]
      /\ spent \in [Sessions -> Nat]
  BY DEF IInv, Agreement, CallInv, Accepted, TypeOK, StateTypeOK
<1>2. payment' = [payment EXCEPT ![c] = p]
  BY DEF WritePayment
<1>3. p \in PaymentRow
  BY <1>1 DEF PaymentRow, Procs, StatusOf, RequestOf
<1>4. p.amount = signed[c] /\ (p.status = "SETTLED" => settlement[c] = "success")
  BY <1>1 DEF StatusOf
<1>5. spent' \in [Sessions -> Nat]
  BY <1>1, CallsAssumption DEF WritePayment, Charge, Prices
<1> HIDE DEF p
<1>6. QED
  BY <1>1, <1>2, <1>3, <1>4, <1>5, NothingAssumption

\* The booked row claims the signed amount, and claims it settled only if it moved.
LEMMA RecordSettlementKeeps ==
    ASSUME IInv, NEW c \in Calls, RecordSettlement(c)
    PROVE  StateTypeOK' /\ Agreement'
<1>1. WritePayment(c) =>
         /\ payment' \in [Calls -> PaymentRow \cup {Nothing}]
         /\ spent' \in [Sessions -> Nat]
         /\ payment'[c] # Nothing /\ payment'[c].amount = signed[c]
         /\ payment'[c].status = "SETTLED" => settlement[c] = "success"
         /\ \A d \in Calls : d # c => payment'[d] = payment[d]
  BY WritePaymentRow DEF RecordSettlement
<1> USE CallsAssumption DEF IInv, Agreement, TypeOK, StateTypeOK, Procs, memoryVars, storeVars,
       RecordSettlement, Goto
<1>2. StateTypeOK'
  <2>1. /\ payment' \in [Calls -> PaymentRow \cup {Nothing}]
        /\ spent' \in [Sessions -> Nat]
    BY <1>1
  <2>2. pc' \in [Procs -> Labels]
    BY DEF Labels, Charging, Running, Ended
  <2>3. booked' \in SUBSET Calls
    OBVIOUS
  <2>4. QED
    BY <2>1, <2>2, <2>3
<1>3. \A d \in Calls : CallInv(d)'
  BY <1>1 DEF CallInv, StoreInv, CallLabels, Accepted, Charging
<1>4. \A d \in Calls : StoreInv(d)'
  BY <1>1 DEF CallInv, StoreInv
<1>5. \A g \in Gets : GetInv(g)'
  BY DEF GetInv, CallInv, Ended, AsksPrice
<1>6. OneDeliveryPerPayment'
  BY DEF OneDeliveryPerPayment
<1>7. QED
  BY <1>3, <1>4, <1>5, <1>6, <1>2 DEF Agreement

\* A transaction that threw has written the same row or none.
LEMMA RecordSettlementThrowsKeeps ==
    ASSUME IInv, NEW c \in Calls, RecordSettlementThrows(c)
    PROVE  StateTypeOK' /\ Agreement'
<1>1. WritePayment(c) =>
         /\ payment' \in [Calls -> PaymentRow \cup {Nothing}]
         /\ spent' \in [Sessions -> Nat]
         /\ payment'[c] # Nothing /\ payment'[c].amount = signed[c]
         /\ payment'[c].status = "SETTLED" => settlement[c] = "success"
         /\ \A d \in Calls : d # c => payment'[d] = payment[d]
  BY WritePaymentRow DEF RecordSettlementThrows
<1> USE CallsAssumption DEF IInv, Agreement, TypeOK, StateTypeOK, Procs, memoryVars, storeVars,
       RecordSettlementThrows, Goto
<1>2. StateTypeOK'
  <2>1. /\ payment' \in [Calls -> PaymentRow \cup {Nothing}]
        /\ spent' \in [Sessions -> Nat]
    BY <1>1
  <2>2. pc' \in [Procs -> Labels]
    BY DEF Labels, Charging, Running, Ended
  <2>3. booked' \in SUBSET Calls
    OBVIOUS
  <2>4. QED
    BY <2>1, <2>2, <2>3
<1>3. \A d \in Calls : CallInv(d)'
  BY <1>1 DEF CallInv, StoreInv, CallLabels, Accepted, Charging
<1>4. \A d \in Calls : StoreInv(d)'
  <2>1. CASE UNCHANGED payment
    BY <2>1 DEF CallInv, StoreInv
  <2>2. CASE WritePayment(c)
    BY <2>2, <1>1 DEF CallInv, StoreInv
  <2>3. QED
    BY <2>1, <2>2
<1>5. \A g \in Gets : GetInv(g)'
  BY DEF GetInv, CallInv, Ended, AsksPrice
<1>6. OneDeliveryPerPayment'
  BY DEF OneDeliveryPerPayment
<1>7. QED
  BY <1>3, <1>4, <1>5, <1>6, <1>2 DEF Agreement

\* The response is released only after a successful settlement.
LEMMA ReplyKeeps ==
    ASSUME IInv, NEW c \in Calls, Reply(c)
    PROVE  StateTypeOK' /\ Agreement'
<1> USE CallsAssumption DEF IInv, Agreement, TypeOK, StateTypeOK, Procs, memoryVars, storeVars,
       Reply, Goto
<1>1. StateTypeOK'
  BY DEF Labels, Charging, Running, Ended, Amount, RowStatus
<1>2. \A d \in Calls : CallInv(d)'
  BY DEF CallInv, StoreInv, CallLabels, Accepted, Charging
<1>3. \A d \in Calls : StoreInv(d)'
  BY DEF CallInv, StoreInv
<1>4. \A g \in Gets : GetInv(g)'
  BY DEF GetInv, CallInv, Ended, AsksPrice
<1>5. OneDeliveryPerPayment'
  BY DEF OneDeliveryPerPayment
<1>6. QED
  BY <1>2, <1>3, <1>4, <1>5, <1>1 DEF Agreement

\* Hedera may move the transfer at any time, also after the gateway gave up on it.
LEMMA TransferKeeps ==
    ASSUME IInv, NEW c \in Calls, Transfer(c)
    PROVE  StateTypeOK' /\ Agreement'
<1> USE CallsAssumption DEF IInv, Agreement, TypeOK, StateTypeOK, Procs, memoryVars, storeVars,
       Transfer
<1>1. StateTypeOK'
  BY DEF Labels, Charging, Running, Ended, Amount, RowStatus
<1>2. \A d \in Calls : CallInv(d)'
  BY DEF CallInv, StoreInv, CallLabels, Accepted, Charging
<1>3. \A d \in Calls : StoreInv(d)'
  BY DEF CallInv, StoreInv
<1>4. \A g \in Gets : GetInv(g)'
  BY DEF GetInv, CallInv, Ended, AsksPrice
<1>5. OneDeliveryPerPayment'
  BY DEF OneDeliveryPerPayment
<1>6. QED
  BY <1>2, <1>3, <1>4, <1>5, <1>1 DEF Agreement

\* The sweep takes a ticket nobody has claimed.
LEMMA SweepTicketKeeps ==
    ASSUME IInv, NEW c \in Calls, SweepTicket(c)
    PROVE  StateTypeOK' /\ Agreement'
<1> USE CallsAssumption DEF IInv, Agreement, TypeOK, StateTypeOK, Procs, memoryVars, storeVars,
       SweepTicket
<1>1. StateTypeOK'
  BY DEF Labels, Charging, Running, Ended, Amount, RowStatus
<1>2. \A d \in Calls : CallInv(d)'
  BY DEF CallInv, StoreInv, CallLabels, Accepted, Charging
<1>3. \A d \in Calls : StoreInv(d)'
  BY DEF CallInv, StoreInv
<1>4. \A g \in Gets : GetInv(g)'
  BY DEF GetInv, CallInv, Ended, AsksPrice
<1>5. OneDeliveryPerPayment'
  BY DEF OneDeliveryPerPayment
<1>6. QED
  BY <1>2, <1>3, <1>4, <1>5, <1>1 DEF Agreement

\* A delivery opens its row under the GET, not under the call it pays for.
LEMMA OpenDeliveryKeeps ==
    ASSUME IInv, NEW g \in Gets, OpenDelivery(g)
    PROVE  StateTypeOK' /\ Agreement'
<1> USE CallsAssumption DEF IInv, Agreement, TypeOK, StateTypeOK, Procs, memoryVars, storeVars,
       OpenDelivery, Goto
<1>1. StateTypeOK'
  BY DEF Labels, Charging, Running, Ended, Amount, RowStatus
<1>2. \A d \in Calls : CallInv(d)'
  BY DEF CallInv, StoreInv, CallLabels, Accepted, Charging, GetInv
<1>3. \A d \in Calls : StoreInv(d)'
  BY DEF CallInv, StoreInv
<1>4. \A h \in Gets : GetInv(h)'
  BY DEF GetInv, GetLabels
<1>5. OneDeliveryPerPayment'
  BY DEF OneDeliveryPerPayment, GetInv
<1>6. QED
  BY <1>1, <1>2, <1>3, <1>4, <1>5 DEF Agreement

\* A row that could not be opened leaves a claim without a delivery.
LEMMA OpenDeliveryFailsKeeps ==
    ASSUME IInv, NEW g \in Gets, OpenDeliveryFails(g)
    PROVE  StateTypeOK' /\ Agreement'
<1> USE CallsAssumption DEF IInv, Agreement, TypeOK, StateTypeOK, Procs, memoryVars, storeVars,
       OpenDeliveryFails, Goto
<1>1. StateTypeOK'
  BY DEF Labels, Charging, Running, Ended, Amount, RowStatus
<1>2. \A d \in Calls : CallInv(d)'
  BY DEF CallInv, StoreInv, CallLabels, Accepted, Charging, GetInv
<1>3. \A d \in Calls : StoreInv(d)'
  BY DEF CallInv, StoreInv
<1>4. \A h \in Gets : GetInv(h)'
  BY DEF GetInv, GetLabels
<1>5. OneDeliveryPerPayment'
  BY DEF OneDeliveryPerPayment, GetInv
<1>6. QED
  BY <1>1, <1>2, <1>3, <1>4, <1>5 DEF Agreement

\* Linking changes neither the amount nor the status of the payment row.
LEMMA LinkPaymentKeeps ==
    ASSUME IInv, NEW g \in Gets, LinkPayment(g)
    PROVE  StateTypeOK' /\ Agreement'
<1> USE CallsAssumption DEF IInv, Agreement, TypeOK, StateTypeOK, Procs, memoryVars, storeVars,
       LinkPayment, Goto
<1>1. StateTypeOK'
  <2>1. pc' \in [Procs -> Labels]
    BY DEF Labels, Charging, Running, Ended
  <2>2. claim[g] \in booked => payment[claim[g]] \in PaymentRow
    BY DEF StoreInv
  <2>3. payment' \in [Calls -> PaymentRow \cup {Nothing}]
    BY <2>2 DEF PaymentRow
  <2>4. QED
    BY <2>1, <2>3
<1>2. \A d \in Calls : CallInv(d)'
  BY DEF CallInv, StoreInv, CallLabels, Accepted, Charging, GetInv
<1>3. \A d \in Calls : StoreInv(d)'
  BY NothingAssumption DEF CallInv, StoreInv, PaymentRow
<1>4. \A h \in Gets : GetInv(h)'
  BY DEF GetInv, GetLabels
<1>5. OneDeliveryPerPayment'
  BY DEF OneDeliveryPerPayment, GetInv
<1>6. QED
  BY <1>1, <1>2, <1>3, <1>4, <1>5 DEF Agreement

\* A finished delivery closes its own row.
LEMMA DeliverKeeps ==
    ASSUME IInv, NEW g \in Gets, Deliver(g)
    PROVE  StateTypeOK' /\ Agreement'
<1> USE CallsAssumption DEF IInv, Agreement, TypeOK, StateTypeOK, Procs, memoryVars, storeVars,
       Deliver, Goto
<1>1. StateTypeOK'
  BY DEF Labels, Charging, Running, Ended, Amount, RowStatus
<1>2. \A d \in Calls : CallInv(d)'
  BY DEF CallInv, StoreInv, CallLabels, Accepted, Charging, GetInv
<1>3. \A d \in Calls : StoreInv(d)'
  BY DEF CallInv, StoreInv
<1>4. \A h \in Gets : GetInv(h)'
  BY DEF GetInv, GetLabels
<1>5. OneDeliveryPerPayment'
  BY DEF OneDeliveryPerPayment, GetInv
<1>6. QED
  BY <1>1, <1>2, <1>3, <1>4, <1>5 DEF Agreement

\* A failed delivery marks its own row, or leaves it PENDING.
LEMMA DeliveryFailsKeeps ==
    ASSUME IInv, NEW g \in Gets, DeliveryFails(g)
    PROVE  StateTypeOK' /\ Agreement'
<1> USE CallsAssumption DEF IInv, Agreement, TypeOK, StateTypeOK, Procs, memoryVars, storeVars,
       DeliveryFails, Goto, FailRow
<1>1. StateTypeOK'
  BY DEF Labels, Charging, Running, Ended, Amount, RowStatus
<1>2. \A d \in Calls : CallInv(d)'
  BY DEF CallInv, StoreInv, CallLabels, Accepted, Charging, GetInv
<1>3. \A d \in Calls : StoreInv(d)'
  BY DEF CallInv, StoreInv
<1>4. \A h \in Gets : GetInv(h)'
  BY DEF GetInv, GetLabels
<1>5. OneDeliveryPerPayment'
  BY DEF OneDeliveryPerPayment, GetInv
<1>6. QED
  BY <1>1, <1>2, <1>3, <1>4, <1>5 DEF Agreement

\* The ticket leaves the Map in the step that hands it to a GET: no two GETs hold it.
LEMMA ClaimTicketKeeps ==
    ASSUME IInv, NEW g \in Gets, NEW c \in Calls, ClaimTicket(g, c)
    PROVE  StateTypeOK' /\ Agreement'
<1> USE CallsAssumption DEF IInv, Agreement, TypeOK, StateTypeOK, Procs, memoryVars, storeVars,
       ClaimTicket, TicketsWithout, Goto
<1>1. StateTypeOK'
  BY DEF Labels, Charging, Running, Ended, Amount, RowStatus
<1>2. \A d \in Calls : CallInv(d)'
  BY DEF CallInv, StoreInv, CallLabels, Accepted, Charging, GetInv
<1>3. \A d \in Calls : StoreInv(d)'
  BY DEF CallInv, StoreInv
<1>4. \A h \in Gets : GetInv(h)'
  BY DEF GetInv, GetLabels
<1>5. OneDeliveryPerPayment'
  BY DEF OneDeliveryPerPayment, GetInv
<1>6. QED
  BY <1>1, <1>2, <1>3, <1>4, <1>5 DEF Agreement

\* Revocation and expiry touch no call.
LEMMA ShutKeeps ==
    ASSUME IInv, NEW s \in Sessions, Shut(s)
    PROVE  StateTypeOK' /\ Agreement'
<1> USE CallsAssumption DEF IInv, Agreement, TypeOK, StateTypeOK, Procs, memoryVars, storeVars,
       Shut
<1>1. StateTypeOK'
  BY DEF Labels, Charging, Running, Ended, Amount, RowStatus
<1>2. \A d \in Calls : CallInv(d)'
  BY DEF CallInv, StoreInv, CallLabels, Accepted, Charging, GetInv
<1>3. \A d \in Calls : StoreInv(d)'
  BY DEF CallInv, StoreInv
<1>4. \A h \in Gets : GetInv(h)'
  BY DEF GetInv, GetLabels
<1>5. OneDeliveryPerPayment'
  BY DEF OneDeliveryPerPayment, GetInv
<1>6. QED
  BY <1>1, <1>2, <1>3, <1>4, <1>5 DEF Agreement

\* A cached quote expires; no call moves.
LEMMA CacheAgesKeeps ==
    ASSUME IInv, NEW b \in Bodies, CacheAges(b)
    PROVE  StateTypeOK' /\ Agreement'
<1> USE CallsAssumption DEF IInv, Agreement, TypeOK, StateTypeOK, Procs, memoryVars, storeVars,
       CacheAges
<1>1. StateTypeOK'
  BY DEF Labels, Charging, Running, Ended, Amount, RowStatus
<1>2. \A d \in Calls : CallInv(d)'
  BY DEF CallInv, StoreInv, CallLabels, Accepted, Charging, GetInv
<1>3. \A d \in Calls : StoreInv(d)'
  BY DEF CallInv, StoreInv
<1>4. \A h \in Gets : GetInv(h)'
  BY DEF GetInv, GetLabels
<1>5. OneDeliveryPerPayment'
  BY DEF OneDeliveryPerPayment, GetInv
<1>6. QED
  BY <1>1, <1>2, <1>3, <1>4, <1>5 DEF Agreement

\* A new price changes no amount that was signed or required before.
LEMMA CatalogueRefreshKeeps ==
    ASSUME IInv, NEW b \in Bodies, CatalogueRefresh(b)
    PROVE  StateTypeOK' /\ Agreement'
<1> USE CallsAssumption DEF IInv, Agreement, TypeOK, StateTypeOK, Procs, memoryVars, storeVars,
       CatalogueRefresh
<1>1. StateTypeOK'
  BY DEF Labels, Charging, Running, Ended, Amount, RowStatus
<1>2. \A d \in Calls : CallInv(d)'
  BY DEF CallInv, StoreInv, CallLabels, Accepted, Charging, GetInv
<1>3. \A d \in Calls : StoreInv(d)'
  BY DEF CallInv, StoreInv
<1>4. \A h \in Gets : GetInv(h)'
  BY DEF GetInv, GetLabels
<1>5. OneDeliveryPerPayment'
  BY DEF OneDeliveryPerPayment, GetInv
<1>6. QED
  BY <1>1, <1>2, <1>3, <1>4, <1>5 DEF Agreement

\* A restart loses calls, tickets and contexts, and nothing the stores hold.
LEMMA RestartKeeps ==
    ASSUME IInv, Restart
    PROVE  StateTypeOK' /\ Agreement'
<1> USE CallsAssumption DEF IInv, Agreement, TypeOK, StateTypeOK, Procs, memoryVars, storeVars,
       Restart
<1>1. StateTypeOK'
  BY BoundAssumption DEF Labels, Charging, Running, Ended, Amount, RowStatus
<1>2. \A d \in Calls : CallInv(d)'
  BY DEF CallInv, StoreInv, CallLabels, Accepted, Charging, GetInv, Running
<1>3. \A d \in Calls : StoreInv(d)'
  BY DEF CallInv, StoreInv
<1>4. \A h \in Gets : GetInv(h)'
  BY DEF GetInv, GetLabels, Running, Charging
<1>5. OneDeliveryPerPayment'
  BY DEF OneDeliveryPerPayment, GetInv
<1>6. QED
  BY <1>1, <1>2, <1>3, <1>4, <1>5 DEF Agreement

\* The empty stores agree.
LEMMA InitAgreement == Init => IInv
<1> SUFFICES ASSUME Init PROVE IInv
  OBVIOUS
<1> USE CallsAssumption DEF Init, Procs
<1>1. QuoteTypeOK
  BY QuoteInitOK
<1>2. StateTypeOK
  <2>1. 0 \in 0..MaxRestarts
    BY BoundAssumption
  <2>2. QED
    BY <2>1 DEF StateTypeOK, Labels, Amount, RowStatus
<1>3. \A c \in Calls : CallInv(c) /\ StoreInv(c)
  BY DEF CallInv, StoreInv, CallLabels, Accepted
<1>4. \A g \in Gets : GetInv(g)
  BY DEF GetInv, GetLabels
<1>5. OneDeliveryPerPayment
  BY DEF OneDeliveryPerPayment
<1>6. QED
  BY <1>1, <1>2, <1>3, <1>4, <1>5 DEF IInv, TypeOK, Agreement

\* Every step keeps the inductive invariant: one case per action.
LEMMA StepAgreement == IInv /\ [Next]_vars => IInv'
<1> SUFFICES ASSUME IInv, [Next]_vars PROVE IInv'
  OBVIOUS
<1>1. QuoteTypeOK'
  BY QuoteStep DEF IInv, TypeOK
<1>2. ASSUME NEW c \in Calls, CallStep(c)
      PROVE  StateTypeOK' /\ Agreement'
  BY <1>2, NameCheckedKeeps, StartCountKeeps, CountFailsKeeps, DynamicPriceKeeps,
     QuotePreviewKeeps, VerifyKeeps, HandlerPriceKeeps, OpenRowKeeps, OpenRowFailsKeeps,
     CompleteKeeps, CompletionFailsKeeps, SettleAnsweredKeeps, SettleThrowsKeeps,
     RecordSettlementKeeps, RecordSettlementThrowsKeeps, ReplyKeeps DEF CallStep
<1>3. ASSUME NEW c \in Calls, LoadSession(c) \/ Transfer(c) \/ SweepTicket(c)
      PROVE  StateTypeOK' /\ Agreement'
  BY <1>3, LoadSessionKeeps, TransferKeeps, SweepTicketKeeps
<1>4. ASSUME NEW g \in Gets, GetStep(g) \/ \E c \in Calls : ClaimTicket(g, c)
      PROVE  StateTypeOK' /\ Agreement'
  BY <1>4, OpenDeliveryKeeps, OpenDeliveryFailsKeeps, LinkPaymentKeeps, DeliverKeeps,
     DeliveryFailsKeeps, ClaimTicketKeeps DEF GetStep
<1>5. ASSUME NEW s \in Sessions, Shut(s)
      PROVE  StateTypeOK' /\ Agreement'
  BY <1>5, ShutKeeps
<1>6. ASSUME NEW b \in Bodies, CacheAges(b) \/ CatalogueRefresh(b)
      PROVE  StateTypeOK' /\ Agreement'
  BY <1>6, CacheAgesKeeps, CatalogueRefreshKeeps
<1>7. ASSUME Restart
      PROVE  StateTypeOK' /\ Agreement'
  BY <1>7, RestartKeeps
<1>8. ASSUME UNCHANGED vars
      PROVE  StateTypeOK' /\ Agreement'
  <2> USE <1>8 DEF vars, memoryVars, storeVars, IInv, TypeOK, StateTypeOK, Agreement
  <2>1. StateTypeOK'
    OBVIOUS
  <2>2. \A c \in Calls : CallInv(c)' /\ StoreInv(c)'
    BY DEF CallInv, StoreInv
  <2>3. \A g \in Gets : GetInv(g)'
    BY DEF GetInv
  <2>4. OneDeliveryPerPayment'
    BY DEF OneDeliveryPerPayment
  <2>5. QED
    BY <2>1, <2>2, <2>3, <2>4
<1>9. StateTypeOK' /\ Agreement'
  BY <1>2, <1>3, <1>4, <1>5, <1>6, <1>7, <1>8 DEF Next
<1>10. QED
  BY <1>1, <1>9 DEF IInv, TypeOK

\* The chain, the ledger, the inference rows and the tickets agree at every step of
\* every execution: what the theorems below rest on.
THEOREM InvariantHolds == Spec => []IInv
  BY InitAgreement, StepAgreement, PTL DEF Spec

\* Type correctness, whatever fails.
THEOREM TypeCorrect == Spec => []TypeOK
<1>1. IInv => TypeOK
  BY DEF IInv
<1>2. QED
  BY <1>1, InvariantHolds, PTL

\* No completion is ever paid for that the provider did not serve: the
\* settlement is asked for after the row was closed (README: "settle after the
\* handler, cancel on failure"), at every interleaving, failure and restart.
THEOREM CompletionsArePaidAfterService == Spec => []PaidCompletionWasServed
<1>1. IInv => PaidCompletionWasServed
  BY DEF IInv, Agreement, StoreInv, PaidCompletionWasServed
<1>2. QED
  BY <1>1, InvariantHolds, PTL

\* Whoever holds a claimed ticket is owed a delivery the chain has been paid for
\* (routes/chat.ts:151, which asks for neither a session nor a payment).
THEOREM DeliveriesArePaid == Spec => []DeliveryWasPaid
<1>1. IInv => DeliveryWasPaid
  <2> SUFFICES ASSUME IInv, NEW g \in Gets, claim[g] # Nothing
               PROVE  transfer[claim[g]] = "moved"
    BY DEF DeliveryWasPaid
  <2>1. claim[g] \in Calls /\ pc[claim[g]] = "answered"
    BY DEF IInv, Agreement, TypeOK, StateTypeOK, GetInv
  <2>2. QED
    BY <2>1 DEF IInv, Agreement, CallInv
<1>2. QED
  BY <1>1, InvariantHolds, PTL

\* No two requests hold the same ticket, however they race (inference.ts:149-158).
THEOREM DeliveriesAreMadeOnce == Spec => []OneDeliveryPerPayment
<1>1. IInv => OneDeliveryPerPayment
  BY DEF IInv, Agreement
<1>2. QED
  BY <1>1, InvariantHolds, PTL

\* The ledger never claims money that did not move on Hedera, nor an amount
\* other than the one the client signed (x402.ts:40-73, ledger.ts:84).
THEOREM LedgerClaimsOnlySignedMoney == Spec => []SettledPaymentIsOnChain
<1>1. IInv => SettledPaymentIsOnChain
  BY DEF IInv, Agreement, StoreInv, SettledPaymentIsOnChain, SettledIn
<1>2. QED
  BY <1>1, InvariantHolds, PTL
-----------------------------------------------------------------------------
(* The overshoot of a session's cap *)

\* Only admission adds to the calls in flight, and only booking adds to the
\* spend; booking takes its call out of flight in the same step.
NothingNew(s) == spent'[s] = spent[s] /\ InFlight(s)' \subseteq InFlight(s)
AdmitsOne(s) ==
    /\ Open(s) /\ Cardinality(Admitted) < MaxInFlight
    /\ spent'[s] = spent[s]
    /\ \E c \in Calls : InFlight(s)' \subseteq InFlight(s) \cup {c}
BooksOne(s) ==
    \E c \in InFlight(s), p \in Prices :
        spent'[s] <= spent[s] + p /\ InFlight(s)' \subseteq InFlight(s) \ {c}

\* A step of an admitted call never adds to a session's flight; booking pays with
\* the place of its own call.
LEMMA CallFlight ==
    ASSUME IInv, NEW c \in Calls, CallStep(c), NEW s \in Sessions
    PROVE  NothingNew(s) \/ BooksOne(s)
<1> USE CallsAssumption DEF IInv, Agreement, TypeOK, StateTypeOK, Procs, InFlight, Admitted,
       Charging, Goto, memoryVars, storeVars
<1>1. CASE RecordSettlement(c) \/ RecordSettlementThrows(c)
  <2>1. required[c] \in Prices
    BY <1>1 DEF CallInv, Accepted, RecordSettlement, RecordSettlementThrows
  <2>2. \A d \in Calls : d # c => pc'[d] = pc[d]
    BY <1>1 DEF RecordSettlement, RecordSettlementThrows
  <2>3. pc[c] = "booking" /\ pc'[c] = "replying"
    BY <1>1 DEF RecordSettlement, RecordSettlementThrows
  <2>4. /\ SessionOf[c] = s => spent'[s] \in {spent[s], spent[s] + required[c]}
        /\ SessionOf[c] # s => spent'[s] = spent[s]
    BY <1>1 DEF RecordSettlement, RecordSettlementThrows, WritePayment, Charge
  <2>5. CASE SessionOf[c] = s
    <3>1. c \in InFlight(s) /\ InFlight(s)' \subseteq InFlight(s) \ {c}
      BY <2>2, <2>3, <2>5
    <3>2. spent'[s] <= spent[s] + required[c]
      BY <2>1, <2>4, <2>5 DEF Prices
    <3>3. QED
      BY <2>1, <3>1, <3>2 DEF BooksOne
  <2>6. CASE SessionOf[c] # s
    BY <2>2, <2>3, <2>4, <2>6 DEF NothingNew
  <2>7. QED
    BY <2>5, <2>6
<1>2. CASE NameChecked(c) \/ StartCount(c) \/ CountFails(c) \/ DynamicPrice(c)
           \/ QuotePreview(c) \/ Verify(c) \/ HandlerPrice(c)
  BY <1>2 DEF NothingNew, NameChecked, StartCount, CountFails, DynamicPrice, QuotePreview,
     Verify, HandlerPrice, AsksPrice
<1>3. CASE OpenRow(c) \/ OpenRowFails(c) \/ Complete(c) \/ CompletionFails(c)
           \/ SettleAnswered(c) \/ SettleThrows(c) \/ Reply(c)
  BY <1>3 DEF NothingNew, OpenRow, OpenRowFails, Complete, CompletionFails, SettleAnswered,
     SettleThrows, Reply
<1>4. QED
  BY <1>1, <1>2, <1>3 DEF CallStep

\* What any step may do to a session's spend and flight: nothing new, admit one call
\* below the cap and the bound, or book one.
LEMMA FlightStep ==
    ASSUME IInv, [Next]_vars, NEW s \in Sessions
    PROVE  NothingNew(s) \/ AdmitsOne(s) \/ BooksOne(s)
<1> USE CallsAssumption DEF IInv, TypeOK, StateTypeOK, Procs, InFlight, Admitted,
       Goto, memoryVars, storeVars
<1>1. ASSUME NEW c \in Calls, CallStep(c)
      PROVE  NothingNew(s) \/ BooksOne(s)
  BY <1>1, CallFlight
<1>2. ASSUME NEW c \in Calls, LoadSession(c)
      PROVE  NothingNew(s) \/ AdmitsOne(s)
  <2>1. spent' = spent /\ \A d \in Calls : d # c => pc'[d] = pc[d]
    BY <1>2 DEF LoadSession
  <2>2. CASE Open(SessionOf[c]) /\ SessionOf[c] = s
    <3>1. InFlight(s)' \subseteq InFlight(s) \cup {c}
      BY <2>1
    <3>2. QED
      BY <1>2, <2>1, <2>2, <3>1 DEF AdmitsOne, LoadSession
  <2>3. CASE SessionOf[c] # s
    BY <2>1, <2>3 DEF NothingNew
  <2>4. CASE ~Open(SessionOf[c])
    BY <1>2, <2>1, <2>4 DEF NothingNew, LoadSession, Charging
  <2>5. QED
    BY <2>2, <2>3, <2>4
<1>3. ASSUME NEW c \in Calls, Transfer(c) \/ SweepTicket(c)
      PROVE  NothingNew(s)
  BY <1>3 DEF NothingNew, Transfer, SweepTicket
<1>4. ASSUME NEW g \in Gets, GetStep(g) \/ \E c \in Calls : ClaimTicket(g, c)
      PROVE  NothingNew(s)
  BY <1>4 DEF NothingNew, GetStep, ClaimTicket, OpenDelivery, OpenDeliveryFails,
     LinkPayment, Deliver, DeliveryFails
<1>5. ASSUME \/ \E t \in Sessions : Shut(t)
             \/ \E b \in Bodies : CacheAges(b) \/ CatalogueRefresh(b)
             \/ UNCHANGED vars
      PROVE  NothingNew(s)
  BY <1>5 DEF NothingNew, Shut, CacheAges, CatalogueRefresh, vars
<1>6. ASSUME Restart
      PROVE  NothingNew(s)
  BY <1>6 DEF NothingNew, Restart, Charging
<1>7. QED
  BY <1>1, <1>2, <1>3, <1>4, <1>5, <1>6 DEF Next

\* The calls in flight of a session are finitely many and among those admitted.
LEMMA FlightIsFinite ==
    ASSUME NEW s
    PROVE  /\ IsFiniteSet(InFlight(s)) /\ IsFiniteSet(Admitted)
           /\ Cardinality(InFlight(s)) \in Nat /\ Cardinality(Admitted) \in Nat
           /\ Cardinality(InFlight(s)) <= Cardinality(Admitted)
<1>1. InFlight(s) \subseteq Admitted /\ Admitted \subseteq Calls
  BY DEF InFlight, Admitted
<1>2. QED
  BY <1>1, CallsAssumption, FS_Subset, FS_CardinalityType

\* How the exposure of a session may change in one step.
LEMMA ExposureStep ==
    ASSUME IInv, [Next]_vars, NEW s \in Sessions
    PROVE  \/ Exposure(s)' <= Exposure(s)
           \/ Open(s) /\ Exposure(s)' <= SpendCap[s] - 1 + MaxPrice * MaxInFlight
<1> DEFINE n == Cardinality(InFlight(s))
           m == Cardinality(InFlight(s)')
<1>1. /\ spent[s] \in Nat /\ spent'[s] \in Nat
      /\ n \in Nat /\ m \in Nat
      /\ IsFiniteSet(InFlight(s)) /\ IsFiniteSet(InFlight(s)')
  <2>1. IInv'
    BY StepAgreement
  <2>2. InFlight(s)' \subseteq Calls
    BY DEF InFlight, Admitted
  <2>3. QED
    BY <2>1, <2>2, FlightIsFinite, CallsAssumption, FS_Subset, FS_CardinalityType
       DEF IInv, TypeOK, StateTypeOK
<1>2. MaxPrice \in Nat /\ MaxInFlight \in Nat /\ SpendCap[s] \in Nat
  BY PriceAssumption, BoundAssumption, CapAssumption
<1>3. Exposure(s) = spent[s] + MaxPrice * n /\ Exposure(s)' = spent'[s] + MaxPrice * m
  BY DEF Exposure
<1>4. \A i, j \in Nat : i <= j => MaxPrice * i <= MaxPrice * j
  BY <1>2
<1>5. CASE NothingNew(s)
  <2>1. m <= n
    BY <1>1, <1>5, FS_Subset DEF NothingNew
  <2>2. MaxPrice * m <= MaxPrice * n
    BY <1>1, <1>4, <2>1
  <2>3. spent'[s] = spent[s]
    BY <1>5 DEF NothingNew
  <2>4. QED
    BY <1>1, <1>2, <1>3, <2>2, <2>3
<1>6. CASE AdmitsOne(s)
  <2>1. PICK c \in Calls : InFlight(s)' \subseteq InFlight(s) \cup {c}
    BY <1>6 DEF AdmitsOne
  <2>2. IsFiniteSet(InFlight(s) \cup {c}) /\ Cardinality(InFlight(s) \cup {c}) <= n + 1
    <3>1. /\ IsFiniteSet(InFlight(s) \cup {c})
          /\ Cardinality(InFlight(s) \cup {c}) =
                IF c \in InFlight(s) THEN Cardinality(InFlight(s))
                                     ELSE Cardinality(InFlight(s)) + 1
      BY <1>1, FS_AddElement, Zenon
    <3>2. QED
      BY <1>1, <3>1
  <2>3. m <= Cardinality(InFlight(s) \cup {c}) /\ Cardinality(InFlight(s) \cup {c}) \in Nat
    BY <2>1, <2>2, FS_Subset, FS_CardinalityType
  <2>4. n + 1 <= MaxInFlight
    BY <1>1, <1>2, <1>6, FlightIsFinite DEF AdmitsOne
  <2>5. m <= MaxInFlight
    BY <1>1, <1>2, <2>2, <2>3, <2>4
  <2>6. MaxPrice * m <= MaxPrice * MaxInFlight
    BY <1>1, <1>2, <1>4, <2>5
  <2>7. Open(s) /\ spent'[s] <= SpendCap[s] - 1
    BY <1>1, <1>2, <1>6 DEF AdmitsOne, Open
  <2>8. QED
    BY <1>1, <1>2, <1>3, <2>6, <2>7
<1>7. CASE BooksOne(s)
  <2>1. PICK c \in InFlight(s), p \in Prices :
               spent'[s] <= spent[s] + p /\ InFlight(s)' \subseteq InFlight(s) \ {c}
    BY <1>7 DEF BooksOne
  <2>2. IsFiniteSet(InFlight(s) \ {c}) /\ Cardinality(InFlight(s) \ {c}) = n - 1
    BY <1>1, FS_RemoveElement
  <2>3. m <= n - 1
    BY <2>1, <2>2, FS_Subset
  <2>4. MaxPrice * m + MaxPrice <= MaxPrice * n
    <3>1. MaxPrice * (m + 1) <= MaxPrice * n
      BY <1>1, <1>4, <2>3
    <3>2. MaxPrice * (m + 1) = MaxPrice * m + MaxPrice
      BY <1>1, <1>2
    <3>3. QED
      BY <3>1, <3>2
  <2>5. p <= MaxPrice /\ p \in Nat
    BY <1>2 DEF Prices
  <2>6. QED
    BY <1>1, <1>2, <1>3, <2>1, <2>4, <2>5
<1>8. QED
  BY <1>5, <1>6, <1>7, FlightStep

\* However many calls a client makes, a session's recorded spend exceeds its
\* cap by less than one maximal price per call in flight at the same time.
THEOREM OvershootIsBounded == Spec => []ExposureBounded
<1>1. Init => ExposureBounded
  <2> SUFFICES ASSUME Init, NEW s \in Sessions
               PROVE  Exposure(s) <= SpendCap[s] - 1 + MaxPrice * MaxInFlight
    BY DEF ExposureBounded
  <2>1. InFlight(s) = {}
    BY DEF Init, InFlight, Admitted, Charging, Procs
  <2>2. Exposure(s) = 0
    BY <2>1, FS_EmptySet, PriceAssumption DEF Init, Exposure
  <2>3. SpendCap[s] - 1 \in Nat /\ MaxPrice * MaxInFlight \in Nat
    BY CapAssumption, PriceAssumption, BoundAssumption
  <2>4. QED
    BY <2>2, <2>3
<1>2. IInv /\ ExposureBounded /\ [Next]_vars => ExposureBounded'
  <2> SUFFICES ASSUME IInv, ExposureBounded, [Next]_vars, NEW s \in Sessions
               PROVE  Exposure(s)' <= SpendCap[s] - 1 + MaxPrice * MaxInFlight
    BY DEF ExposureBounded
  <2>1. Exposure(s) <= SpendCap[s] - 1 + MaxPrice * MaxInFlight
    BY DEF ExposureBounded
  <2>2. Exposure(s) \in Int /\ Exposure(s)' \in Int
    <3>1. IInv'
      BY StepAgreement
    <3>2. spent[s] \in Nat /\ spent'[s] \in Nat
      BY <3>1 DEF IInv, TypeOK, StateTypeOK
    <3>3. Cardinality(InFlight(s)) \in Nat /\ Cardinality(InFlight(s)') \in Nat
      <4>1. InFlight(s)' \subseteq Calls
        BY DEF InFlight, Admitted
      <4>2. QED
        BY <4>1, FlightIsFinite, CallsAssumption, FS_Subset, FS_CardinalityType
    <3>4. QED
      BY <3>2, <3>3, PriceAssumption DEF Exposure
  <2>3. SpendCap[s] - 1 + MaxPrice * MaxInFlight \in Int
    BY CapAssumption, PriceAssumption, BoundAssumption
  <2>4. QED
    BY <2>1, <2>2, <2>3, ExposureStep
<1>3. QED
  BY <1>1, <1>2, InvariantHolds, PTL DEF Spec

\* Once a session is revoked, expired or exhausted, what it may still come to
\* cost never grows: the calls admitted before are all that can be charged.
THEOREM ClosedSessionsWindDown == Spec => ClosedSessionWindsDown
<1>1. IInv /\ [Next]_vars => [\A s \in Sessions : Closed(s) => Exposure(s)' <= Exposure(s)]_vars
  <2> SUFFICES ASSUME IInv, [Next]_vars, NEW s \in Sessions, Closed(s)
               PROVE  Exposure(s)' <= Exposure(s)
    OBVIOUS
  <2>1. ~Open(s)
    BY CapAssumption DEF Closed, Open, IInv, TypeOK, StateTypeOK
  <2>2. QED
    BY <2>1, ExposureStep
<1>2. QED
  BY <1>1, InvariantHolds, PTL DEF Spec, ClosedSessionWindsDown
===============================================================================
