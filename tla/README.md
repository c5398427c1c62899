# Router402 in TLA+

Router402 (`src/`) sells access to language models by the call: a gateway
(`apps/gateway`) prices every chat request, demands an x402 payment in a Hedera
token for it, runs the request against a provider and settles the payment
through a facilitator. A wallet first opens a *session* with a total and a
per-request spending cap; the session and the model catalogue are published as
ENS names (`packages/ens`); a web client (`apps/web`) and coding harnesses pay
through it. These modules model the gateway, its stores, the catalogue and the
browser, and check what is hard to test in them: money against work, ledger against
chain, caps under concurrency, what ends a session and when, answers that come late,
torn or never, restarts and failing dependencies.

## Inventory

| Component | State | Operations | Interacts through |
|---|---|---|---|
| Session check, `middleware/session.ts` | none (reads `Session`) | `requireSession`, `loadSession` | database, liveness cache, async context |
| Quote cache, `quote.ts` | in-memory `Map`, TTL 5 min, 500 entries | `priceRequest`, `readCache`, `writeCache` | catalogue snapshot, provider token counter |
| x402 middleware, `x402.ts` | facilitator client | `dynamicPrice`, `quotePreview`, `onAfterSettle`, `onSettleFailure` | @x402 library (external), facilitator, ledger |
| Chat routes, `routes/chat.ts`, `inference.ts` | in-memory delivery tickets, TTL 2 min | both paid POSTs, stream GET, request lookup | quote cache, ledger, provider |
| Ledger, `ledger.ts`, `schema.prisma` | `InferenceRequest`, `Payment`, `Session.spentAtomic` | open, close, fail, `recordSettlement`, `linkPaymentToRequest` | database, audit |
| Audit, `audit/hcs.ts` | `Payment.hcs*` | background submission | Hedera consensus service |
| Analytics, `routes/analytics.ts` | none | sums over inference rows | database |
| Sessions, `routes/sessions.ts`, `auth/*` | `Session`, `Account`, token | challenge, create, current, revoke | wallet signature, mirror node, session names |
| Session names, `session-names.ts`, `packages/ens/src/sessions.ts` | ENS registry, liveness cache | register, unregister, read, `isSessionNameLive` | Sepolia RPC |
| Harness, `harness/handler.ts`, `routes/harness.ts` | `HarnessToken` | create, list, revoke, proxy, `ensureSession` | gateway over loopback, sessions |
| Catalogue, `catalogue.ts`, `packages/ens` | in-memory snapshot, refresh in flight | `refreshSoon`, `current`, `findModel`; `publishAgent` | ENS registry |
| Pricing, `packages/shared/src/pricing.ts` | none | `quoteRequest`, conversions | - |
| Providers, `providers/*`, `middleware/error.ts` | the buffer of a stream | `complete`, `stream`, `countInputTokens`, error mapping | vendor SDKs |
| Web client, `apps/web` | session, payment flow, live feed | open, restore, end, pay, stream, poll | gateway REST and SSE, localStorage |

What is hard in it:

* every request crosses a dozen awaits, and other requests run in between: the
  cap test and the spend it is about are two awaits and a settlement apart;
* the same price is computed three times (challenge, paid retry, handler) from a
  cache that expires, evicts and is filled by racing misses, over a catalogue that
  refreshes in the background;
* a settlement that timed out may still execute, and a database call that threw
  may still have committed;
* the streaming path pays in one request and delivers in another, joined by a
  ticket that lives only in memory;
* three stores must agree without a transaction over them: Hedera, the database
  and the process's memory; a fourth, the audit topic, is written afterwards;
* a session is kept in four places, its row, its token, its name in the ENS
  registry and the cached answer about that name; each ends it at another moment,
  at another precision, and opening or closing one is a sequence of transactions of
  which any may fail, be lost or land late;
* the catalogue is read in many calls, each answered at its own moment, while a
  publisher rewrites it;
* the browser shows what answers said when they were given, to a user who has
  pressed, left or reloaded since.

What makes each component correct is stated with its hazards in `PROJECT.json`.

## Modules

| Module | What it is |
|---|---|
| `QuoteCache` | the cache behind `priceRequest`, with callers that price any body |
| `ErrorMapping` | from what was thrown to the status the caller is answered with |
| `PaidCalls` | the paid pipeline; extends both and uses their operators inside its own actions |
| `PaymentContract` | the abstract specification: what a paying client may rely on |
| `PaidCallsProps` | the properties of `PaidCalls`, the refinement mapping, the inductive invariant |
| `AuditTrail`, `AuditTrailProps` | the audit topic on top of `PaidCalls`, which it extends: its every step is a step of the pipeline or a stutter of it |
| `SessionNames` | the clock, the names of sessions in the registry and the cached answers about them |
| `Sessions`, `SessionsProps` | opening, checking and closing the sessions of an account, and its harness credentials; extends `SessionNames` |
| `Pricing` | `quoteRequest`, with doubles that may stand above the amount they stand for, and what a sound quote is |
| `Catalogue`, `CatalogueProps` | publisher, chain and the gateway's snapshot; extends `Pricing`, which says what a snapshot's models cost |
| `StreamPromise` | the abstract specification of a streamed answer |
| `StreamRelay`, `StreamRelayProps` | the answer on its way from provider to reader, shown to implement it; its inductive invariant |
| `WebClient`, `WebClientProps` | one tab: session provider, connect gate, settings, chat |
| `Dashboard`, `DashboardProps` | the pages that only show: live feed, analytics, credential list |
| `MC...` | instances for TLC |
| `...Proofs` | theorems: `QuoteCacheProofs`, `PaidCallsProofs`, `LedgerProofs` (contract, spend, settlements, audit trail), `SessionsProofs`, `CatalogueProofs` (and pricing), `StreamRelayProofs`, `WebClientProofs`, `DashboardProofs` |

`PaidCalls` sees a session from the outside: `shut` is the row revoked or expired,
`NameChecked` any answer about its name. `Sessions` sees a paid call from the
outside: `Serve`, which may exhaust the session. The two meet in the session check.
`WebClient` sees the gateway as what its endpoints may answer, `Dashboard` sees the
ledger as rows that get more. `StreamRelay` is what happens inside `Deliver` and
`DeliveryFails` of `PaidCalls`. `CatalogueRefresh` of `PaidCalls` is what `Catalogue`
is about.

### How `PaidCalls` corresponds to the code

A process per paid POST (`Calls`) and per stream GET (`Gets`); `pc` says at which
await it is suspended. Code between two awaits runs on Node's single thread
without interruption and is one action.

| Variable | In the code |
|---|---|
| `signed`, `required` | amount in the client's payment payload; amount in the x402 requirements |
| `quoted` | `PricedRequest.quote.amountAtomic` in the handler, stored in the inference row |
| `settlement`, `booked` | `context.settlement.success`; whether `context.paymentId` is set |
| `tickets`, `claim` | the `tickets` map; the ticket a GET holds |
| `shut`, `spent` | `revokedAt` set or `expiresAt` passed; `Session.spentAtomic` |
| `row`, `payment` | `InferenceRequest.status`; the `Payment` row |
| `transfer` | what became of the signed transfer on Hedera |
| `price`, `cache`, `counting` | what `quoteRequest` yields today; the quote map; price requests suspended in `countInputTokens` |

A call goes `LoadSession`, `NameChecked`, then prices and gets a challenge
(`DynamicPrice`, `QuotePreview`); the client signs and the call starts again from
`LoadSession`, is accepted if the amount required now is the amount signed, and
runs its handler. A completion opens its row, asks the provider, closes the row
and settles; a stream issues a ticket and settles. `SettleAnswered` and
`SettleThrows` are the two hooks, followed by the ledger transaction and `Reply`.
`Transfer` is Hedera's own step: it may come after the gateway stopped waiting.
Whether a failed completion is settled is decided by the status it is answered with
(`ErrorMapping`): x402 settles whatever is answered below 400.

Abstractions: prices are `1..MaxPrice`; a body is a model value with one cache
key; the answer of the liveness check is arbitrary (`TRUE`, `FALSE` or unknown);
one payment payload per call; a session's caps are constants (no code changes
them). The ticket TTL is not counted: a ticket can be swept only when its call
has ended, because two minutes outlast the 30 s the facilitator has to answer.
The definitions named "Mutant" are deliberately wrong variants of the
definition they precede. No specification uses them; they exist to show that each
property notices the bug they model.

### How `Sessions` corresponds to the code

A process per HTTP request (`Reqs`), of one of four kinds: `open` is
`POST /v1/sessions`, `revoke` is `POST /v1/sessions/current/revoke`, `harness` is
any request through a harness URL, `call` is anything else behind `requireSession`,
creating and revoking harness credentials among it.

| Variable | In the code |
|---|---|
| `now` | the clock; `Second` ticks to a second, so that moments and whole seconds differ |
| `created`, `expiresAt`, `revokedAt`, `named`, `exhausted` | the rows of `Session`, numbered by `createdAt`; `exhausted` is `spentAtomic >= spendCapAtomic` |
| `openedBy`, `via` | whose caps the row carries: the wallet's, or those of a harness credential |
| `name`, `published` | what the registry knows of the label (nothing, a pending registration, held, burnt); whether its text records are written |
| `burntAt` | when the name was burnt: a history variable, read by no action |
| `liveness` | the `Map` of `session-names.ts` |
| `target`, `moment` | the session a request is about; when it asked the registry, and before that the end its session will have |
| `handed`, `harness` | sessions whose token a client holds; `HarnessToken.revokedAt` |

`VerifyWallet` or `FindHarness` and `EnsureSession` lead to `CreateSession`; then the name
is registered (`SendRegister`, the registry's own `RegisterMined`, `RegisterReceipt`), its
records written (`RecordsReceipt`), the row named (`NameSession`) and the token issued.
`RegisterThrows` is the `catch` of `registerSessionName`: the session goes on without a
name, although the transaction it gave up on may still land. A transaction that is mined
may have reverted; its receipt looks like any other to the code, which waits for it and
does not read its status: `RegisterReceipt` and `RecordsReceipt` go on either way.
`LoadSession` is the token's and the row's check up to the first await on the registry;
`ReadState` is the moment the registry evaluates the read, `NameRead` the moment its answer
arrives, is cached and decides. Revocation burns the name (`SendBurn`, the registry's own
`BurnMined`, which may be a revert, `BurnReceipt`, which tells the cache that the name is
gone either way, or `BurnThrows`, which does not) and then the row (`MarkRevoked`).

Abstractions: one account, whose `sessionAccountId` is its own; the mirror node's
answer about the name's owner is part of "the name may or may not be registered";
a wallet's signature is valid or not. A transaction that was given up on while its
registration is pending lands later (`RegisterMined`), a burn that was given up on
is the owner's burn (`OwnerUnregisters`). The registry compares whole seconds of the
same clock as the gateway: drift between the two is not modelled.

### How `ErrorMapping` corresponds to the code

An error is its class, the number in its `status` and the numbers in the JSON
documents nested in its message. `CodeOf` is `unwrapProviderMessage`, which opens three
documents and lets the innermost number win; `UpstreamStatus` is `classifyUpstream` with
`classify`'s 500 for the rest. `CompletionFails` of `PaidCalls` throws any of them.

### How `Pricing` and `Catalogue` correspond to the code

Money is counted in `UNIT` parts to the atomic unit, so that rounding up and the minimum
charge are visible. The code counts in doubles and rounds with `Math.ceil`: where the exact
amount is a whole number of units, the double may stand above it, and the quote is a unit
more (0.2 times 1.1 is charged 220001). That is the argument `drift` of `ToAtomic`; the
error is assumed to be smaller than a part. Malformed numbers in records are not modelled,
negative ones and limits too small to be sold are. A model's records come in two groups,
what it is (`identity`) and what it costs (`price`), and the value of a record is the
number of the write that put it there: `Offered` says what each write means. That makes
"old" and "new" comparable.

| Variable | In the code |
|---|---|
| `status`, `record`, `delegated`, `pending` | the agent registry and resolver; the operator's transactions in nonce order |
| `script`, `publishedBy` | where `publish-catalogue.ts` is; whose records a name got last (history) |
| `offers`, `source`, `stale`, `inFlight` | `snapshot.models` by the records they came from, `snapshot.source`, its age, `refreshSoon`'s promise |
| `refresh` | per promise: the labels it found, the calls it still has to make, what it has got; `since` is history |

A refresh reads the logs, the state of each label, then the records in several calls
(`Chunks`); any of them is answered at its own moment or fails alone. The script sends a
registration, waits, sends the records, waits, model by model; it may die anywhere and is
then run again, over transactions that may still be mined. A mined transaction may have
reverted (`Mine`), and the script takes its receipt for success (`Registered`, `Recorded`).
Left out: a gateway without ENS, aliases, the one-time deployment, the encodings.

### How `AuditTrail` corresponds to the code

`PipelineStep` is any step of `PaidCalls`; if it books a payment, the message goes on its
way in the same step, as `recordSettlement` hands it to `submitAuditInBackground`.
`Consensus` gives messages their sequence numbers in any order, `NoteReceipt` is the
callback, `AuditFails` its `catch`. A restart loses the promises, and messages that had
not left the process. On the streaming path the message carries no request, because the
request is opened later.

### How `StreamRelay` corresponds to the code

A line of a stream is two pieces, the second of which ends it; a chunk is any number of
pieces. The adapter, and the chat, cut what they have at the last newline and keep the
rest (`Parsed`, `Kept`); the harness's hop passes bytes on. The adapters built on vendor
SDKs are the case in which lines arrive whole. The harness is assumed to reassemble
lines as the chat does. `StreamPromise` says what the reader gets: a beginning of what
the model said, "complete" only when it has all of it and the row is closed, and an
outcome in the end; a harness may be left without one (see *Divergences*).

### How `WebClient` and `Dashboard` correspond to the code

In `WebClient` each await of the session provider is a job, each leg of a chat turn a
request on the `wire`. The user may at any time press what is on screen and enabled, change
the page or reload. `KeepChat` is the connect gate: the chat is mounted while there is a
session, and loses its turns and its busy flag otherwise. `dropped` is a history variable:
the sessions disconnected, and those whose revocation was answered or failed; before that
answer a reload finds the session in `localStorage` and may bring it back. A turn keeps the
key and token it began with. Its leg "settled" is the phase the chat shows for any answer
to the paid request, a refusal included, with a transaction only when there is one
(`Settled`; then `Redeemed` or `Refused`). One tab, one wallet; requests that the gateway
handles after the browser gave up on them are modelled for payments only; nobody else
spends the session's allowance.

In `Dashboard` the session is open throughout. `asks` are the questions of a page's
effects; `Cancelled` is the `cancelled` flag of their cleanup, `Rerun` the effect running
again. The four queries of `GET /v1/analytics` are three reads at three moments. Figures
are counts. `handlers` are the two buttons of the harness section, which go on after the
page is left, unheard.

## Runs

| Run | Question | Bounds and why they suffice |
|---|---|---|
| `quote_cache` | do the limits hold and which quotes are lost | 2 callers, 3 bodies, 2 entries: a full map, an eviction and two racing misses of one body all occur |
| `overshoot` | how far can a session overshoot, does a closed one wind down | 3 calls, 2 at a time, cap 2, price up to 2 and changing: admission below, at and above the cap; nothing fails |
| `faults` | money against work, ledger against chain, the spend counter against the payments, does every request end, the contract | a stream and a completion whose prices are 1 or 2 each, 2 GETs (one ticket raced), every await may fail, with errors of every status; a ledger transaction that throws has committed or not; 1 restart |
| `ledger` | do the books close when nothing fails but the audit; does the topic agree with them | 2 calls, 1 GET, steady prices 1 or 2, one failing or lost audit, 1 restart: two messages in either order |
| `sessions` | when does a closed session stop admitting, is a live one ever taken for gone | 1 session, an opening, a revocation and 2 calls; 2 ticks to the second, ends before, at and between whole seconds, cache lifetime 2 ticks, read timeout 1, 4 ticks: a read, a cached answer and an end can follow a burn; database and reads fail, transactions fail or revert; 1 restart |
| `harness` | what may a revoked credential still open | the wallet's session and two of a harness, 2 harness requests at once, 2 calls that create and revoke the credential, the database fails, 1 restart |
| `catalogue` | what a snapshot may mix, whether it is ever stuck, empty or older; do its quotes cover what they authorise; what a finished run of the script knows | 2 models, one handed over; 2 runs of the script, dying anywhere, so that what a dead run left pending is mined while the next one runs and finishes; 2 refreshes at most; 2 writes: a reasoning model that cannot be sold, at a price in whole units, and one with a negative prompt price, so that a quote is above or at the minimum charge, the double exact or above; 1 failed call, reverted transaction or restart |
| `stream` | does the reader get what the model said, and an outcome | 3 lines, every way to cut them, for a chat and for a harness, every failure |
| `web` | what a tab claims, forgets and keeps disabled | 2 turns, 2 sessions, prices within and above the allowance, 1 mishap, 2 page changes or reloads |
| `dashboard` | which answers a page may show, does the feed catch up | 2 questions under way, 2 windows, each table growing once, 1 failed fetch, 2 moves of the user (a page and a window, or a page and a session), 1 credential |
| `spend_cap_is_soft`, `harness_reuses_burnt` | statements of the documentation the code does not keep | each expects its violation; see *Divergences* |

Deadlock is checked in `quote_cache`. Elsewhere clients send finitely many requests,
operators and users finitely many commands, and the system may stop; `EveryRequestEnds`,
`CatalogueConverges`, `ReaderIsAnswered`, `NothingHangs` and `FeedCatchesUp` say that
nothing stops early. `MaxInFlight` bounds the requests served at once, a parameter of
`ExposureBounded`: the code has no such limit, and the theorem shows what the overshoot is
for whatever number a deployment sees. `MaxRestarts`, `MaxPrice`, `MaxWrites`, `MaxRuns`,
`MaxFaults`, `AuditFaults`, `MaxLines`, `MaxTurns`, `MaxSessions`, `MaxRows`, `Mishaps` and
`Visits` bound counters; no theorem depends on their values.

**Fairness.** `GatewayFairness` gives each request weak fairness of its own steps: the
facilitator client has a timeout of 30 s, providers and ENS clients time out, the database
driver throws, and Node runs every settled promise. `AuditFairness` adds that a submitted
message reaches consensus and its promise settles. `CatalogueFairness`: transactions are
mined, the minute of `REFRESH_INTERVAL_MS` passes, a read is answered or times out, and
requests keep coming (a refresh starts only with one). The relay's: a stream ends
(`STREAM_TIMEOUT_MS` aborts it) and bytes on a connection that holds are delivered. The
browser's: requests are answered, promises settle, the interval fires. Nothing is assumed
of clients and users, of expiry and ageing elsewhere, of restarts or of Hedera's transfers.

## Divergences

With a run:

1. `SpentWithinCap`: `schema.prisma` calls the cap the "Total the session may
   ever spend"; the cap is tested against spend already settled, so concurrent
   calls, and the last call by itself, go over it. `ExposureBounded` is the bound
   that holds.
2. `HarnessReusesLiveSession`: `ensureSession` is documented to "Reuse a live
   session for the harness"; it looks at the row only, so a session whose name was
   burnt while its row stayed open (by its owner, or because the second half of a
   revocation failed) is chosen again and again, and refused each time by the
   session check, until its row expires.

Observed while modelling, without a run of their own:

* *Request cap.* `schema.prisma` calls it the "Ceiling for any single request". It is
  tested on the handler's quote, the amount settled is the middleware's
  (`routes/chat.ts:63`); when the cached quote expires between the two and a refresh has
  lowered the price, more than the cap is charged (`ChargeWithinRequestCap` states it).
  `ChargesAreQuotedPrices` and `CapHoldsOnOneSide` are what holds.
* *Revocation.* `README.md:66` says that revoking a session "stops it immediately". Calls
  admitted before are still charged to it (`ClosedSpendsNoMore` states it);
  `ClosedSessionWindsDown` says that no others are.
* *Reverted records of a session.* The caps are said to be "written as records in the same
  transaction batch" (`packages/ens/src/sessions.ts:72`). They are a second transaction,
  and when it reverts the session shows a name without terms (`NamedSessionIsPublished`
  states it).
* *Reverted records of a model.* The publishing script reports a model whose transaction
  was mined and reverted as published (`PublishedAsReported` states it).
  `ReportedIsPublished` says that nothing else makes its report wrong, short of the name's
  end.
* *Quotes.* The cache does not guarantee that both passes quote the same number
  (`quote.ts:39-40`); `LiveQuoteIsKept` says what it does. The x402 requirement match keeps
  a drifted quote from being charged.
* *Analytics* sums inference rows of any status, so failed and unsettled calls count as
  spend (`analytics.ts:25-27`, `40`).
* *Registry's last word.* `middleware/session.ts` says that an `unregister()` "ends the
  session even if the row still looks healthy"; a session whose records transaction threw
  has a name it does not show, and burning that name ends nothing. `BurnEndsNamedSession`
  speaks of named sessions for that reason.
* *Late admission.* When the registry does not answer, a request is admitted on the row it
  read before it asked (`middleware/session.ts:18-36`), at most one read timeout past
  `expiresAt` or a revocation; `ExpiryEndsSession` and `RevocationEndsSession` include that
  time. A burnt name whose row stayed open ends nothing as long as the registry is silent;
  `BurnEndsNamedSession` speaks of admissions on its word.
* *Reverted burn.* The cache is told that the name is gone, and requests are refused for
  the cache's lifetime, on the strength of a receipt that may say the contrary; the row is
  marked revoked next, if the database answers. It is the exception in `GoneIsGone`.
* *Harness caps* "bound what a leaked URL can spend" (`schema.prisma`): they bound one
  session, and `ensureSession` opens another when it is exhausted.
* *Catalogue.* "ENS being briefly unreachable slows nothing down and fails nothing"
  (`catalogue.ts:18-20`): a failed read of one model's records drops that model, while it
  is served, until the next refresh (`UnreachableFailsNothing` states it); a failed read of
  the reasoning record turns a reasoning model into a plain one. An emptied registry leaves
  the last models served for ever, and is asked again at every request.
* *Audit* messages are also sent for failed settlements, unlike `hcs.ts:14-17` says, and
  one lost to a restart leaves no trace.
* *Harness stream.* When the loopback read fails after the headers went out, nothing ends
  the harness's response (`handler.ts:236-246`).
* *Client ceiling.* The signer's ceiling is the session's remaining allowance, not its
  per-request cap (`x402-flow.ts:90-91`). A turn that paid and lost the answer is shown as
  "payment failed".
* *Session in the tab.* A session is forgotten only when its revocation has been answered
  (`session-context.tsx:163-165`), so a reload before brings it back if the gateway never
  saw the request; turns under way when a session is dropped still pay with its key and
  token. The phase "settled" is shown for a refused payment too, without a transaction. A
  brief outage during restore deletes a live session from the browser (the comment at
  `session-context.tsx:82-83` says only dead ones); `disconnect` while `openSession` is
  under way is undone when it finishes; leaving the gate's page allows a second opening; a
  late refresh may show another session's figures; an exhausted session is answered 402 by
  every call that would say so, and stays "active".
* *Dashboard.* An overtaken poll may take the live feed back until the next tick; the
  analytics page keeps the old window's figures under the new title until the new ones
  come, and never takes an error back; the first list of credentials is not cancelled and
  may land after one read later; an access URL stays on screen after its credential was
  revoked, and a creation whose answer is lost leaves a credential whose URL nobody saw.

## Proofs

Every safety property the runs check, invariants, action properties and both
refinements, is also a theorem, for every value of the constants that satisfies the named
assumptions: caps and limits positive, finitely many calls, `Nothing` distinct from data,
chunks that cover the records, published terms that describe models. No theorem bounds
the calls, sessions, restarts, models, lines or turns. One property holds under a
condition that is part of the statement, the same the run checks it under:
`SettlementsAreFindable` assumes that the database answers (`"db" \notin Faults`), because a
transaction that throws leaves a payment unlinked, and the code only logs it
(`ledger.ts:186`). Timeouts of the facilitator and restarts are in.

The ceiling of a single request, which prices that change can break, has two theorems that
say how far it holds. `ChargesAreQuotedPrices`: for any set, if every price of a body lies
in it, so does every charge for it, however the cache evicts, ages and races.
`CapHoldsOnOneSide`: as long as the prices of a body all lie within the cap or all above
it, nothing above the cap is charged. Steady prices are the simplest case of both.

The arguments, by module:

* `QuoteCacheProofs`: `CacheWithinLimit` is inductive together with the type
  invariant; `LiveQuoteIsKept` follows from them step by step. The one
  arithmetic fact is that deleting entry *i* moves later entries up by one.
* `PaidCallsProofs`: `IInv == TypeOK /\ Agreement`. The properties are not
  inductive by themselves: that a completion was served when its transfer is
  submitted needs to know that only a call at "serving" with a PENDING row gets
  there. `CallInv` says what each program location implies for a call's
  amounts, row, transfer and payment; `StoreInv` relates row, payment and
  transfer whatever happened to the process, so that it survives `Restart`;
  `GetInv` says that a claimed ticket has left the map. One lemma per action
  shows that the action keeps each part. `OvershootIsBounded` uses three kinds of
  steps: admit one call below the cap, book one in flight, or nothing new.
  `EveryErrorIsRefused` is the lemma on the error mapping that `CompletionFails` needs.
* `LedgerProofs`, in four parts.
  *The contract*: each action is a step of `PaymentContract` or a stutter.
  *The spend*: `SpendAddsUp` needs that a sum over a finite set does not depend on the
  order in which the library's fold takes its elements. `SumFunctionOnSet` is unfolded as
  a function on the subsets of its set, and the induction takes a smallest
  counterexample, a subset with none below it, because an induction theorem with an
  operator parameter cannot be used. After that each booking adds one payment to one
  session's sum.
  *The settlement and the cap*: `FindInv` says where the payment id is known (before the
  response leaves, as long as the ticket lives, in the hands of the GET); `QuotesFrom`
  and `ChargedFrom` say that every quote remembered for a body, in the cache or in a
  request, is one of the prices it has had, and so is what is signed, required and charged.
  *The trail*: `AuditSpec => Spec` carries everything above over to the audited
  gateway. `TrailInv` adds that every message, on its way or on the topic, tells the
  truth about its payment row; a row keeps its amount, and its request changes only from
  none, so the truth stays (`TruthStays`).
* `SessionsProofs`: `IInv` of `SessionsProps`. `WaitInv` is what makes the bounds
  on admission hold: whatever a request finds out about a session while it waits,
  its question is no older than the read timeout, and a burn or revocation seen in
  the state and not in its answer is younger than the question; a question that fails is
  no older either, which bounds the late admission. `SessionInv` carries
  that age into the cache, and says that a row is named only after its registration
  is over, mined or reverted, which is why a cached "gone" is wrong only when a revocation's
  burn reverted. `OneOpenerPerSession` keeps
  two requests from registering one label. Most actions only move a request
  (`OneRequestMoves`) or touch the one session it is opening or closing
  (`OthersStand`); `AdmittedBy` then reduces the action properties to the three
  steps that admit. `LapsedStays` and `UnlapsedIsOpen` are the arithmetic of whole
  seconds; `AllowanceShrinks` is the harness credential's argument: every row it
  adds costs it one request that could add a row.
* `CatalogueProofs`: every quote is sound, whether or not the double stands above the
  amount, from a few facts about division rounded up and products. `IInv` of
  `CatalogueProps`: `RecordsOnlyAdvance` orders the moments, the snapshot's records are no
  newer than what a refresh has got, that no newer than the chain's. With
  `OneRefreshAtATime` it keeps an older answer from replacing a newer one. `ScriptInv` says
  what the last pending transaction is at each point of the script; nonce order makes its
  receipt speak for those before it. `script.reverted` and `script.lost` remember, as
  history, for which models a receipt said otherwise than the script took it to.
* `StreamRelayProofs`: `RelayInv` is a law of conservation: what the reader has, the text
  on its way to it, the text on its way to the gateway and what both line buffers keep
  add up to what the model said. That a buffer and what follows it are whole lines is
  part of it; it is why no cut can garble or double a line. The lemma `Cut` is the heart
  of it: of whole lines cut anywhere, the complete ones are found, one piece at most is
  kept, and it and the rest are whole lines again. It rests on lemmas on selecting,
  cutting and parsing sequences, by induction over sets of numbers and of sequences. Then
  each action is a step of `StreamPromise` or a stutter.
* `WebClientProofs`: `WebInv` has two halves. For receipts, the leg of a turn and what is
  on the wire fix what the turn has paid: nothing before the payment is answered, once the
  amount shown after. For sessions, a job can only bring a session that the browser does
  not know of, and one job brings it: so no late answer can bring back what was dropped
  (`DroppedStaysDropped`). A turn begins with the current session and keeps it, so the turns
  that pay by a dropped one only get fewer (`TurnsPayByTheCurrentSession`).
* `DashboardProofs`: every question for figures that is under way is the one the page would
  ask now (`AskedInv`), so no late answer appears under another title. A handler whose
  change was answered finds it at the gateway from then on (`ListInv`), because revocation
  is final, so the list it asks for afterwards shows it.

Only model-checked: `EveryRequestEnds`, `MovedMoneyIsBooked`, `EveryRowIsResolved`,
`NoAuditLostSilently`, `CatalogueConverges`, `ReaderIsAnswered`, `NothingHangs` and
`FeedCatchesUp`. They say that something happens in the end, which takes fairness and
ENABLED, out of the prover's reach.

## Not modelled

Configuration, logging, the discovery routes and operator scripts: no state, or run by
hand. `packages/ens/scripts/deploy.ts` runs once; `aliasAgent` is called by nothing in the
gateway. The translation of requests and answers to vendor formats, the encoding of
names, records and roles, key encryption and markup are data without control. The
@x402 library, the facilitator, Hedera, the ENS contracts and the providers are external
and modelled from how the code uses them.

## What could come next

* A second tab: `localStorage` shared by two session providers.
* A refinement of an abstract session (open, closed, admitted at most so long after) by
  `Sessions`.
* `WebClient` against `Sessions` instead of against its endpoints' answers.
