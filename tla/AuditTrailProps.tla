---------------------------- MODULE AuditTrailProps ----------------------------
(***************************************************************************)
(* What a reader of the audit topic, and of the payment rows, may rely on. *)
(***************************************************************************)
EXTENDS AuditTrail, PaidCallsProps

Messages == [call : Calls, amount : Prices, request : Procs \cup {Nothing}]

\* The types of the trail's variables.
TrailTypeOK ==
    /\ onWay \in SUBSET Messages
    /\ topic \in Seq(Messages)
    /\ waiting \in SUBSET Calls
    /\ auditAt \in [Calls -> Nat]
    /\ logged \in SUBSET Calls

\* A message, on its way or published, tells of a payment the ledger has, with
\* its amount; the request it names is the one the payment points to, even
\* where the payment is pointed to a request only later (ledger.ts:113-166).
Truthful(m) ==
    /\ payment[m.call] # Nothing
    /\ m.amount = payment[m.call].amount
    /\ m.request \in {Nothing, payment[m.call].request}

TopicAgreesWithLedger ==
    /\ \A m \in onWay : Truthful(m)
    /\ \A i \in DOMAIN topic : Truthful(topic[i])

\* However submissions overtake each other, fail half-way or are cut off by a
\* restart, a payment is on the topic at most once, and the sequence number in
\* its row is that of its own record (ledger.ts:151-160).
AuditPointsAtOwnRecord ==
    /\ \A i, j \in DOMAIN topic : topic[i].call = topic[j].call => i = j
    /\ \A c \in Calls : auditAt[c] # 0 =>
          auditAt[c] \in DOMAIN topic /\ topic[auditAt[c]].call = c

\* A payment has one message, on its way or published; one that names a
\* request is of a completion, whose payment is never pointed elsewhere.
Fixed(m) == m.request # Nothing => KindOf[m.call] = "completion"

TrailInv ==
    /\ TrailTypeOK
    /\ TopicAgreesWithLedger
    /\ AuditPointsAtOwnRecord
    /\ \A m \in onWay : Fixed(m)
    /\ \A i \in DOMAIN topic : Fixed(topic[i])
    /\ \A m, n \in onWay : m.call = n.call => m = n
    /\ \A m \in onWay, i \in DOMAIN topic : topic[i].call # m.call

\* A payment whose id the context got is audited, or the failure is in the log;
\* only a restart loses it without a trace (hcs.ts:107-120).
NoAuditLostSilently ==
    \A c \in Calls : c \in booked ~> auditAt[c] # 0 \/ c \in logged \/ restarts > 0
===============================================================================
