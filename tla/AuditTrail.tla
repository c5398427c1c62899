------------------------------ MODULE AuditTrail -------------------------------
(***************************************************************************)
(* The Hedera Consensus Service audit trail (audit/hcs.ts) on top of the    *)
(* paid pipeline: recordSettlement publishes each payment it wrote, in the  *)
(* background, and a callback notes in the payment row where on the topic   *)
(* its record is.                                                          *)
(***************************************************************************)
EXTENDS PaidCalls

CONSTANT AuditFaults    \* bound: submissions and callbacks that may fail
ASSUME AuditAssumption == AuditFaults \in Nat

VARIABLES
    onWay,      \* messages handed to Hedera that have not reached consensus
    topic,      \* the topic: messages in consensus order
    waiting,    \* calls whose submitAudit promise is pending in the gateway
    auditAt,    \* hcsSequenceNumber of a payment row, 0 for null
    logged      \* calls whose audit failure was logged

trailVars == <<onWay, topic, waiting, auditAt, logged>>
auditVars == <<vars, trailVars>>

AuditInit ==
    /\ Init
    /\ onWay = {}
    /\ topic = <<>>
    /\ waiting = {}
    /\ auditAt = [c \in Calls |-> 0]
    /\ logged = {}

\* Mutant: a record names the call itself where its request is not open yet.
MessageNamingItself(c) == [call |-> c, amount |-> required[c], request |-> c]
\* The AuditRecord: what of the context is known when the payment is recorded.
Message(c) == [call |-> c, amount |-> required[c], request |-> RequestOf(c)]

\* A step of the pipeline.  The calls it books are handed to Hedera at once;
\* a restart drops the promises, and what had not left the process yet.
PipelineStep ==
    /\ Next
    /\ \/ /\ restarts' = restarts
          /\ onWay' = onWay \cup {Message(c) : c \in booked' \ booked}
          /\ waiting' = waiting \cup (booked' \ booked)
       \/ /\ restarts' # restarts
          /\ onWay' \in SUBSET onWay
          /\ waiting' = {}
    /\ UNCHANGED <<topic, auditAt, logged>>

\* External: the topic takes a message, in an order that is Hedera's.
Consensus(m) ==
    /\ m \in onWay
    /\ onWay' = onWay \ {m}
    /\ topic' = Append(topic, m)
    /\ UNCHANGED <<vars, waiting, auditAt, logged>>

\* Mutant: the payment row gets the topic's latest sequence number.
Latest(c, i) == Len(topic)
\* topicSequenceNumber of the receipt.
Receipt(c, i) == i

\* The receipt arrived and the callback's update committed.
NoteReceipt(c) ==
    /\ c \in waiting
    /\ \E i \in DOMAIN topic :
          /\ topic[i].call = c
          /\ auditAt' = [auditAt EXCEPT ![c] = Receipt(c, i)]
    /\ waiting' = waiting \ {c}
    /\ UNCHANGED <<vars, onWay, topic, logged>>

\* Mutant: the rejected promise is not caught.
LogFailureNever(c) == UNCHANGED logged
LogFailure(c) == logged' = logged \cup {c}

\* Submission, receipt or callback threw: before the message was handed over,
\* or after, or when it had reached the topic, or the update had committed.
AuditFails(c) ==
    /\ c \in waiting
    /\ Cardinality(logged) < AuditFaults
    /\ \/ onWay' = {m \in onWay : m.call # c} /\ UNCHANGED auditAt
       \/ UNCHANGED <<onWay, auditAt>>
       \/ /\ \E i \in DOMAIN topic :
                topic[i].call = c /\ auditAt' = [auditAt EXCEPT ![c] = Receipt(c, i)]
          /\ UNCHANGED onWay
    /\ waiting' = waiting \ {c}
    /\ LogFailure(c)
    /\ UNCHANGED <<vars, topic>>

AuditNext ==
    \/ PipelineStep
    \/ \E m \in onWay : Consensus(m)
    \/ \E c \in Calls : NoteReceipt(c) \/ AuditFails(c)

AuditSpec == AuditInit /\ [][AuditNext]_auditVars

\* Hedera reaches consensus on what it was handed, and the promise settles.
AuditFairness ==
    /\ \A c \in Calls : WF_auditVars(NoteReceipt(c) \/ AuditFails(c))
    /\ WF_auditVars(\E m \in onWay : Consensus(m))

AuditFairSpec == AuditSpec /\ GatewayFairness /\ AuditFairness
===============================================================================
