------------------------------ MODULE SessionNames ------------------------------
(***************************************************************************)
(* The on-chain half of a session: its name in the ENS session registry     *)
(* (packages/ens/src/sessions.ts), the gateway's cached opinion of it       *)
(* (session-names.ts) and the clock both are read against.                  *)
(*                                                                         *)
(* A tick is a fraction of a second: the database compares moments, the     *)
(* registry and the session token compare whole seconds.                   *)
(***************************************************************************)
EXTENDS Integers, FiniteSets

CONSTANTS
    Nothing,
    MaxSessions,        \* bound: rows of Session ever created
    Second,             \* ticks in a second
    LIVENESS_TTL_MS,    \* ticks a cached answer is used
    ReadTimeout,        \* ticks within which an RPC read answers or fails
    MaxTime             \* bound: the clock stops here

ASSUME ClockAssumption ==
    /\ MaxSessions \in Nat
    /\ Second \in Nat \ {0}
    /\ LIVENESS_TTL_MS \in Nat \ {0}
    /\ ReadTimeout \in Nat
    /\ MaxTime \in Nat

\* Session ids, in the order of createdAt.
Sessions == 1..MaxSessions

Answer == [live : BOOLEAN, at : Nat]

ASSUME AnswerAssumption == Nothing \notin Answer \cup BOOLEAN \cup Nat

VARIABLES
    now,
    expiresAt,   \* Session.expiresAt, also what the name is registered with
    name,        \* what the registry knows of the session's label
    burntAt,     \* when the name was unregistered, if it was
    published,   \* sessions whose terms are text records of their name
    liveness     \* the Map `liveness`

nameVars == <<now, expiresAt, name, burntAt, published, liveness>>

NameInit ==
    /\ now = 0
    /\ expiresAt = [s \in Sessions |-> 0]
    /\ name = [s \in Sessions |-> "none"]
    /\ burntAt = [s \in Sessions |-> Nothing]
    /\ published = {}
    /\ liveness = [s \in Sessions |-> Nothing]

NameTypeOK ==
    /\ now \in 0..MaxTime
    /\ expiresAt \in [Sessions -> Nat]
    /\ name \in [Sessions -> {"none", "sent", "held", "burnt"}]
    /\ burntAt \in [Sessions -> Nat \cup {Nothing}]
    /\ published \in SUBSET Sessions
    /\ liveness \in [Sessions -> Answer \cup {Nothing}]

\* Mutant: the expiry is rounded up to a whole second.
ExpiryRoundedUp(s) == (expiresAt[s] + Second - 1) \div Second
\* The second the name, and the token, are given to end in: rounded down.
Expiry(s) == expiresAt[s] \div Second
Lapsed(s) == Expiry(s) <= now \div Second

\* Mutant: an answer is trusted for as long as it says the name is live.
LiveForEver(s) ==
    /\ liveness[s] # Nothing
    /\ liveness[s].live \/ now - liveness[s].at < LIVENESS_TTL_MS
Cached(s) == liveness[s] # Nothing /\ now - liveness[s].at < LIVENESS_TTL_MS

Remember(s, live) == liveness' = [liveness EXCEPT ![s] = [live |-> live, at |-> now]]

\* External: a pending registration is mined.  It reverts past its expiry, or
\* for a reason of its own (a role was taken back, the gas ran out);
\* waitForTransactionReceipt reports that like a success.
RegisterMined(s, reverts) ==
    /\ name[s] = "sent"
    /\ name' = [name EXCEPT ![s] = IF reverts \/ Lapsed(s) THEN "none" ELSE "held"]
    /\ UNCHANGED <<now, expiresAt, burntAt, published, liveness>>

\* External: the label is unregistered.
Unregistered(s) ==
    /\ name[s] = "held"
    /\ name' = [name EXCEPT ![s] = "burnt"]
    /\ burntAt' = [burntAt EXCEPT ![s] = now]

\* The owner burns the name from a wallet, or a burn the gateway gave up on lands.
OwnerUnregisters(s) ==
    /\ Unregistered(s)
    /\ UNCHANGED <<now, expiresAt, published, liveness>>

\* The gateway restarts: its Map is empty again.
NameRestart ==
    /\ liveness' = [s \in Sessions |-> Nothing]
    /\ UNCHANGED <<now, expiresAt, name, burntAt, published>>
===============================================================================
