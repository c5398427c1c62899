-------------------------------- MODULE Sessions --------------------------------
(***************************************************************************)
(* Sessions of one account: opening them (routes/sessions.ts, and           *)
(* harness/handler.ts on a harness's behalf), registering and burning their *)
(* names, and the check every authenticated request passes                  *)
(* (middleware/session.ts).  One process per HTTP request; every await is a *)
(* point where another process may run.                                    *)
(*                                                                         *)
(* The database and the registry survive a restart, the liveness cache and  *)
(* the requests being served do not.                                       *)
(***************************************************************************)
EXTENDS SessionNames

CONSTANTS
    Reqs,
    KindOf,          \* "open", "call", "revoke" or "harness"
    HarnessTokens,   \* credentials of external harnesses
    Expiries,        \* the moments wallets ask their sessions to end at
    ClockSkew,       \* clockSkewMs
    MaxAhead,        \* maxAheadMs
    HarnessTTL,      \* HarnessToken.ttlHours
    MaxRestarts,     \* bound: restarts of the gateway
    Faults           \* subset of {"db", "chain", "read"}: what may throw, or revert

ASSUME ReqsAssumption ==
    /\ IsFiniteSet(Reqs)
    /\ KindOf \in [Reqs -> {"open", "call", "revoke", "harness"}]
    /\ "wallet" \notin HarnessTokens
    /\ Expiries \subseteq Nat
    /\ ClockSkew \in Nat
    /\ MaxAhead \in Nat
    /\ HarnessTTL \in Nat
    /\ MaxRestarts \in Nat
    /\ Faults \subseteq {"db", "chain", "read"}

VARIABLES
    pc,          \* where each request is
    target,      \* the session a request opens or presents
    via,         \* who opens it: "wallet", or the harness token of the URL
    moment,      \* the expiresAt it is to be created with; when the registry was asked
    created,     \* rows of Session; their ids are 1..created
    openedBy,    \* the caps of which credential the row carries
    revokedAt,   \* Session.revokedAt
    exhausted,   \* sessions with spentAtomic >= spendCapAtomic
    named,       \* sessions with ensName set
    handed,      \* sessions whose token a client was handed
    harness,     \* HarnessToken: "none", "active" or "revoked"
    restarts

reqVars == <<pc, target, via, moment>>
rowVars == <<created, openedBy, revokedAt, exhausted, named>>
vars == <<nameVars, reqVars, rowVars, handed, harness, restarts>>

Opening == {"registering", "mining", "recording", "naming", "issuing"}
Waiting == {"reading", "readHeld", "readGone"}
Running == Opening \cup Waiting
              \cup {"creating", "finding", "forwarding", "admitted",
                    "burning", "burnt", "marking"}
Ended == {"refused", "answered"}   \* refused: by an answer, or by none at all

Goto(r, label) == pc' = [pc EXCEPT ![r] = label]

Init ==
    /\ NameInit
    /\ pc = [r \in Reqs |-> "new"]
    /\ target = [r \in Reqs |-> Nothing]
    /\ via = [r \in Reqs |-> "wallet"]
    /\ moment = [r \in Reqs |-> 0]
    /\ created = 0
    /\ openedBy = [s \in Sessions |-> "wallet"]
    /\ revokedAt = [s \in Sessions |-> Nothing]
    /\ exhausted = {}
    /\ named = {}
    /\ handed = {}
    /\ harness = [h \in HarnessTokens |-> "none"]
    /\ restarts = 0
-----------------------------------------------------------------------------
(* Opening a session: routes/sessions.ts, harness/handler.ts *)

\* POST /v1/sessions: the body, its clock and caps, the wallet's signature and
\* the account row; each may refuse the request.
VerifyWallet(r) ==
    /\ pc[r] = "new" /\ KindOf[r] = "open"
    /\ \/ \E t \in Expiries :
             /\ t >= now - ClockSkew
             /\ t <= now + MaxAhead
             /\ moment' = [moment EXCEPT ![r] = t]
             /\ Goto(r, "creating")
       \/ Goto(r, "refused") /\ UNCHANGED moment
    /\ UNCHANGED <<nameVars, target, via, rowVars, handed, harness, restarts>>

\* Mutant: revocation of the credential is not looked at.
HarnessKnown(h) == harness[h] # "none"
HarnessActive(h) == harness[h] = "active"

\* harnessHandler: the token of the URL is looked up, and its use is recorded.
FindHarness(r, h) ==
    /\ pc[r] = "new" /\ KindOf[r] = "harness"
    /\ \/ HarnessActive(h) /\ Goto(r, "finding")
       \/ (~HarnessActive(h) \/ "db" \in Faults) /\ Goto(r, "refused")
    /\ via' = [via EXCEPT ![r] = h]
    /\ UNCHANGED <<nameVars, target, moment, rowVars, handed, harness, restarts>>

\* ensureSession looks only at the newest session that is neither revoked nor
\* expired, whoever opened it, and reuses it unless it is exhausted.
Current == {s \in 1..created : revokedAt[s] = Nothing /\ expiresAt[s] > now}
Newest(s) == s \in Current /\ \A t \in Current : t <= s

EnsureSession(r) ==
    /\ pc[r] = "finding"
    /\ \/ \E s \in Sessions : /\ Newest(s)
                              /\ s \notin exhausted
                              /\ target' = [target EXCEPT ![r] = s]
                              /\ Goto(r, "forwarding")
       \/ /\ \A s \in Sessions : Newest(s) => s \in exhausted
          /\ Goto(r, "creating")
          /\ UNCHANGED target
    /\ moment' = [moment EXCEPT ![r] = now + HarnessTTL]
    /\ UNCHANGED <<nameVars, via, rowVars, handed, harness, restarts>>

\* Mutant: the row is created with its name already filled in.
NamedFromTheStart(s) == named \cup {s}
NamedAtCreation(s) == named

InsertRow(r, s) ==
    /\ s = created + 1
    /\ created' = s
    /\ expiresAt' = [expiresAt EXCEPT ![s] = moment[r]]
    /\ openedBy' = [openedBy EXCEPT ![s] = via[r]]
    /\ named' = NamedAtCreation(s)
    /\ UNCHANGED <<revokedAt, exhausted>>

CreateSession(r, s) ==
    /\ pc[r] = "creating"
    /\ InsertRow(r, s)
    /\ target' = [target EXCEPT ![r] = s]
    /\ Goto(r, "registering")
    /\ UNCHANGED <<now, name, burntAt, published, liveness, via, moment,
                   handed, harness, restarts>>

\* The insert threw, with or without having committed.
CreateSessionFails(r) ==
    /\ pc[r] = "creating"
    /\ "db" \in Faults
    /\ UNCHANGED <<rowVars, expiresAt>> \/ \E s \in Sessions : InsertRow(r, s)
    /\ Goto(r, "refused")
    /\ UNCHANGED <<now, name, burntAt, published, liveness, target, via, moment,
                   handed, harness, restarts>>

\* openSessionName sends the registration; gas estimation rejects a past expiry.
SendRegister(r) ==
    /\ pc[r] = "registering"
    /\ ~Lapsed(target[r])
    /\ name' = [name EXCEPT ![target[r]] = "sent"]
    /\ Goto(r, "mining")
    /\ UNCHANGED <<now, expiresAt, burntAt, published, liveness, target, via, moment,
                   rowVars, handed, harness, restarts>>

RegisterReceipt(r) ==
    /\ pc[r] = "mining"
    /\ name[target[r]] # "sent"
    /\ Goto(r, "recording")
    /\ UNCHANGED <<nameVars, target, via, moment, rowVars, handed, harness, restarts>>

Publish(s) == published' = published \cup {s}

\* The text records are a second transaction; whether it succeeded or reverted
\* is not asked either.
RecordsReceipt(r) ==
    /\ pc[r] = "recording"
    /\ Publish(target[r]) \/ ("chain" \in Faults /\ UNCHANGED published)
    /\ Goto(r, "naming")
    /\ UNCHANGED <<now, expiresAt, name, burntAt, liveness, target, via, moment,
                   rowVars, handed, harness, restarts>>

\* registerSessionName swallows whatever throws, sent or not, and the session goes
\* on without a name.  Without ENS configured, or past the expiry, it never has one.
RegisterThrows(r) ==
    /\ pc[r] \in {"registering", "mining", "recording"}
    /\ "chain" \in Faults \/ (pc[r] = "registering" /\ Lapsed(target[r]))
    /\ Goto(r, "issuing")
    /\ \/ UNCHANGED <<name, published>>
       \/ /\ pc[r] = "registering" /\ ~Lapsed(target[r])
          /\ name' = [name EXCEPT ![target[r]] = "sent"]
          /\ UNCHANGED published
       \/ /\ pc[r] = "recording"
          /\ Publish(target[r])
          /\ UNCHANGED name
    /\ UNCHANGED <<now, expiresAt, burntAt, liveness, target, via, moment,
                   rowVars, handed, harness, restarts>>

NameSession(r) ==
    /\ pc[r] = "naming"
    /\ named' = named \cup {target[r]}
    /\ Goto(r, "issuing")
    /\ UNCHANGED <<nameVars, target, via, moment, created, openedBy, revokedAt,
                   exhausted, handed, harness, restarts>>

NameSessionFails(r) ==
    /\ pc[r] = "naming"
    /\ "db" \in Faults
    /\ UNCHANGED named \/ named' = named \cup {target[r]}
    /\ Goto(r, "refused")
    /\ UNCHANGED <<nameVars, target, via, moment, created, openedBy, revokedAt,
                   exhausted, handed, harness, restarts>>

\* The wallet gets its token; a harness's stays inside the gateway.
IssueToken(r) ==
    /\ pc[r] = "issuing"
    /\ \/ /\ KindOf[r] = "open"
          /\ handed' = handed \cup {target[r]}
          /\ Goto(r, "answered")
       \/ KindOf[r] = "harness" /\ Goto(r, "forwarding") /\ UNCHANGED handed
    /\ UNCHANGED <<nameVars, target, via, moment, rowVars, harness, restarts>>
-----------------------------------------------------------------------------
(* requireSession: middleware/session.ts, isSessionNameLive *)

\* A client presents a token it was handed, a harness request the one just issued.
Presents(r, s) ==
    \/ pc[r] = "new" /\ KindOf[r] \in {"call", "revoke"} /\ s \in handed
    \/ pc[r] = "forwarding" /\ s = target[r]

\* Mutant: revokedAt is not looked at.
RowOpenWithoutRevocation(s) == expiresAt[s] > now /\ s \notin exhausted
RowOpen(s) == revokedAt[s] = Nothing /\ expiresAt[s] > now /\ s \notin exhausted

\* The token and the row are checked; the cached answer about the name is used,
\* or the registry is asked.  (A read of the row that throws refuses as well.)
LoadSession(r, s) ==
    /\ Presents(r, s)
    /\ \/ ~(~Lapsed(s) /\ RowOpen(s)) /\ Goto(r, "refused") /\ UNCHANGED moment
       \/ /\ ~Lapsed(s) /\ RowOpen(s)
          /\ \/ s \notin named /\ Goto(r, "admitted") /\ UNCHANGED moment
             \/ /\ s \in named /\ Cached(s)
                /\ Goto(r, IF liveness[s].live THEN "admitted" ELSE "refused")
                /\ UNCHANGED moment
             \/ /\ s \in named /\ ~Cached(s)
                /\ Goto(r, "reading")
                /\ moment' = [moment EXCEPT ![r] = now]
    /\ target' = [target EXCEPT ![r] = s]
    /\ UNCHANGED <<nameVars, via, rowVars, handed, harness, restarts>>

\* External: the registry evaluates getState.
ReadState(r) ==
    /\ pc[r] = "reading"
    /\ Goto(r, IF name[target[r]] = "held" THEN "readHeld" ELSE "readGone")
    /\ UNCHANGED <<nameVars, target, via, moment, rowVars, handed, harness, restarts>>

StillLive(r) == pc[r] = "readHeld" /\ ~Lapsed(target[r])

\* The answer arrives, is cached whatever the cache has learnt since, and decides.
NameRead(r) ==
    /\ pc[r] \in {"readHeld", "readGone"}
    /\ Remember(target[r], StillLive(r))
    /\ Goto(r, IF StillLive(r) THEN "admitted" ELSE "refused")
    /\ UNCHANGED <<now, expiresAt, name, burntAt, published, target, via, moment,
                   rowVars, handed, harness, restarts>>

\* ENS has no answer: null, the row stands on its own.
ReadFails(r) ==
    /\ pc[r] \in Waiting
    /\ "read" \in Faults
    /\ Goto(r, "admitted")
    /\ UNCHANGED <<nameVars, target, via, moment, rowVars, handed, harness, restarts>>
-----------------------------------------------------------------------------
(* What an admitted request does *)

\* Anything else behind requireSession.  A paid call may exhaust the session.
Serve(r) ==
    /\ pc[r] = "admitted" /\ KindOf[r] # "revoke"
    /\ UNCHANGED exhausted \/ exhausted' = exhausted \cup {target[r]}
    /\ Goto(r, "answered")
    /\ UNCHANGED <<nameVars, target, via, moment, created, openedBy, revokedAt,
                   named, handed, harness, restarts>>

\* POST /v1/harness/tokens and .../:id/revoke.  An update that throws may have
\* committed; the client cannot tell.
SetHarness(r, h) ==
    /\ pc[r] = "admitted" /\ KindOf[r] = "call"
    /\ harness' = [harness EXCEPT ![h] = IF @ = "none" THEN "active" ELSE "revoked"]
    /\ \/ Goto(r, "answered")
       \/ "db" \in Faults /\ Goto(r, "refused")
    /\ UNCHANGED <<nameVars, target, via, moment, rowVars, handed, restarts>>

\* POST /v1/sessions/current/revoke burns the name first.  A name that is not in
\* the registry cannot be burnt: gas estimation rejects it.
SendBurn(r) ==
    /\ pc[r] = "admitted" /\ KindOf[r] = "revoke"
    /\ name[target[r]] = "held" /\ ~Lapsed(target[r])
    /\ Goto(r, "burning")
    /\ UNCHANGED <<nameVars, target, via, moment, rowVars, handed, harness, restarts>>

\* External: the transaction is mined; it reverts if the name ended meanwhile.
BurnMined(r) ==
    /\ pc[r] = "burning"
    /\ \/ Unregistered(target[r])
       \/ /\ name[target[r]] # "held" \/ Lapsed(target[r]) \/ "chain" \in Faults
          /\ UNCHANGED <<name, burntAt>>
    /\ Goto(r, "burnt")
    /\ UNCHANGED <<now, expiresAt, published, liveness, target, via, moment, rowVars,
                   handed, harness, restarts>>

\* Either way there is a receipt, and the cache is told that the name is gone.
BurnReceipt(r) ==
    /\ pc[r] = "burnt"
    /\ Remember(target[r], FALSE)
    /\ Goto(r, "marking")
    /\ UNCHANGED <<now, expiresAt, name, burntAt, published, target, via, moment, rowVars,
                   handed, harness, restarts>>

\* What throws is logged, and the cache not told.
BurnThrows(r) ==
    /\ \/ /\ pc[r] = "admitted" /\ KindOf[r] = "revoke"
          /\ name[target[r]] # "held" \/ Lapsed(target[r]) \/ "chain" \in Faults
       \/ pc[r] \in {"burning", "burnt"} /\ "chain" \in Faults
    /\ Goto(r, "marking")
    /\ UNCHANGED <<nameVars, target, via, moment, rowVars, handed, harness, restarts>>

SetRevokedAt(s) == revokedAt' = [revokedAt EXCEPT ![s] = now]

MarkRevoked(r) ==
    /\ pc[r] = "marking"
    /\ SetRevokedAt(target[r])
    /\ Goto(r, "answered")
    /\ UNCHANGED <<nameVars, target, via, moment, created, openedBy, exhausted,
                   named, handed, harness, restarts>>

MarkRevokedFails(r) ==
    /\ pc[r] = "marking"
    /\ "db" \in Faults
    /\ UNCHANGED revokedAt \/ SetRevokedAt(target[r])
    /\ Goto(r, "refused")
    /\ UNCHANGED <<nameVars, target, via, moment, created, openedBy, exhausted,
                   named, handed, harness, restarts>>
-----------------------------------------------------------------------------
(* The environment *)

NameChanges(s) ==
    /\ \/ RegisterMined(s, FALSE)
       \/ "chain" \in Faults /\ RegisterMined(s, TRUE)
       \/ OwnerUnregisters(s)
    /\ UNCHANGED <<reqVars, rowVars, handed, harness, restarts>>

\* No read outlives its timeout.
Tick ==
    /\ now < MaxTime
    /\ \A r \in Reqs : pc[r] \in Waiting => now - moment[r] < ReadTimeout
    /\ now' = now + 1
    /\ UNCHANGED <<expiresAt, name, burntAt, published, liveness, reqVars, rowVars,
                   handed, harness, restarts>>

Restart ==
    /\ restarts < MaxRestarts
    /\ restarts' = restarts + 1
    /\ NameRestart
    /\ pc' = [r \in Reqs |-> IF pc[r] \in Running THEN "refused" ELSE pc[r]]
    /\ UNCHANGED <<target, via, moment, rowVars, handed, harness>>

ReqStep(r) ==
    \/ VerifyWallet(r)
    \/ EnsureSession(r) \/ CreateSessionFails(r)
    \/ SendRegister(r) \/ RegisterReceipt(r) \/ RecordsReceipt(r) \/ RegisterThrows(r)
    \/ NameSession(r) \/ NameSessionFails(r) \/ IssueToken(r)
    \/ ReadState(r) \/ NameRead(r) \/ ReadFails(r)
    \/ Serve(r)
    \/ SendBurn(r) \/ BurnMined(r) \/ BurnReceipt(r) \/ BurnThrows(r)
    \/ MarkRevoked(r) \/ MarkRevokedFails(r)
    \/ \E s \in Sessions : CreateSession(r, s) \/ LoadSession(r, s)
    \/ \E h \in HarnessTokens : FindHarness(r, h) \/ SetHarness(r, h)

Next ==
    \/ \E r \in Reqs : ReqStep(r)
    \/ \E s \in Sessions : NameChanges(s)
    \/ Tick
    \/ Restart

Spec == Init /\ [][Next]_vars
===============================================================================
