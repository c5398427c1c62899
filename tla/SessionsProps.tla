----------------------------- MODULE SessionsProps -----------------------------
(***************************************************************************)
(* What the sessions of Sessions promise: to the wallet that closes one, to *)
(* whoever reads its name, and to the owner of a harness credential.        *)
(***************************************************************************)
EXTENDS Sessions

Labels == Running \cup Ended \cup {"new"}
Keepers == HarnessTokens \cup {"wallet"}

SessionsTypeOK ==
    /\ pc \in [Reqs -> Labels]
    /\ target \in [Reqs -> Sessions \cup {Nothing}]
    /\ via \in [Reqs -> Keepers]
    /\ moment \in [Reqs -> Nat]
    /\ created \in 0..MaxSessions
    /\ openedBy \in [Sessions -> Keepers]
    /\ revokedAt \in [Sessions -> Nat \cup {Nothing}]
    /\ exhausted \in SUBSET Sessions
    /\ named \in SUBSET Sessions
    /\ handed \in SUBSET Sessions
    /\ harness \in [HarnessTokens -> {"none", "active", "revoked"}]
    /\ restarts \in 0..MaxRestarts

\* Every variable has its type.
TypeOK == NameTypeOK /\ SessionsTypeOK
-----------------------------------------------------------------------------
(* What it takes to be let in *)

\* r passes requireSession in this step.
Admits(r) == pc[r] # "admitted" /\ pc'[r] = "admitted"

\* Closed long enough ago for every read and every cached answer to know.
LongSince(time, delay) == time # Nothing /\ now - time > delay

\* Burning a named session ends it: whatever reads were under way and whichever
\* of them wrote the cache last, nobody is let in on the registry's word later
\* than one read and one cache lifetime after the burn (session-names.ts:97).
BurnEndsNamedSession ==
    [][\A r \in Reqs : Admits(r) /\ ~ReadFails(r) =>
          ~(/\ target'[r] \in named
            /\ LongSince(burntAt[target'[r]], LIVENESS_TTL_MS + ReadTimeout))]_vars

\* Revocation ends a session for every request but those already waiting for the
\* registry, even when burning the name failed (sessions.ts:217).
RevocationEndsSession ==
    [][\A r \in Reqs : Admits(r) => ~LongSince(revokedAt[target'[r]], ReadTimeout)]_vars

\* The token, the row and the name end together: three comparisons at two
\* precisions let nobody in past expiresAt, though one of them is made after a
\* wait; except that a request whose question to the registry fails is let in on
\* what it saw of the row before it asked, at most one read timeout late
\* (auth/session.ts:24, middleware/session.ts:18-36, packages/ens/sessions.ts:213).
ExpiryEndsSession ==
    [][\A r \in Reqs : Admits(r) =>
          now < expiresAt[target'[r]] + (IF ReadFails(r) THEN ReadTimeout ELSE 0)]_vars
-----------------------------------------------------------------------------
(* What the registry is believed to say *)

\* Somebody asked to end s, and got past requireSession or was told it has ended.
AskedToEnd(s) ==
    \E r \in Reqs : /\ KindOf[r] = "revoke" /\ target[r] = s
                    /\ pc[r] \in {"marking", "answered", "refused"}

\* A cached "gone" is never wrong, unless a revocation was asked for and its
\* transaction reverted; so no caller is locked out of a live session that nobody
\* wanted to end: rows are named only once the registration is mined, and labels
\* are never registered again (sessions.ts:172-187).
GoneIsGone ==
    \A s \in Sessions :
        liveness[s] # Nothing /\ ~liveness[s].live =>
            ~(name[s] = "held" /\ ~Lapsed(s)) \/ AskedToEnd(s)
-----------------------------------------------------------------------------
(* What a harness credential may do *)

\* The sessions a credential opened, and the requests that may open one more.
OpenedWith(h) == {s \in 1..created : openedBy[s] = h}
MayOpen(h) == {r \in Reqs : pc[r] \in {"finding", "creating"} /\ via[r] = h}

\* Revoking a credential ends it: only requests that were past the lookup can
\* still open a session with its caps (harness/handler.ts:180).
RevokedHarnessWindsDown ==
    [][\A h \in HarnessTokens : harness[h] = "revoked" =>
          Cardinality(OpenedWith(h)') + Cardinality(MayOpen(h)')
              <= Cardinality(OpenedWith(h)) + Cardinality(MayOpen(h))]_vars
-----------------------------------------------------------------------------
(* Why the properties above hold: the inductive invariant *)

\* Registration is over, whether it succeeded or reverted.
Settled(s) == name[s] # "sent"

\* Where a request stands fixes what is true of the session it is about.
ReqInv(r) ==
    /\ pc[r] = "new" => via[r] = "wallet"
    /\ pc[r] \in Opening \cup Waiting \cup {"forwarding", "admitted", "burning", "burnt", "marking"}
          => target[r] \in 1..created
    /\ pc[r] \in {"finding", "forwarding"} => KindOf[r] = "harness"
    /\ pc[r] \in Opening \cup {"creating"} => KindOf[r] \in {"open", "harness"}
    /\ pc[r] \in {"registering", "mining", "recording", "naming"} => target[r] \notin named
    /\ pc[r] = "registering" => name[target[r]] = "none"
    /\ pc[r] \in {"recording", "naming"} => Settled(target[r])
    /\ pc[r] \in {"burning", "burnt"} =>
          KindOf[r] = "revoke" /\ name[target[r]] \in {"held", "burnt"}

\* What a request waiting for the registry may find when it wakes up.
WaitInv(r) ==
    pc[r] \in Waiting =>
        /\ target[r] \in named
        /\ moment[r] <= now /\ now <= moment[r] + ReadTimeout
        /\ moment[r] < expiresAt[target[r]]
        /\ revokedAt[target[r]] # Nothing => moment[r] <= revokedAt[target[r]]
        /\ pc[r] = "readHeld" /\ burntAt[target[r]] # Nothing
              => moment[r] <= burntAt[target[r]]
        /\ pc[r] = "readGone" => ~(name[target[r]] = "held" /\ ~Lapsed(target[r]))

\* The row, the name and the cached answer of a session agree.
SessionInv(s) ==
    /\ s > created => name[s] = "none" /\ s \notin named \cup handed
    /\ s \in named => Settled(s)
    /\ name[s] = "burnt" <=> burntAt[s] # Nothing
    /\ burntAt[s] # Nothing => burntAt[s] <= now
    /\ liveness[s] # Nothing => liveness[s].at <= now
    /\ liveness[s] # Nothing => s \in named \/ name[s] \in {"held", "burnt"}
    /\ liveness[s] # Nothing /\ liveness[s].live /\ burntAt[s] # Nothing
          => liveness[s].at <= burntAt[s] + ReadTimeout
    /\ liveness[s] # Nothing /\ ~liveness[s].live
          => ~(name[s] = "held" /\ ~Lapsed(s)) \/ AskedToEnd(s)

OneOpenerPerSession ==
    \A q, r \in Reqs :
        pc[q] \in Opening /\ pc[r] \in Opening /\ target[q] = target[r] => q = r

IInv ==
    /\ TypeOK
    /\ \A r \in Reqs : ReqInv(r) /\ WaitInv(r)
    /\ \A s \in Sessions : SessionInv(s)
    /\ OneOpenerPerSession
-----------------------------------------------------------------------------
(* What the documentation says and the code does not do *)

\* handler.ts: "Reuse a live session for the harness".
HarnessReusesLiveSession ==
    [][\A r \in Reqs : pc[r] = "finding" /\ pc'[r] = "forwarding" =>
          ~LongSince(burntAt[target'[r]], LIVENESS_TTL_MS + ReadTimeout)]_vars

\* packages/ens/src/sessions.ts:72: "The caps are written as records in the same
\* transaction batch.  They are published and auditable": a session that shows a
\* name has its terms published under it.
NamedSessionIsPublished == named \subseteq published
===============================================================================
