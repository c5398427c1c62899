----------------------------- MODULE SessionsProofs -----------------------------
(***************************************************************************)
(* The sessions of Sessions for any number of requests, sessions and        *)
(* harness credentials, any precision of the clocks, whatever throws.       *)
(***************************************************************************)
EXTENDS SessionsProps, FiniteSetTheorems, TLAPS

\* Whole seconds follow the moments they are cut from: the arithmetic behind every
\* comparison of the registry and of the token.
LEMMA DivMonotone ==
    ASSUME NEW a \in Nat, NEW b \in Nat, NEW d \in Nat \ {0}, a <= b
    PROVE  a \div d <= b \div d
BY SMTT(60)

\* A name or token that has lapsed stays lapsed: the clock only goes forward and no
\* session's end is ever moved.
LEMMA LapsedStays ==
    ASSUME NEW s \in Sessions, Lapsed(s), TypeOK, TypeOK', now <= now',
           expiresAt'[s] = expiresAt[s]
    PROVE  Lapsed(s)'
<1>0. now \in Nat /\ now' \in Nat /\ Second \in Nat \ {0} /\ expiresAt[s] \in Nat
  BY ClockAssumption DEF TypeOK, NameTypeOK
<1>1. now \div Second <= now' \div Second
  BY <1>0, DivMonotone
<1>2. now \div Second \in Int /\ now' \div Second \in Int /\ expiresAt[s] \div Second \in Int
  BY <1>0
<1> DEFINE a == now \div Second
           b == now' \div Second
           e == expiresAt[s] \div Second
<1>3. e <= a /\ a <= b /\ a \in Int /\ b \in Int /\ e \in Int
  BY <1>1, <1>2 DEF Lapsed, Expiry
<1>4. Lapsed(s)' <=> e <= b
  BY DEF Lapsed, Expiry
<1> HIDE DEF a, b, e
<1> QED
  BY <1>3, <1>4

\* Rounding down never favours the caller: what has not lapsed has not ended.
LEMMA UnlapsedIsOpen ==
    ASSUME NEW s \in Sessions, ~Lapsed(s), TypeOK
    PROVE  now < expiresAt[s]
<1>1. SUFFICES ASSUME expiresAt[s] <= now PROVE FALSE
  BY DEF TypeOK, NameTypeOK
<1>2. expiresAt[s] \div Second <= now \div Second
  <2>1. expiresAt[s] \in Nat /\ now \in Nat /\ Second \in Nat \ {0}
    BY ClockAssumption DEF TypeOK, NameTypeOK
  <2> QED
    BY <1>1, <2>1, DivMonotone
<1> QED
  BY <1>2 DEF Lapsed, Expiry

\* A request goes on waiting as it did while its session's name, row and moments stand.
LEMMA StillWaits ==
    ASSUME NEW q \in Reqs, WaitInv(q), UNCHANGED <<pc[q], target[q], moment[q], now>>,
           pc[q] \in Waiting =>
              /\ target[q] \in named => target[q] \in named'
              /\ UNCHANGED <<name[target[q]], expiresAt[target[q]], burntAt[target[q]]>>
              /\ revokedAt'[target[q]] \in {revokedAt[target[q]], now}
    PROVE  WaitInv(q)'
BY DEF WaitInv, Waiting, Lapsed, Expiry

\* A request stands where it stood while the name and row it is about do.
LEMMA StillStands ==
    ASSUME NEW q \in Reqs, ReqInv(q), UNCHANGED <<pc[q], target[q], via[q]>>,
           created \in Nat, created' \in Nat, created <= created',
           pc[q] \in Opening =>
              /\ target[q] \in named' => target[q] \in named
              /\ UNCHANGED name[target[q]],
           pc[q] \in {"burning", "burnt"} => name'[target[q]] \in {name[target[q]], "burnt"}
    PROVE  ReqInv(q)'
BY DEF ReqInv, Opening, Settled

\* Who asked for the end of a session has asked for it, whatever one request does.
LEMMA AskedStays ==
    ASSUME NEW r \in Reqs,
           \A q \in Reqs : q # r => UNCHANGED <<pc[q], target[q], via[q], moment[q]>>,
           pc[r] \in {"marking", "answered", "refused"} =>
              pc'[r] \in {"answered", "refused"} /\ target'[r] = target[r]
    PROVE  \A s \in Sessions : AskedToEnd(s) => AskedToEnd(s)'
BY DEF AskedToEnd

\* What writing the cache leaves in it.
LEMMA Remembered ==
    ASSUME NEW s \in Sessions, NEW b \in BOOLEAN, NameTypeOK, Remember(s, b)
    PROVE  /\ liveness' \in [Sessions -> Answer \cup {Nothing}]
           /\ liveness'[s] # Nothing /\ liveness'[s].live = b /\ liveness'[s].at = now
           /\ \A t \in Sessions : t # s => liveness'[t] = liveness[t]
<1>1. now \in Nat
  BY ClockAssumption DEF NameTypeOK
<1>2. [live |-> b, at |-> now] \in Answer
  BY <1>1 DEF Answer
<1> QED
  BY <1>2, AnswerAssumption DEF NameTypeOK, Remember

\* What a request does to the session it opens, or to the moment of a revocation, is
\* not noticed by the others: nobody else is opening that session, and those who wait
\* for an answer wait on sessions whose registration is over.
LEMMA OthersStand ==
    ASSUME IInv, NEW r \in Reqs,
           \A q \in Reqs : q # r => UNCHANGED <<pc[q], target[q], via[q], moment[q]>>,
           UNCHANGED <<now, burntAt>>,
           created' \in Nat, created <= created', named \subseteq named',
           \A t \in 1..created :
              /\ expiresAt'[t] = expiresAt[t]
              /\ revokedAt'[t] \in {revokedAt[t], now}
              /\ name'[t] # name[t] => name[t] = "none" /\ t \notin named
              /\ name'[t] # name[t] \/ (t \in named' /\ t \notin named)
                    => pc[r] \in Opening /\ t = target[r]
    PROVE  \A q \in Reqs : q # r => ReqInv(q)' /\ WaitInv(q)'
<1> SUFFICES ASSUME NEW q \in Reqs, q # r PROVE ReqInv(q)' /\ WaitInv(q)'
  OBVIOUS
<1>1. ReqInv(q) /\ WaitInv(q) /\ UNCHANGED <<pc[q], target[q], via[q], moment[q]>>
  BY DEF IInv
<1>2. pc[q] \in Opening \cup Waiting \cup {"burning", "burnt"} => target[q] \in 1..created
  BY <1>1 DEF ReqInv
<1>3. pc[q] \in Opening => ~(pc[r] \in Opening /\ target[q] = target[r])
  BY DEF IInv, OneOpenerPerSession
<1>4. pc[q] \in Opening =>
         /\ target[q] \in named' => target[q] \in named
         /\ UNCHANGED name[target[q]]
  BY <1>1, <1>2, <1>3
<1>5. pc[q] \in Waiting =>
         /\ target[q] \in named => target[q] \in named'
         /\ UNCHANGED <<name[target[q]], expiresAt[target[q]], burntAt[target[q]]>>
         /\ revokedAt'[target[q]] \in {revokedAt[target[q]], now}
  BY <1>1, <1>2 DEF WaitInv
<1>6. pc[q] \in {"burning", "burnt"} => name'[target[q]] = name[target[q]]
  BY <1>1, <1>2 DEF ReqInv
<1>7. created \in Nat
  BY ClockAssumption DEF IInv, TypeOK, SessionsTypeOK
<1> QED
  BY <1>1, <1>4, <1>5, <1>6, <1>7, StillStands, StillWaits

\* Most steps only move one request.  It is enough to look at where it goes.
LEMMA OneRequestMoves ==
    ASSUME IInv, NEW r \in Reqs, SessionsTypeOK',
           UNCHANGED nameVars, UNCHANGED rowVars,
           handed' \subseteq handed \cup (1..created),
           \A q \in Reqs : q # r => UNCHANGED <<pc[q], target[q], via[q], moment[q]>>,
           pc[r] \notin {"marking", "answered", "refused"},
           pc'[r] \in Opening => pc[r] \in Opening /\ target'[r] = target[r],
           ReqInv(r)', WaitInv(r)'
    PROVE  IInv'
<1>0. /\ UNCHANGED <<now, expiresAt, name, burntAt, published, liveness>>
      /\ UNCHANGED <<created, revokedAt, named>>
      /\ created \in Nat
  BY ClockAssumption DEF nameVars, rowVars, SessionsTypeOK
<1>1. NameTypeOK'
  BY <1>0 DEF IInv, TypeOK, NameTypeOK
<1>2. \A q \in Reqs : ReqInv(q)' /\ WaitInv(q)'
  <2> TAKE q \in Reqs
  <2>1. ReqInv(q) /\ WaitInv(q)
    BY DEF IInv
  <2>2. CASE q # r
    <3>1. UNCHANGED <<pc[q], target[q], via[q], moment[q]>>
      BY <2>2
    <3> QED
      BY <1>0, <2>1, <3>1, StillStands, StillWaits
  <2> QED
    BY <2>2
<1>3. \A s \in Sessions : SessionInv(s)'
  <2> TAKE s \in Sessions
  <2>1. SessionInv(s) /\ s \in Nat
    BY ClockAssumption DEF IInv, Sessions
  <2>2. s > created => s \notin handed'
    BY <1>0, <2>1 DEF SessionInv
  <2>3. AskedToEnd(s) => AskedToEnd(s)'
    BY AskedStays
  <2> QED
    BY <1>0, <2>1, <2>2, <2>3 DEF SessionInv, Settled, Lapsed, Expiry
<1>4. OneOpenerPerSession'
  <2>1. \A q \in Reqs : pc'[q] \in Opening => pc[q] \in Opening /\ target'[q] = target[q]
    OBVIOUS
  <2> QED
    BY <2>1 DEF IInv, OneOpenerPerSession
<1> QED
  BY <1>1, <1>2, <1>3, <1>4 DEF IInv, TypeOK

\* The wallet's request is refused, or goes on to create its session.
LEMMA VerifyWalletKeeps ==
    ASSUME IInv, NEW r \in Reqs, VerifyWallet(r)
    PROVE  IInv'
<1> USE DEF VerifyWallet, Goto, rowVars
<1>0. /\ \E l \in {"creating", "refused"} : pc' = [pc EXCEPT ![r] = l]
      /\ pc[r] = "new" /\ KindOf[r] = "open"
      /\ moment' = moment \/ \E t \in Nat : moment' = [moment EXCEPT ![r] = t]
  BY ReqsAssumption
<1>1. SessionsTypeOK'
  BY <1>0 DEF IInv, TypeOK, SessionsTypeOK, Labels, Running, Ended
<1>2. ReqInv(r)'
  BY <1>0 DEF IInv, ReqInv, Opening, Waiting
<1>3. WaitInv(r)'
  BY <1>0 DEF WaitInv, Waiting
<1>4. /\ \A q \in Reqs : q # r => UNCHANGED <<pc[q], target[q], via[q], moment[q]>>
      /\ pc'[r] \in Opening => pc[r] \in Opening /\ target'[r] = target[r]
      /\ pc[r] \notin {"marking", "answered", "refused"}
      /\ handed' \subseteq handed \cup (1..created)
  BY <1>0 DEF IInv, TypeOK, SessionsTypeOK, Opening
<1> QED
  BY <1>1, <1>2, <1>3, <1>4, OneRequestMoves

\* A harness request only learns which credential it runs under.
LEMMA FindHarnessKeeps ==
    ASSUME IInv, NEW r \in Reqs, NEW h \in HarnessTokens, FindHarness(r, h)
    PROVE  IInv'
<1> USE DEF FindHarness, Goto, rowVars
<1>0. /\ \E l \in {"finding", "refused"} : pc' = [pc EXCEPT ![r] = l]
      /\ pc[r] = "new" /\ KindOf[r] = "harness"
  OBVIOUS
<1>1. SessionsTypeOK'
  BY <1>0 DEF IInv, TypeOK, SessionsTypeOK, Labels, Running, Ended, Keepers
<1>2. ReqInv(r)'
  BY <1>0 DEF IInv, TypeOK, SessionsTypeOK, ReqInv, Opening, Waiting
<1>3. WaitInv(r)'
  BY <1>0 DEF WaitInv, Waiting
<1>4. /\ \A q \in Reqs : q # r => UNCHANGED <<pc[q], target[q], via[q], moment[q]>>
      /\ pc'[r] \in Opening => pc[r] \in Opening /\ target'[r] = target[r]
      /\ pc[r] \notin {"marking", "answered", "refused"}
      /\ handed' \subseteq handed \cup (1..created)
  BY <1>0 DEF Opening
<1> QED
  BY <1>1, <1>2, <1>3, <1>4, OneRequestMoves

\* What ensureSession reuses exists: it was chosen among the rows.
LEMMA EnsureSessionKeeps ==
    ASSUME IInv, NEW r \in Reqs, EnsureSession(r)
    PROVE  IInv'
<1> USE DEF EnsureSession, Goto, rowVars
<1>0. /\ \/ /\ pc' = [pc EXCEPT ![r] = "creating"]
            /\ target' = target
         \/ /\ pc' = [pc EXCEPT ![r] = "forwarding"]
            /\ \E s \in Sessions \cap (1..created) : target' = [target EXCEPT ![r] = s]
      /\ pc[r] = "finding"
      /\ now + HarnessTTL \in Nat
  BY ReqsAssumption DEF Newest, Current, IInv, TypeOK, NameTypeOK
<1>1. SessionsTypeOK'
  BY <1>0 DEF IInv, TypeOK, SessionsTypeOK, Labels, Running
<1>2. ReqInv(r)'
  BY <1>0 DEF IInv, TypeOK, SessionsTypeOK, ReqInv, Opening, Waiting
<1>3. WaitInv(r)'
  BY <1>0 DEF IInv, TypeOK, SessionsTypeOK, WaitInv, Waiting
<1>4. /\ \A q \in Reqs : q # r => UNCHANGED <<pc[q], target[q], via[q], moment[q]>>
      /\ pc'[r] \in Opening => pc[r] \in Opening /\ target'[r] = target[r]
      /\ pc[r] \notin {"marking", "answered", "refused"}
      /\ handed' \subseteq handed \cup (1..created)
  BY <1>0 DEF IInv, TypeOK, SessionsTypeOK, Opening
<1> QED
  BY <1>1, <1>2, <1>3, <1>4, OneRequestMoves

\* A new row has a fresh id: nothing is known of its name, and no request is about it.
LEMMA RowInserted ==
    ASSUME IInv, NEW r \in Reqs, NEW s \in Sessions, InsertRow(r, s),
           UNCHANGED <<now, name, burntAt, published, liveness, handed>>,
           pc[r] = "creating",
           \A q \in Reqs : q # r => UNCHANGED <<pc[q], target[q], via[q], moment[q]>>
    PROVE  /\ NameTypeOK' /\ (\A t \in Sessions : SessionInv(t)')
           /\ \A q \in Reqs : q # r => ReqInv(q)' /\ WaitInv(q)'
           /\ created' = s /\ created' = created + 1 /\ named' = named
           /\ openedBy' \in [Sessions -> Keepers] /\ UNCHANGED <<revokedAt, exhausted>>
<1> USE DEF InsertRow, NamedAtCreation
<1>0. /\ created \in Nat /\ moment[r] \in Nat /\ via[r] \in Keepers
      /\ expiresAt \in [Sessions -> Nat] /\ openedBy \in [Sessions -> Keepers]
      /\ \A t \in 1..created : t \in Sessions /\ t # s
  BY ClockAssumption DEF IInv, TypeOK, NameTypeOK, SessionsTypeOK, Sessions
<1>1. NameTypeOK'
  BY <1>0 DEF IInv, TypeOK, NameTypeOK
<1>2. \A t \in 1..created : expiresAt'[t] = expiresAt[t]
  BY <1>0
<1>3. \A q \in Reqs : q # r => ReqInv(q)' /\ WaitInv(q)'
  BY <1>0, <1>2, OthersStand
<1>4. \A t \in Sessions : SessionInv(t)'
  <2> TAKE t \in Sessions
  <2>1. SessionInv(t) /\ t \in Nat
    BY ClockAssumption DEF IInv, Sessions
  <2>2. CASE t = s
    <3>1. name[t] = "none" /\ t \notin named \cup handed
      BY <1>0, <2>1, <2>2 DEF SessionInv
    <3> QED
      BY <2>1, <2>2, <3>1 DEF SessionInv, Settled
  <2>3. CASE t # s
    <3>1. expiresAt'[t] = expiresAt[t] /\ (t > created' => t > created)
      BY <1>0, <2>1, <2>3
    <3>2. AskedToEnd(t) => AskedToEnd(t)'
      BY AskedStays
    <3> QED
      BY <2>1, <3>1, <3>2 DEF SessionInv, Settled, Lapsed, Expiry
  <2> QED
    BY <2>2, <2>3
<1>5. openedBy' \in [Sessions -> Keepers]
  BY <1>0
<1> QED
  BY <1>1, <1>3, <1>4, <1>5

\* The request that inserted the row is the one to register its name.
LEMMA CreateSessionKeeps ==
    ASSUME IInv, NEW r \in Reqs, NEW s \in Sessions, CreateSession(r, s)
    PROVE  IInv'
<1> USE DEF CreateSession, Goto
<1>0. /\ \A q \in Reqs : q # r => UNCHANGED <<pc[q], target[q], via[q], moment[q]>>
      /\ pc[r] = "creating" /\ pc'[r] = "registering" /\ target'[r] = s
      /\ pc' \in [Reqs -> Labels] /\ target' \in [Reqs -> Sessions \cup {Nothing}]
      /\ created \in Nat
  BY ClockAssumption DEF IInv, TypeOK, SessionsTypeOK, Labels, Running, Opening
<1>1. /\ NameTypeOK' /\ (\A t \in Sessions : SessionInv(t)')
      /\ \A q \in Reqs : q # r => ReqInv(q)' /\ WaitInv(q)'
      /\ created' = s /\ created' = created + 1 /\ named' = named
      /\ openedBy' \in [Sessions -> Keepers] /\ UNCHANGED <<revokedAt, exhausted>>
  BY <1>0, RowInserted
<1>2. SessionsTypeOK'
  BY <1>0, <1>1, ClockAssumption DEF IInv, TypeOK, SessionsTypeOK, Sessions
<1>3. name[s] = "none" /\ s \notin named
  BY <1>0, <1>1, ClockAssumption DEF IInv, SessionInv, Sessions
<1>4. ReqInv(r)' /\ WaitInv(r)'
  BY <1>0, <1>1, <1>3, ClockAssumption DEF IInv, ReqInv, WaitInv, Waiting
<1>5. OneOpenerPerSession'
  <2>1. \A q \in Reqs : pc[q] \in Opening => target[q] # s
    BY <1>0, <1>1 DEF IInv, ReqInv
  <2> QED
    BY <1>0, <2>1 DEF IInv, OneOpenerPerSession
<1> QED
  BY <1>1, <1>2, <1>4, <1>5 DEF IInv, TypeOK

\* A row whose insert threw is like any other, without a request to name it.
LEMMA CreateSessionFailsKeeps ==
    ASSUME IInv, NEW r \in Reqs, CreateSessionFails(r)
    PROVE  IInv'
<1> USE DEF CreateSessionFails, Goto
<1>0. /\ \A q \in Reqs : q # r => UNCHANGED <<pc[q], target[q], via[q], moment[q]>>
      /\ pc'[r] = "refused" /\ pc' \in [Reqs -> Labels]
      /\ created \in Nat
      /\ ReqInv(r)' /\ WaitInv(r)'
  BY ClockAssumption
     DEF IInv, TypeOK, SessionsTypeOK, Labels, Ended, ReqInv, WaitInv, Opening, Waiting
<1>1. OneOpenerPerSession'
  BY <1>0 DEF IInv, OneOpenerPerSession, Opening
<1>2. CASE UNCHANGED <<rowVars, expiresAt>>
  <2>1. SessionsTypeOK' /\ UNCHANGED nameVars /\ UNCHANGED rowVars
    BY <1>0, <1>2 DEF IInv, TypeOK, SessionsTypeOK, rowVars, nameVars
  <2> QED
    BY <1>0, <2>1, OneRequestMoves DEF Opening
<1>3. ASSUME NEW s \in Sessions, InsertRow(r, s)
      PROVE  IInv'
  <2>1. /\ NameTypeOK' /\ (\A t \in Sessions : SessionInv(t)')
        /\ \A q \in Reqs : q # r => ReqInv(q)' /\ WaitInv(q)'
        /\ created' = s /\ created' = created + 1 /\ named' = named
        /\ openedBy' \in [Sessions -> Keepers] /\ UNCHANGED <<revokedAt, exhausted>>
    BY <1>0, <1>3, RowInserted
  <2>2. SessionsTypeOK'
    BY <1>0, <2>1, ClockAssumption DEF IInv, TypeOK, SessionsTypeOK, Sessions
  <2> QED
    BY <1>0, <1>1, <2>1, <2>2 DEF IInv, TypeOK
<1> QED
  BY <1>2, <1>3

\* Only the request that opens a session sends its registration, and only once.
LEMMA SendRegisterKeeps ==
    ASSUME IInv, NEW r \in Reqs, SendRegister(r)
    PROVE  IInv'
<1> USE DEF SendRegister, Goto, rowVars
<1>0. /\ \A q \in Reqs : q # r => UNCHANGED <<pc[q], target[q], via[q], moment[q]>>
      /\ pc[r] = "registering" /\ pc' = [pc EXCEPT ![r] = "mining"]
      /\ name' = [name EXCEPT ![target[r]] = "sent"]
      /\ target[r] \in Sessions \cap (1..created) /\ target[r] \notin named
  BY ClockAssumption DEF IInv, TypeOK, SessionsTypeOK, ReqInv, Opening, Sessions
<1>1. NameTypeOK' /\ SessionsTypeOK'
  BY <1>0, ClockAssumption
     DEF IInv, TypeOK, NameTypeOK, SessionsTypeOK, Labels, Running, Opening
<1>2. ReqInv(r)'
  BY <1>0 DEF IInv, TypeOK, NameTypeOK, SessionsTypeOK, ReqInv, Opening
<1>3. WaitInv(r)'
  BY <1>0 DEF WaitInv, Waiting
<1>4. \A q \in Reqs : q # r => ReqInv(q)' /\ WaitInv(q)'
  <2>1. \A t \in Sessions : name'[t] # name[t] => t = target[r] /\ name[t] = "none"
    BY <1>0 DEF IInv, TypeOK, NameTypeOK, ReqInv
  <2>2. created \in Nat /\ \A t \in 1..created : t \in Sessions
    BY ClockAssumption DEF IInv, TypeOK, SessionsTypeOK, Sessions
  <2> QED
    BY <1>0, <2>1, <2>2, OthersStand DEF Opening
<1>5. \A t \in Sessions : SessionInv(t)'
  <2> TAKE t \in Sessions
  <2>1. SessionInv(t) /\ t \in Nat /\ created \in Nat
    BY ClockAssumption DEF IInv, TypeOK, SessionsTypeOK, Sessions
  <2>2. CASE t = target[r]
    <3>1. name[t] = "none" /\ name'[t] = "sent" /\ t <= created
      BY <1>0, <2>1, <2>2 DEF IInv, TypeOK, NameTypeOK, ReqInv
    <3> QED
      BY <1>0, <2>1, <2>2, <3>1 DEF SessionInv, Settled
  <2>3. CASE t # target[r]
    BY <1>0, <2>1, <2>3, AskedStays DEF SessionInv, Settled, Lapsed, Expiry
  <2> QED
    BY <2>2, <2>3
<1>6. OneOpenerPerSession'
  BY <1>0 DEF IInv, OneOpenerPerSession, Opening
<1> QED
  BY <1>1, <1>2, <1>3, <1>4, <1>5, <1>6 DEF IInv, TypeOK

\* A receipt comes only for a registration that is over.
LEMMA RegisterReceiptKeeps ==
    ASSUME IInv, NEW r \in Reqs, RegisterReceipt(r)
    PROVE  IInv'
<1> USE DEF RegisterReceipt, Goto, rowVars
<1>0. /\ pc' = [pc EXCEPT ![r] = "recording"] /\ pc[r] = "mining"
      /\ name[target[r]] # "sent"
      /\ UNCHANGED <<name, named, created>>
  BY DEF nameVars
<1>1. SessionsTypeOK'
  BY <1>0 DEF IInv, TypeOK, SessionsTypeOK, Labels, Running, Opening
<1>2. ReqInv(r)'
  BY <1>0 DEF IInv, ReqInv, Opening, Settled
<1>3. WaitInv(r)'
  BY <1>0 DEF WaitInv, Waiting
<1>4. /\ \A q \in Reqs : q # r => UNCHANGED <<pc[q], target[q], via[q], moment[q]>>
      /\ pc'[r] \in Opening => pc[r] \in Opening /\ target'[r] = target[r]
      /\ pc[r] \notin {"marking", "answered", "refused"}
      /\ handed' \subseteq handed \cup (1..created)
  BY <1>0 DEF Opening
<1> QED
  BY <1>1, <1>2, <1>3, <1>4, OneRequestMoves

\* Whether the terms were published disturbs nothing.
LEMMA RecordsReceiptKeeps ==
    ASSUME IInv, NEW r \in Reqs, RecordsReceipt(r)
    PROVE  IInv'
<1> USE DEF RecordsReceipt, Publish, Goto, rowVars
<1>0. /\ \A q \in Reqs : q # r => UNCHANGED <<pc[q], target[q], via[q], moment[q]>>
      /\ pc[r] = "recording" /\ pc' = [pc EXCEPT ![r] = "naming"]
      /\ published' = published \/ published' = published \cup {target[r]}
      /\ target[r] \in Sessions \cap (1..created)
  BY ClockAssumption DEF IInv, TypeOK, SessionsTypeOK, ReqInv, Opening, Sessions
<1>1. NameTypeOK' /\ SessionsTypeOK'
  BY <1>0, ClockAssumption
     DEF IInv, TypeOK, NameTypeOK, SessionsTypeOK, Labels, Running, Opening
<1>2. ReqInv(r)'
  BY <1>0 DEF IInv, ReqInv, Opening, Settled
<1>3. WaitInv(r)'
  BY <1>0 DEF WaitInv, Waiting
<1>4. \A q \in Reqs : q # r => ReqInv(q)' /\ WaitInv(q)'
  BY <1>0, <1>1, OthersStand, ClockAssumption
     DEF IInv, TypeOK, NameTypeOK, SessionsTypeOK
<1>5. \A t \in Sessions : SessionInv(t)'
  BY <1>0, AskedStays DEF IInv, SessionInv, Settled, Lapsed, Expiry
<1>6. OneOpenerPerSession'
  BY <1>0 DEF IInv, OneOpenerPerSession, Opening
<1> QED
  BY <1>1, <1>2, <1>3, <1>4, <1>5, <1>6 DEF IInv, TypeOK

\* A registration given up on leaves the session unnamed for ever.
LEMMA RegisterThrowsKeeps ==
    ASSUME IInv, NEW r \in Reqs, RegisterThrows(r)
    PROVE  IInv'
<1> USE DEF RegisterThrows, Publish, Goto, rowVars
<1>0. /\ \A q \in Reqs : q # r => UNCHANGED <<pc[q], target[q], via[q], moment[q]>>
      /\ pc[r] \in Opening /\ pc' = [pc EXCEPT ![r] = "issuing"]
      /\ target[r] \in Sessions \cap (1..created) /\ target[r] \notin named
      /\ published' = published \/ published' = published \cup {target[r]}
      /\ \/ name' = name
         \/ pc[r] = "registering" /\ name' = [name EXCEPT ![target[r]] = "sent"]
  BY ClockAssumption DEF IInv, TypeOK, SessionsTypeOK, ReqInv, Opening, Sessions
<1>1. NameTypeOK'
  BY <1>0 DEF IInv, TypeOK, NameTypeOK
<1>2. SessionsTypeOK'
  BY <1>0 DEF IInv, TypeOK, SessionsTypeOK, Labels, Running, Opening
<1>3. ReqInv(r)' /\ WaitInv(r)'
  BY <1>0 DEF IInv, TypeOK, SessionsTypeOK, ReqInv, WaitInv, Waiting
<1>4. \A q \in Reqs : q # r => ReqInv(q)' /\ WaitInv(q)'
  <2>1. \A t \in Sessions : name'[t] # name[t] => t = target[r] /\ name[t] = "none"
    BY <1>0 DEF IInv, TypeOK, NameTypeOK, ReqInv
  <2>2. created \in Nat /\ \A t \in 1..created : t \in Sessions
    BY ClockAssumption DEF IInv, TypeOK, SessionsTypeOK, Sessions
  <2> QED
    BY <1>0, <2>1, <2>2, OthersStand
<1>5. \A t \in Sessions : SessionInv(t)'
  <2> TAKE t \in Sessions
  <2>1. /\ SessionInv(t) /\ target[r] \in 1..created /\ target[r] \notin named
        /\ pc[r] = "registering" => name[target[r]] = "none"
    BY DEF IInv, ReqInv, Opening
  <2>2. /\ UNCHANGED <<now, expiresAt, burntAt, liveness, created, named, handed>>
        /\ \/ name' = name
           \/ pc[r] = "registering" /\ name' = [name EXCEPT ![target[r]] = "sent"]
    OBVIOUS
  <2>3. CASE name'[t] = name[t]
    <3>1. AskedToEnd(t) => AskedToEnd(t)'
      BY <1>0, AskedStays DEF Opening
    <3> QED
      BY <2>1, <2>2, <2>3, <3>1 DEF SessionInv, Settled, Lapsed, Expiry
  <2>4. CASE name'[t] # name[t]
    <3>1. t = target[r] /\ name'[t] = "sent" /\ name[t] = "none"
      BY <1>0, <2>1, <2>2, <2>4 DEF IInv, TypeOK, NameTypeOK
    <3>2. t <= created /\ created \in Nat
      BY <2>1, <3>1 DEF IInv, TypeOK, SessionsTypeOK
    <3> QED
      BY <2>1, <2>2, <3>1, <3>2 DEF SessionInv, Settled
  <2> QED
    BY <2>3, <2>4
<1>6. OneOpenerPerSession'
  BY <1>0 DEF IInv, OneOpenerPerSession
<1> QED
  BY <1>1, <1>2, <1>3, <1>4, <1>5, <1>6 DEF IInv, TypeOK

\* A row is named after its registration is settled.
LEMMA NameSessionKeeps ==
    ASSUME IInv, NEW r \in Reqs, NameSession(r)
    PROVE  IInv'
<1> USE DEF NameSession, Goto, nameVars
<1>0. /\ \A q \in Reqs : q # r => UNCHANGED <<pc[q], target[q], via[q], moment[q]>>
      /\ pc[r] = "naming" /\ pc' = [pc EXCEPT ![r] = "issuing"]
      /\ named' = named \cup {target[r]}
      /\ target[r] \in Sessions \cap (1..created)
      /\ Settled(target[r])
  BY ClockAssumption DEF IInv, TypeOK, SessionsTypeOK, ReqInv, Opening, Sessions
<1>1. NameTypeOK' /\ SessionsTypeOK'
  BY <1>0, ClockAssumption
     DEF IInv, TypeOK, NameTypeOK, SessionsTypeOK, Labels, Running, Opening
<1>2. ReqInv(r)'
  BY <1>0 DEF IInv, TypeOK, SessionsTypeOK, ReqInv, Opening
<1>3. WaitInv(r)'
  BY <1>0 DEF WaitInv, Waiting
<1>4. \A q \in Reqs : q # r => ReqInv(q)' /\ WaitInv(q)'
  BY <1>0, <1>1, OthersStand, ClockAssumption DEF SessionsTypeOK, Opening
<1>5. \A t \in Sessions : SessionInv(t)'
  BY <1>0, AskedStays, ClockAssumption
     DEF IInv, TypeOK, SessionsTypeOK, SessionInv, Settled, Lapsed, Expiry
<1>6. OneOpenerPerSession'
  BY <1>0 DEF IInv, OneOpenerPerSession, Opening
<1> QED
  BY <1>1, <1>2, <1>3, <1>4, <1>5, <1>6 DEF IInv, TypeOK

\* So it is when the update threw after having committed.
LEMMA NameSessionFailsKeeps ==
    ASSUME IInv, NEW r \in Reqs, NameSessionFails(r)
    PROVE  IInv'
<1> USE DEF NameSessionFails, Goto, nameVars
<1>0. /\ \A q \in Reqs : q # r => UNCHANGED <<pc[q], target[q], via[q], moment[q]>>
      /\ pc[r] = "naming" /\ pc' = [pc EXCEPT ![r] = "refused"]
      /\ named' = named \/ named' = named \cup {target[r]}
      /\ target[r] \in Sessions \cap (1..created)
      /\ Settled(target[r])
  BY ClockAssumption DEF IInv, TypeOK, SessionsTypeOK, ReqInv, Opening, Sessions
<1>1. NameTypeOK' /\ SessionsTypeOK'
  BY <1>0, ClockAssumption DEF IInv, TypeOK, NameTypeOK, SessionsTypeOK, Labels, Ended
<1>2. ReqInv(r)'
  BY <1>0 DEF IInv, TypeOK, SessionsTypeOK, ReqInv, Opening
<1>3. WaitInv(r)'
  BY <1>0 DEF WaitInv, Waiting
<1>4. \A q \in Reqs : q # r => ReqInv(q)' /\ WaitInv(q)'
  BY <1>0, <1>1, OthersStand, ClockAssumption DEF SessionsTypeOK, Opening
<1>5. \A t \in Sessions : SessionInv(t)'
  BY <1>0, AskedStays, ClockAssumption
     DEF IInv, TypeOK, SessionsTypeOK, SessionInv, Settled, Lapsed, Expiry
<1>6. OneOpenerPerSession'
  BY <1>0 DEF IInv, OneOpenerPerSession, Opening
<1> QED
  BY <1>1, <1>2, <1>3, <1>4, <1>5, <1>6 DEF IInv, TypeOK

\* Issuing the token only moves the request.
LEMMA IssueTokenKeeps ==
    ASSUME IInv, NEW r \in Reqs, IssueToken(r)
    PROVE  IInv'
<1> USE DEF IssueToken, Goto, rowVars
<1>0. /\ \E l \in {"answered", "forwarding"} : pc' = [pc EXCEPT ![r] = l]
      /\ pc'[r] = "forwarding" => KindOf[r] = "harness"
      /\ pc[r] = "issuing" /\ target[r] \in Sessions \cap (1..created)
      /\ handed' = handed \/ handed' = handed \cup {target[r]}
      /\ created' = created
  BY ClockAssumption DEF IInv, TypeOK, SessionsTypeOK, Sessions, ReqInv, Opening
<1>1. SessionsTypeOK'
  BY <1>0 DEF IInv, TypeOK, SessionsTypeOK, Labels, Running, Ended
<1>2. ReqInv(r)'
  BY <1>0 DEF ReqInv
<1>3. WaitInv(r)'
  BY <1>0 DEF WaitInv, Waiting
<1>4. /\ \A q \in Reqs : q # r => UNCHANGED <<pc[q], target[q], via[q], moment[q]>>
      /\ pc'[r] \in Opening => pc[r] \in Opening /\ target'[r] = target[r]
      /\ pc[r] \notin {"marking", "answered", "refused"}
      /\ handed' \subseteq handed \cup (1..created)
  BY <1>0 DEF Opening
<1> QED
  BY <1>1, <1>2, <1>3, <1>4, OneRequestMoves

\* A request starts to wait for the registry on a named session that is not revoked.
LEMMA LoadSessionKeeps ==
    ASSUME IInv, NEW r \in Reqs, NEW s \in Sessions, LoadSession(r, s)
    PROVE  IInv'
<1> USE DEF LoadSession, Presents, Goto, rowVars
<1>0. /\ pc[r] \in {"new", "forwarding"}
      /\ s \in 1..created /\ created' = created
      /\ target' = [target EXCEPT ![r] = s]
  BY DEF IInv, TypeOK, SessionsTypeOK, ReqInv, SessionInv, Sessions
<1>1. \/ /\ \E l \in {"refused", "admitted"} : pc' = [pc EXCEPT ![r] = l]
         /\ UNCHANGED moment
      \/ /\ pc' = [pc EXCEPT ![r] = "reading"]
         /\ moment' = [moment EXCEPT ![r] = now]
         /\ s \in named /\ revokedAt[s] = Nothing /\ expiresAt[s] > now
  BY DEF RowOpen
<1>2. now \in Nat /\ \E l \in {"refused", "admitted", "reading"} : pc' = [pc EXCEPT ![r] = l]
  BY <1>1 DEF IInv, TypeOK, NameTypeOK
<1>3. SessionsTypeOK'
  BY <1>1, <1>2 DEF IInv, TypeOK, SessionsTypeOK, Labels, Running, Waiting, Ended
<1>4. ReqInv(r)'
  BY <1>0, <1>2 DEF IInv, TypeOK, SessionsTypeOK, ReqInv, Opening
<1>5. WaitInv(r)'
  <2>1. CASE \E l \in {"refused", "admitted"} : pc' = [pc EXCEPT ![r] = l]
    BY <2>1 DEF WaitInv, Waiting
  <2>2. CASE /\ pc' = [pc EXCEPT ![r] = "reading"]
             /\ moment' = [moment EXCEPT ![r] = now]
             /\ s \in named /\ revokedAt[s] = Nothing /\ expiresAt[s] > now
    <3>1. pc'[r] = "reading" /\ moment'[r] = now /\ target'[r] = s
      BY <1>0, <2>2 DEF IInv, TypeOK, SessionsTypeOK
    <3>2. UNCHANGED <<now, expiresAt, named, revokedAt>> /\ expiresAt[s] \in Nat
      BY DEF nameVars, rowVars, IInv, TypeOK, NameTypeOK
    <3> QED
      BY <1>2, <2>2, <3>1, <3>2, ClockAssumption DEF WaitInv
  <2> QED
    BY <1>1, <2>1, <2>2
<1>6. /\ \A q \in Reqs : q # r => UNCHANGED <<pc[q], target[q], via[q], moment[q]>>
      /\ pc'[r] \notin Opening
      /\ pc[r] \notin {"marking", "answered", "refused"}
      /\ handed' = handed
  BY <1>0, <1>1, <1>2 DEF IInv, TypeOK, SessionsTypeOK, Opening
<1> QED
  BY <1>3, <1>4, <1>5, <1>6, OneRequestMoves

\* What the registry answers is what it knows at that moment.
LEMMA ReadStateKeeps ==
    ASSUME IInv, NEW r \in Reqs, ReadState(r)
    PROVE  IInv'
<1> USE DEF ReadState, Goto, rowVars
<1>0. /\ pc' = [pc EXCEPT ![r] = IF name[target[r]] = "held" THEN "readHeld" ELSE "readGone"]
      /\ pc[r] = "reading" /\ target[r] \in Sessions \cap (1..created) /\ created' = created
      /\ UNCHANGED <<now, expiresAt, name, burntAt, revokedAt, named, moment>>
      /\ SessionInv(target[r]) /\ WaitInv(r)
  BY ClockAssumption
     DEF IInv, TypeOK, SessionsTypeOK, Sessions, ReqInv, Waiting, nameVars
<1>1. SessionsTypeOK'
  BY <1>0 DEF IInv, TypeOK, SessionsTypeOK, Labels, Running, Waiting
<1>2. ReqInv(r)'
  BY <1>0 DEF ReqInv, Opening
<1>3. WaitInv(r)'
  BY <1>0 DEF WaitInv, Waiting, SessionInv
<1>4. /\ \A q \in Reqs : q # r => UNCHANGED <<pc[q], target[q], via[q], moment[q]>>
      /\ pc'[r] \in Opening => pc[r] \in Opening /\ target'[r] = target[r]
      /\ pc[r] \notin {"marking", "answered", "refused"}
      /\ handed' \subseteq handed \cup (1..created)
  BY <1>0 DEF Opening
<1> QED
  BY <1>1, <1>2, <1>3, <1>4, OneRequestMoves

\* The cached answer is as old as the question, whichever write of the cache is last.
LEMMA NameReadKeeps ==
    ASSUME IInv, NEW r \in Reqs, NameRead(r)
    PROVE  IInv'
<1> USE ReqsAssumption, ClockAssumption, AnswerAssumption
    DEF NameRead, Goto, nameVars, rowVars, reqVars, Sessions
<1>0. target[r] \in Sessions
  BY DEF IInv, TypeOK, SessionsTypeOK, ReqInv, Waiting
<1>1. NameTypeOK'
  <2>1. StillLive(r) \in BOOLEAN /\ Remember(target[r], StillLive(r))
    BY DEF StillLive
  <2>2. liveness' \in [Sessions -> Answer \cup {Nothing}]
    BY <1>0, <2>1, Remembered DEF IInv, TypeOK
  <2> QED
    BY <2>2 DEF IInv, TypeOK, NameTypeOK
<1>2. SessionsTypeOK'
  BY <1>0 DEF IInv, TypeOK, SessionsTypeOK, Labels, Running, Ended
<1>3. \A q \in Reqs : ReqInv(q)'
  BY DEF IInv, ReqInv, Opening, Waiting, Settled
<1>4. \A q \in Reqs : WaitInv(q)'
  BY DEF IInv, WaitInv, Waiting, Lapsed, Expiry
<1>5. \A t \in Sessions : SessionInv(t)'
  <2> TAKE t \in Sessions
  <2>1. SessionInv(t) /\ WaitInv(r) /\ now \in Nat
    BY DEF IInv, TypeOK, NameTypeOK
  <2>2. CASE t # target[r]
    <3>1. liveness'[t] = liveness[t]
      BY <2>2 DEF Remember, IInv, TypeOK, NameTypeOK
    <3>2. AskedToEnd(t) => AskedToEnd(t)'
      BY DEF AskedToEnd
    <3> QED
      BY <2>1, <3>1, <3>2 DEF SessionInv, Settled, Lapsed, Expiry
  <2>3. CASE t = target[r]
    <3>1. StillLive(r) \in BOOLEAN /\ Remember(target[r], StillLive(r))
      BY DEF NameRead, StillLive
    <3>2. liveness'[t] # Nothing /\ liveness'[t].at = now /\ liveness'[t].live = StillLive(r)
      BY <2>3, <3>1, Remembered DEF IInv, TypeOK
    <3>3. StillLive(r) /\ burntAt[t] # Nothing => now <= burntAt[t] + ReadTimeout
      <4>1. now <= moment[r] + ReadTimeout /\ moment[r] \in Nat
        BY <2>1 DEF IInv, TypeOK, SessionsTypeOK, WaitInv, Waiting
      <4>2. StillLive(r) /\ burntAt[t] # Nothing => moment[r] <= burntAt[t]
        BY <2>1, <2>3 DEF WaitInv, Waiting, StillLive
      <4>3. burntAt[t] # Nothing => burntAt[t] \in Nat
        BY DEF IInv, TypeOK, NameTypeOK
      <4>4. CASE StillLive(r) /\ burntAt[t] # Nothing
        BY <2>1, <4>1, <4>2, <4>3, <4>4
      <4> QED
        BY <4>4
    <3>4. ~StillLive(r) => ~(name[t] = "held" /\ ~Lapsed(t))
      <4>1. pc[r] = "readGone" => ~(name[t] = "held" /\ ~Lapsed(t))
        BY <2>1, <2>3 DEF WaitInv, Waiting
      <4> QED
        BY <4>1, <2>3 DEF StillLive
    <3>5. t \in named
      BY <2>1, <2>3 DEF WaitInv, Waiting
    <3>6. CASE StillLive(r)
      <4>1. liveness'[t].live = TRUE /\ (burntAt[t] # Nothing => now <= burntAt[t] + ReadTimeout)
        BY <3>2, <3>3, <3>6
      <4> QED
        BY <2>1, <3>2, <3>5, <4>1 DEF SessionInv, Settled, Lapsed, Expiry
    <3>7. CASE ~StillLive(r)
      <4>1. liveness'[t].live = FALSE /\ ~(name[t] = "held" /\ ~Lapsed(t))
        BY <3>2, <3>4, <3>7
      <4> QED
        BY <2>1, <3>2, <3>5, <4>1 DEF SessionInv, Settled, Lapsed, Expiry
    <3> QED
      BY <3>6, <3>7
  <2> QED
    BY <2>2, <2>3
<1>6. OneOpenerPerSession'
  BY DEF IInv, OneOpenerPerSession, Opening
<1> QED
  BY <1>1, <1>2, <1>3, <1>4, <1>5, <1>6 DEF IInv, TypeOK

\* Without an answer the cache is left alone.
LEMMA ReadFailsKeeps ==
    ASSUME IInv, NEW r \in Reqs, ReadFails(r)
    PROVE  IInv'
<1> USE DEF ReadFails, Goto, rowVars
<1>0. /\ pc' = [pc EXCEPT ![r] = "admitted"] /\ pc[r] \in Waiting
      /\ target[r] \in 1..created /\ created' = created
  BY DEF IInv, ReqInv
<1>1. SessionsTypeOK'
  BY <1>0 DEF IInv, TypeOK, SessionsTypeOK, Labels, Running
<1>2. ReqInv(r)'
  BY <1>0 DEF ReqInv, Opening, Waiting
<1>3. WaitInv(r)'
  BY <1>0 DEF IInv, TypeOK, SessionsTypeOK, WaitInv, Waiting
<1>4. /\ \A q \in Reqs : q # r => UNCHANGED <<pc[q], target[q], via[q], moment[q]>>
      /\ pc'[r] \in Opening => pc[r] \in Opening /\ target'[r] = target[r]
      /\ pc[r] \notin {"marking", "answered", "refused"}
      /\ handed' \subseteq handed \cup (1..created)
  BY <1>0 DEF Opening, Waiting
<1> QED
  BY <1>1, <1>2, <1>3, <1>4, OneRequestMoves

\* Serving a request may exhaust its session, which the invariant does not mention.
LEMMA ServeKeeps ==
    ASSUME IInv, NEW r \in Reqs, Serve(r)
    PROVE  IInv'
<1> USE DEF Serve, Goto, nameVars
<1>0. /\ \A q \in Reqs : q # r => UNCHANGED <<pc[q], target[q], via[q], moment[q]>>
      /\ pc[r] = "admitted" /\ pc' = [pc EXCEPT ![r] = "answered"]
      /\ target[r] \in Sessions \cap (1..created)
  BY ClockAssumption DEF IInv, TypeOK, SessionsTypeOK, ReqInv, Sessions
<1>1. NameTypeOK' /\ SessionsTypeOK'
  BY <1>0, ClockAssumption DEF IInv, TypeOK, NameTypeOK, SessionsTypeOK, Labels, Ended
<1>2. ReqInv(r)'
  BY <1>0 DEF ReqInv, Opening
<1>3. WaitInv(r)'
  BY <1>0 DEF WaitInv, Waiting
<1>4. \A q \in Reqs : q # r => ReqInv(q)' /\ WaitInv(q)'
  BY <1>0, <1>1, OthersStand, ClockAssumption
     DEF IInv, TypeOK, NameTypeOK, SessionsTypeOK
<1>5. \A t \in Sessions : SessionInv(t)'
  BY <1>0, AskedStays DEF IInv, SessionInv, Settled, Lapsed, Expiry
<1>6. OneOpenerPerSession'
  BY <1>0 DEF IInv, OneOpenerPerSession, Opening
<1> QED
  BY <1>1, <1>2, <1>3, <1>4, <1>5, <1>6 DEF IInv, TypeOK

\* Credentials are not part of the invariant but for their type.
LEMMA SetHarnessKeeps ==
    ASSUME IInv, NEW r \in Reqs, NEW h \in HarnessTokens, SetHarness(r, h)
    PROVE  IInv'
<1> USE DEF SetHarness, Goto, rowVars
<1>0. /\ \E l \in {"answered", "refused"} : pc' = [pc EXCEPT ![r] = l]
      /\ pc[r] = "admitted"
  OBVIOUS
<1>1. SessionsTypeOK'
  BY <1>0 DEF IInv, TypeOK, SessionsTypeOK, Labels, Ended
<1>2. ReqInv(r)'
  BY <1>0 DEF IInv, ReqInv, Opening
<1>3. WaitInv(r)'
  BY <1>0 DEF WaitInv, Waiting
<1>4. /\ \A q \in Reqs : q # r => UNCHANGED <<pc[q], target[q], via[q], moment[q]>>
      /\ pc'[r] \in Opening => pc[r] \in Opening /\ target'[r] = target[r]
      /\ pc[r] \notin {"marking", "answered", "refused"}
      /\ handed' \subseteq handed \cup (1..created)
  BY <1>0 DEF Opening
<1> QED
  BY <1>1, <1>2, <1>3, <1>4, OneRequestMoves

\* Sending the burn only moves the request.
LEMMA SendBurnKeeps ==
    ASSUME IInv, NEW r \in Reqs, SendBurn(r)
    PROVE  IInv'
<1> USE DEF SendBurn, Goto, rowVars
<1>0. /\ pc' = [pc EXCEPT ![r] = "burning"] /\ pc[r] = "admitted" /\ KindOf[r] = "revoke"
      /\ target[r] \in 1..created /\ name[target[r]] = "held"
      /\ UNCHANGED <<created, name>>
  BY DEF IInv, ReqInv, nameVars
<1>1. SessionsTypeOK'
  BY <1>0 DEF IInv, TypeOK, SessionsTypeOK, Labels, Running
<1>2. ReqInv(r)'
  BY <1>0 DEF IInv, TypeOK, SessionsTypeOK, ReqInv, Opening
<1>3. WaitInv(r)'
  BY <1>0 DEF IInv, TypeOK, SessionsTypeOK, WaitInv, Waiting
<1>4. /\ \A q \in Reqs : q # r => UNCHANGED <<pc[q], target[q], via[q], moment[q]>>
      /\ pc'[r] \in Opening => pc[r] \in Opening /\ target'[r] = target[r]
      /\ pc[r] \notin {"marking", "answered", "refused"}
      /\ handed' \subseteq handed \cup (1..created)
  BY <1>0 DEF Opening
<1> QED
  BY <1>1, <1>2, <1>3, <1>4, OneRequestMoves

\* A name that is unregistered ends no earlier than any read that found it held.
LEMMA UnregisteredKeeps ==
    ASSUME IInv, NEW s \in Sessions, Unregistered(s),
           UNCHANGED <<now, expiresAt, published, liveness, target, via, moment>>,
           UNCHANGED <<created, openedBy, revokedAt, exhausted, named, handed>>,
           \A q \in Reqs : \/ pc'[q] = pc[q]
                           \/ pc[q] = "burning" /\ pc'[q] = "burnt"
    PROVE  /\ NameTypeOK' /\ OneOpenerPerSession'
           /\ \A q \in Reqs : ReqInv(q)' /\ WaitInv(q)'
           /\ \A t \in Sessions : SessionInv(t)'
<1> USE ClockAssumption, AnswerAssumption
<1>0. /\ name[s] = "held" /\ now \in Nat
      /\ name'[s] = "burnt" /\ burntAt'[s] = now
      /\ \A t \in Sessions : t # s => UNCHANGED <<name[t], burntAt[t]>>
  BY DEF Unregistered, IInv, TypeOK, NameTypeOK
<1>1. NameTypeOK'
  BY <1>0 DEF Unregistered, IInv, TypeOK, NameTypeOK
<1>2. \A q \in Reqs : target[q] \in 1..created => target[q] \in Sessions
  BY DEF IInv, TypeOK, SessionsTypeOK, Sessions
<1>3. \A q \in Reqs : ReqInv(q)'
  <2> TAKE q \in Reqs
  <2>1. ReqInv(q)
    BY DEF IInv
  <2>2. CASE pc'[q] = pc[q]
    BY <1>0, <1>2, <2>1, <2>2 DEF ReqInv, Opening, Settled
  <2>3. CASE pc[q] = "burning" /\ pc'[q] = "burnt"
    BY <1>0, <1>2, <2>1, <2>3 DEF ReqInv, Opening
  <2> QED
    BY <2>2, <2>3
<1>4. \A q \in Reqs : WaitInv(q)'
  <2> TAKE q \in Reqs
  <2>1. WaitInv(q) /\ ReqInv(q) /\ (pc'[q] \in Waiting => pc'[q] = pc[q])
    BY DEF IInv, Waiting
  <2>2. pc[q] \in Waiting => target[q] \in Sessions
    BY <1>2, <2>1 DEF ReqInv
  <2> QED
    BY <1>0, <2>1, <2>2 DEF WaitInv, Waiting, Lapsed, Expiry
<1>5. \A t \in Sessions : SessionInv(t)'
  <2> TAKE t \in Sessions
  <2>1. SessionInv(t) /\ (AskedToEnd(t) => AskedToEnd(t)')
    BY DEF IInv, AskedToEnd
  <2>2. CASE t = s
    <3>1. liveness[t] # Nothing => liveness[t].at \in Nat
      BY DEF IInv, TypeOK, NameTypeOK, Answer
    <3>2. liveness[t] # Nothing => liveness[t].at <= now + ReadTimeout
      BY <1>0, <2>1, <3>1 DEF SessionInv
    <3> QED
      BY <1>0, <2>1, <2>2, <3>2 DEF SessionInv, Settled
  <2>3. CASE t # s
    BY <1>0, <2>1, <2>3 DEF SessionInv, Settled, Lapsed, Expiry
  <2> QED
    BY <2>2, <2>3
<1>6. OneOpenerPerSession'
  BY DEF IInv, OneOpenerPerSession, Opening
<1> QED
  BY <1>1, <1>3, <1>4, <1>5, <1>6

\* A burn is mined like any other, or reverts and changes nothing.
LEMMA BurnMinedKeeps ==
    ASSUME IInv, NEW r \in Reqs, BurnMined(r)
    PROVE  IInv'
<1> USE DEF BurnMined, Goto, rowVars
<1>0. /\ pc' = [pc EXCEPT ![r] = "burnt"] /\ pc[r] = "burning" /\ KindOf[r] = "revoke"
      /\ target[r] \in Sessions \cap (1..created) /\ name[target[r]] \in {"held", "burnt"}
      /\ UNCHANGED created
  BY ClockAssumption DEF IInv, TypeOK, SessionsTypeOK, ReqInv, Sessions
<1>1. SessionsTypeOK'
  BY <1>0 DEF IInv, TypeOK, SessionsTypeOK, Labels, Running
<1>2. CASE Unregistered(target[r])
  <2>1. \A q \in Reqs : pc'[q] = pc[q] \/ (pc[q] = "burning" /\ pc'[q] = "burnt")
    BY <1>0 DEF IInv, TypeOK, SessionsTypeOK
  <2>2. /\ NameTypeOK' /\ OneOpenerPerSession'
        /\ \A q \in Reqs : ReqInv(q)' /\ WaitInv(q)'
        /\ \A t \in Sessions : SessionInv(t)'
    BY <1>0, <1>2, <2>1, UnregisteredKeeps
  <2> QED
    BY <1>1, <2>2 DEF IInv, TypeOK
<1>3. CASE UNCHANGED <<name, burntAt>>
  <2>1. ReqInv(r)'
    BY <1>0, <1>3 DEF IInv, TypeOK, SessionsTypeOK, ReqInv, Opening
  <2>2. WaitInv(r)'
    BY <1>0 DEF IInv, TypeOK, SessionsTypeOK, WaitInv, Waiting
  <2>3. /\ \A q \in Reqs : q # r => UNCHANGED <<pc[q], target[q], via[q], moment[q]>>
        /\ pc'[r] \in Opening => pc[r] \in Opening /\ target'[r] = target[r]
        /\ pc[r] \notin {"marking", "answered", "refused"}
        /\ handed' \subseteq handed \cup (1..created)
    BY <1>0 DEF IInv, TypeOK, SessionsTypeOK, Opening
  <2> QED
    BY <1>1, <1>3, <2>1, <2>2, <2>3, OneRequestMoves DEF nameVars
<1> QED
  BY <1>2, <1>3

\* The cache is told "gone" on behalf of a request that asked for just that.
LEMMA BurnReceiptKeeps ==
    ASSUME IInv, NEW r \in Reqs, BurnReceipt(r)
    PROVE  IInv'
<1> USE ClockAssumption, AnswerAssumption DEF BurnReceipt, Goto, rowVars
<1>0. /\ \A q \in Reqs : q # r => UNCHANGED <<pc[q], target[q], via[q], moment[q]>>
      /\ pc' = [pc EXCEPT ![r] = "marking"] /\ pc'[r] = "marking" /\ pc[r] = "burnt"
      /\ KindOf[r] = "revoke"
      /\ target[r] \in Sessions \cap (1..created) /\ name[target[r]] \in {"held", "burnt"}
      /\ UNCHANGED <<now, expiresAt, name, burntAt, target, created, named, handed>>
  BY DEF IInv, TypeOK, SessionsTypeOK, ReqInv, Sessions
<1>1. /\ liveness' \in [Sessions -> Answer \cup {Nothing}]
      /\ liveness'[target[r]] # Nothing
      /\ liveness'[target[r]].live = FALSE /\ liveness'[target[r]].at = now
      /\ \A t \in Sessions : t # target[r] => liveness'[t] = liveness[t]
  BY <1>0, Remembered DEF IInv, TypeOK
<1>2. NameTypeOK'
  BY <1>1 DEF IInv, TypeOK, NameTypeOK
<1>3. SessionsTypeOK'
  BY <1>0 DEF IInv, TypeOK, SessionsTypeOK, Labels, Running
<1>4. ReqInv(r)' /\ WaitInv(r)'
  BY <1>0 DEF ReqInv, WaitInv, Opening, Waiting
<1>5. \A q \in Reqs : q # r => ReqInv(q)' /\ WaitInv(q)'
  BY <1>0, <1>3, OthersStand DEF IInv, TypeOK, NameTypeOK, SessionsTypeOK
<1>6. \A t \in Sessions : SessionInv(t)'
  <2> TAKE t \in Sessions
  <2>1. SessionInv(t) /\ now \in Nat
    BY DEF IInv, TypeOK, NameTypeOK
  <2>2. CASE t = target[r]
    <3>1. AskedToEnd(t)'
      BY <1>0, <2>2 DEF AskedToEnd
    <3> QED
      BY <1>0, <1>1, <2>1, <2>2, <3>1 DEF SessionInv, Settled
  <2>3. CASE t # target[r]
    <3>1. AskedToEnd(t) => AskedToEnd(t)'
      BY <1>0, AskedStays
    <3> QED
      BY <1>0, <1>1, <2>1, <2>3, <3>1 DEF SessionInv, Settled, Lapsed, Expiry
  <2> QED
    BY <2>2, <2>3
<1>7. OneOpenerPerSession'
  BY <1>0 DEF IInv, OneOpenerPerSession, Opening
<1> QED
  BY <1>2, <1>3, <1>4, <1>5, <1>6, <1>7 DEF IInv, TypeOK

\* A burn that throws leaves the cache alone.
LEMMA BurnThrowsKeeps ==
    ASSUME IInv, NEW r \in Reqs, BurnThrows(r)
    PROVE  IInv'
<1> USE DEF BurnThrows, Goto, rowVars
<1>0. /\ pc' = [pc EXCEPT ![r] = "marking"] /\ pc[r] \in {"admitted", "burning", "burnt"}
      /\ target[r] \in 1..created /\ UNCHANGED created
  BY DEF IInv, ReqInv
<1>1. SessionsTypeOK'
  BY <1>0 DEF IInv, TypeOK, SessionsTypeOK, Labels, Running
<1>2. ReqInv(r)'
  BY <1>0 DEF IInv, TypeOK, SessionsTypeOK, ReqInv, Opening, Waiting
<1>3. WaitInv(r)'
  BY <1>0 DEF IInv, TypeOK, SessionsTypeOK, WaitInv, Waiting
<1>4. /\ \A q \in Reqs : q # r => UNCHANGED <<pc[q], target[q], via[q], moment[q]>>
      /\ pc'[r] \in Opening => pc[r] \in Opening /\ target'[r] = target[r]
      /\ pc[r] \notin {"marking", "answered", "refused"}
      /\ handed' \subseteq handed \cup (1..created)
  BY <1>0 DEF IInv, TypeOK, SessionsTypeOK, Opening
<1> QED
  BY <1>1, <1>2, <1>3, <1>4, OneRequestMoves

\* Revocation is no earlier than any read still under way.
LEMMA MarkRevokedKeeps ==
    ASSUME IInv, NEW r \in Reqs, MarkRevoked(r)
    PROVE  IInv'
<1> USE DEF MarkRevoked, SetRevokedAt, Goto, nameVars
<1>0. /\ \A q \in Reqs : q # r => UNCHANGED <<pc[q], target[q], via[q], moment[q]>>
      /\ pc[r] = "marking" /\ pc' = [pc EXCEPT ![r] = "answered"]
      /\ revokedAt' = [revokedAt EXCEPT ![target[r]] = now] /\ now \in Nat
      /\ target[r] \in Sessions \cap (1..created)
  BY ClockAssumption DEF IInv, TypeOK, NameTypeOK, SessionsTypeOK, ReqInv, Sessions
<1>1. NameTypeOK' /\ SessionsTypeOK'
  BY <1>0, ClockAssumption DEF IInv, TypeOK, NameTypeOK, SessionsTypeOK, Labels, Ended
<1>2. ReqInv(r)'
  BY <1>0 DEF ReqInv, Opening
<1>3. WaitInv(r)'
  BY <1>0 DEF WaitInv, Waiting
<1>4. \A q \in Reqs : q # r => ReqInv(q)' /\ WaitInv(q)'
  <2>1. \A t \in Sessions : revokedAt'[t] \in {revokedAt[t], now}
    BY <1>0 DEF IInv, TypeOK, SessionsTypeOK
  <2>2. created \in Nat /\ \A t \in 1..created : t \in Sessions
    BY ClockAssumption DEF IInv, TypeOK, SessionsTypeOK, Sessions
  <2> QED
    BY <1>0, <2>1, <2>2, OthersStand
<1>5. \A t \in Sessions : SessionInv(t)'
  <2>1. \A t \in Sessions : AskedToEnd(t) => AskedToEnd(t)'
    BY <1>0, AskedStays DEF IInv, TypeOK, SessionsTypeOK
  <2> QED
    BY <1>0, <2>1 DEF IInv, SessionInv, Settled, Lapsed, Expiry
<1>6. OneOpenerPerSession'
  BY <1>0 DEF IInv, OneOpenerPerSession, Opening
<1> QED
  BY <1>1, <1>2, <1>3, <1>4, <1>5, <1>6 DEF IInv, TypeOK

\* So it is when the update threw after having committed.
LEMMA MarkRevokedFailsKeeps ==
    ASSUME IInv, NEW r \in Reqs, MarkRevokedFails(r)
    PROVE  IInv'
<1> USE DEF MarkRevokedFails, SetRevokedAt, Goto, nameVars
<1>0. /\ \A q \in Reqs : q # r => UNCHANGED <<pc[q], target[q], via[q], moment[q]>>
      /\ pc[r] = "marking" /\ pc' = [pc EXCEPT ![r] = "refused"]
      /\ \/ revokedAt' = revokedAt
         \/ revokedAt' = [revokedAt EXCEPT ![target[r]] = now]
      /\ target[r] \in Sessions \cap (1..created) /\ now \in Nat
  BY ClockAssumption DEF IInv, TypeOK, NameTypeOK, SessionsTypeOK, ReqInv, Sessions
<1>1. NameTypeOK' /\ SessionsTypeOK'
  BY <1>0, ClockAssumption DEF IInv, TypeOK, NameTypeOK, SessionsTypeOK, Labels, Ended
<1>2. ReqInv(r)'
  BY <1>0 DEF ReqInv, Opening
<1>3. WaitInv(r)'
  BY <1>0 DEF WaitInv, Waiting
<1>4. \A q \in Reqs : q # r => ReqInv(q)' /\ WaitInv(q)'
  <2>1. \A t \in Sessions : revokedAt'[t] \in {revokedAt[t], now}
    BY <1>0 DEF IInv, TypeOK, SessionsTypeOK
  <2>2. created \in Nat /\ \A t \in 1..created : t \in Sessions
    BY ClockAssumption DEF IInv, TypeOK, SessionsTypeOK, Sessions
  <2> QED
    BY <1>0, <2>1, <2>2, OthersStand
<1>5. \A t \in Sessions : SessionInv(t)'
  <2>1. \A t \in Sessions : AskedToEnd(t) => AskedToEnd(t)'
    BY <1>0, AskedStays DEF IInv, TypeOK, SessionsTypeOK
  <2> QED
    BY <1>0, <2>1 DEF IInv, SessionInv, Settled, Lapsed, Expiry
<1>6. OneOpenerPerSession'
  BY <1>0 DEF IInv, OneOpenerPerSession, Opening
<1> QED
  BY <1>1, <1>2, <1>3, <1>4, <1>5, <1>6 DEF IInv, TypeOK

\* A registration that is mined, or reverts, was awaited by the one request that may
\* name the session: no answer about the name is cached, and nobody waits for one.
LEMMA RegisterMinedKeeps ==
    ASSUME IInv, NEW s \in Sessions, NEW reverts \in BOOLEAN, RegisterMined(s, reverts),
           UNCHANGED <<reqVars, rowVars, handed, harness, restarts>>
    PROVE  IInv'
<1> USE ClockAssumption DEF reqVars, rowVars
<1>0. /\ name[s] = "sent" /\ name'[s] \in {"none", "held"}
      /\ \A t \in Sessions : t # s => name'[t] = name[t]
      /\ UNCHANGED <<now, expiresAt, burntAt, liveness>>
  BY DEF RegisterMined, IInv, TypeOK, NameTypeOK
<1>1. NameTypeOK' /\ SessionsTypeOK'
  BY DEF RegisterMined, IInv, TypeOK, NameTypeOK, SessionsTypeOK
<1>2. \A q \in Reqs : target[q] \in 1..created => target[q] \in Sessions
  BY DEF IInv, TypeOK, SessionsTypeOK, Sessions
<1>3. \A q \in Reqs : ReqInv(q)'
  BY <1>0, <1>2 DEF IInv, ReqInv, Opening, Settled
<1>4. \A q \in Reqs : WaitInv(q)'
  <2> TAKE q \in Reqs
  <2>1. WaitInv(q) /\ ReqInv(q)
    BY DEF IInv
  <2>2. pc[q] \in Waiting => target[q] \in Sessions /\ target[q] # s
    BY <1>0, <1>2, <2>1 DEF IInv, WaitInv, ReqInv, SessionInv, Settled
  <2> QED
    BY <1>0, <2>1, <2>2 DEF WaitInv, Waiting, Lapsed, Expiry
<1>5. \A t \in Sessions : SessionInv(t)'
  <2> TAKE t \in Sessions
  <2>1. SessionInv(t) /\ (AskedToEnd(t) => AskedToEnd(t)')
    BY DEF IInv, AskedToEnd
  <2>2. CASE t = s
    <3>1. liveness'[t] = Nothing
      BY <1>0, <2>1, <2>2 DEF SessionInv, Settled
    <3> QED
      BY <1>0, <2>1, <2>2, <3>1 DEF SessionInv, Settled
  <2>3. CASE t # s
    BY <1>0, <2>1, <2>3 DEF SessionInv, Settled, Lapsed, Expiry
  <2> QED
    BY <2>2, <2>3
<1>6. OneOpenerPerSession'
  BY DEF IInv, OneOpenerPerSession
<1> QED
  BY <1>1, <1>3, <1>4, <1>5, <1>6 DEF IInv, TypeOK

\* Whatever the chain does to a name, it is mined or unregistered.
LEMMA NameChangesKeeps ==
    ASSUME IInv, NEW s \in Sessions, NameChanges(s)
    PROVE  IInv'
<1>0. UNCHANGED <<reqVars, rowVars, handed, harness, restarts>>
  BY DEF NameChanges
<1>1. CASE RegisterMined(s, FALSE) \/ RegisterMined(s, TRUE)
  BY <1>0, <1>1, RegisterMinedKeeps
<1>2. CASE OwnerUnregisters(s)
  <2>1. /\ Unregistered(s)
        /\ UNCHANGED <<now, expiresAt, published, liveness, pc, target, via, moment>>
        /\ UNCHANGED <<created, openedBy, revokedAt, exhausted, named, handed>>
    BY <1>0, <1>2 DEF OwnerUnregisters, reqVars, rowVars
  <2>2. /\ NameTypeOK' /\ OneOpenerPerSession'
        /\ \A q \in Reqs : ReqInv(q)' /\ WaitInv(q)'
        /\ \A t \in Sessions : SessionInv(t)'
    BY <2>1, UnregisteredKeeps
  <2>3. SessionsTypeOK'
    BY <1>0 DEF IInv, TypeOK, SessionsTypeOK, reqVars, rowVars
  <2> QED
    BY <2>2, <2>3 DEF IInv, TypeOK
<1> QED
  BY <1>1, <1>2 DEF NameChanges

\* Time passes: what has lapsed stays lapsed, and no read waits past its timeout.
LEMMA TickKeeps ==
    ASSUME IInv, Tick
    PROVE  IInv'
<1> USE ReqsAssumption, ClockAssumption, AnswerAssumption
<1>0. /\ now' = now + 1 /\ now \in Nat /\ now' \in 0..MaxTime
      /\ UNCHANGED <<expiresAt, name, burntAt, published, liveness>>
      /\ UNCHANGED <<pc, target, via, moment>>
      /\ UNCHANGED <<created, openedBy, revokedAt, exhausted, named>>
      /\ UNCHANGED <<handed, harness, restarts>>
  BY DEF Tick, reqVars, rowVars, IInv, TypeOK, NameTypeOK
<1>1. NameTypeOK'
  BY <1>0 DEF IInv, TypeOK, NameTypeOK
<1>2. SessionsTypeOK'
  BY <1>0 DEF IInv, TypeOK, SessionsTypeOK
<1>a. \A s \in Sessions : Lapsed(s) => Lapsed(s)'
  BY <1>0, <1>1, <1>2, LapsedStays DEF IInv, TypeOK
<1>b. \A s \in Sessions : /\ Settled(s) => Settled(s)'
                          /\ AskedToEnd(s) => AskedToEnd(s)'
  BY <1>0 DEF Settled, AskedToEnd
<1>3. \A q \in Reqs : ReqInv(q)'
  <2> TAKE q \in Reqs
  <2>1. ReqInv(q) /\ (target[q] \in 1..created => target[q] \in Sessions)
    BY DEF IInv, TypeOK, SessionsTypeOK, Sessions
  <2> QED
    BY <1>0, <1>b, <2>1 DEF ReqInv, Opening
<1>4. \A q \in Reqs : WaitInv(q)'
  <2> TAKE q \in Reqs
  <2>1. WaitInv(q) /\ (pc[q] \in Waiting => target[q] \in Sessions)
    BY DEF IInv, TypeOK, SessionsTypeOK, WaitInv
  <2>2. pc[q] \in Waiting => moment[q] <= now + 1 /\ now + 1 <= moment[q] + ReadTimeout
    <3>1. pc[q] \in Waiting => now - moment[q] < ReadTimeout /\ moment[q] <= now
      BY <2>1 DEF Tick, WaitInv
    <3>2. moment[q] \in Nat
      BY DEF IInv, TypeOK, SessionsTypeOK
    <3> QED
      BY <1>0, <3>1, <3>2
  <2> QED
    BY <1>0, <1>a, <2>1, <2>2 DEF WaitInv, Waiting
<1>5. \A s \in Sessions : SessionInv(s)'
  <2> TAKE s \in Sessions
  <2>1. SessionInv(s) /\ (burntAt[s] # Nothing => burntAt[s] \in Nat)
                      /\ (liveness[s] # Nothing => liveness[s].at \in Nat)
    BY DEF IInv, TypeOK, NameTypeOK, Answer
  <2>2. burntAt[s] # Nothing => burntAt[s] <= now'
    BY <1>0, <2>1 DEF SessionInv
  <2>3. liveness[s] # Nothing => liveness[s].at <= now'
    BY <1>0, <2>1 DEF SessionInv
  <2> QED
    BY <1>0, <1>a, <1>b, <2>1, <2>2, <2>3 DEF SessionInv
<1>6. OneOpenerPerSession'
  BY <1>0 DEF IInv, OneOpenerPerSession
<1> QED
  BY <1>1, <1>2, <1>3, <1>4, <1>5, <1>6 DEF IInv, TypeOK

\* After a restart nothing is cached and nothing is under way.
LEMMA RestartKeeps ==
    ASSUME IInv, Restart
    PROVE  IInv'
<1> USE ReqsAssumption, ClockAssumption, AnswerAssumption
<1>0. /\ UNCHANGED <<now, expiresAt, name, burntAt, published>>
      /\ UNCHANGED <<target, via, moment>>
      /\ UNCHANGED <<created, openedBy, revokedAt, exhausted, named>>
      /\ UNCHANGED <<handed, harness>>
      /\ liveness' = [s \in Sessions |-> Nothing]
      /\ pc' = [r \in Reqs |-> IF pc[r] \in Running THEN "refused" ELSE pc[r]]
      /\ restarts < MaxRestarts /\ restarts' = restarts + 1
  BY DEF Restart, NameRestart, rowVars
<1>1. NameTypeOK'
  BY <1>0 DEF IInv, TypeOK, NameTypeOK
<1>2. SessionsTypeOK'
  BY <1>0 DEF IInv, TypeOK, SessionsTypeOK, Labels, Ended
<1>a. \A q \in Reqs : pc'[q] \notin Running
  BY <1>0 DEF Running, Opening, Waiting
<1>b. Opening \subseteq Running /\ Waiting \subseteq Running
      /\ {"forwarding", "admitted", "burning", "burnt"} \subseteq Running
      /\ {"marking", "finding", "creating"} \subseteq Running
      /\ {"registering", "mining", "recording", "naming"} \subseteq Running
  BY DEF Running, Opening
<1>3. \A q \in Reqs : ReqInv(q)'
  <2> TAKE q \in Reqs
  <2>1. pc'[q] = "new" => pc[q] = "new"
    BY <1>0
  <2> QED
    BY <1>0, <1>a, <1>b, <2>1 DEF IInv, ReqInv
<1>4. \A q \in Reqs : WaitInv(q)'
  BY <1>a, <1>b DEF WaitInv
<1>5. \A s \in Sessions : SessionInv(s)'
  <2> TAKE s \in Sessions
  <2>1. liveness'[s] = Nothing /\ SessionInv(s)
    BY <1>0 DEF IInv
  <2>2. Settled(s)' <=> Settled(s)
    BY <1>0 DEF Settled, Lapsed, Expiry
  <2> QED
    BY <1>0, <2>1, <2>2 DEF SessionInv
<1>6. OneOpenerPerSession'
  BY <1>a, <1>b DEF OneOpenerPerSession
<1> QED
  BY <1>1, <1>2, <1>3, <1>4, <1>5, <1>6 DEF IInv, TypeOK

\* At the start there is no row, no name, no request.
LEMMA InitHolds == Init => IInv
<1> SUFFICES ASSUME Init PROVE IInv
  OBVIOUS
<1> USE ReqsAssumption, ClockAssumption, AnswerAssumption DEF Init, NameInit
<1>1. TypeOK
  BY DEF TypeOK, NameTypeOK, SessionsTypeOK, Labels, Keepers
<1>2. \A r \in Reqs : pc[r] = "new" /\ "new" \notin Running
  BY DEF Running, Opening, Waiting
<1>3. \A r \in Reqs : ReqInv(r) /\ WaitInv(r)
  BY <1>2 DEF ReqInv, WaitInv, Opening, Waiting
<1>4. \A s \in Sessions : SessionInv(s)
  BY DEF SessionInv
<1>5. OneOpenerPerSession
  BY <1>2 DEF OneOpenerPerSession, Opening
<1> QED
  BY <1>1, <1>3, <1>4, <1>5 DEF IInv

\* Doing nothing changes nothing.
LEMMA StutterKeeps ==
    ASSUME IInv, UNCHANGED vars
    PROVE  IInv'
<1>0. /\ UNCHANGED <<now, expiresAt, name, burntAt, published, liveness>>
      /\ UNCHANGED <<pc, target, via, moment>>
      /\ UNCHANGED <<created, openedBy, revokedAt, exhausted, named>>
      /\ UNCHANGED <<handed, harness, restarts>>
  BY DEF vars, nameVars, reqVars, rowVars
<1>1. NameTypeOK' /\ SessionsTypeOK'
  BY <1>0 DEF IInv, TypeOK, NameTypeOK, SessionsTypeOK
<1>2. \A q \in Reqs : ReqInv(q)' /\ WaitInv(q)'
  BY <1>0 DEF IInv, ReqInv, WaitInv, Settled, Lapsed, Expiry
<1>3. \A s \in Sessions : SessionInv(s)'
  BY <1>0 DEF IInv, SessionInv, AskedToEnd, Settled, Lapsed, Expiry
<1>4. OneOpenerPerSession'
  BY <1>0 DEF IInv, OneOpenerPerSession
<1> QED
  BY <1>1, <1>2, <1>3, <1>4 DEF IInv, TypeOK

\* Every step of the program keeps the invariant.
LEMMA StepKeeps == IInv /\ [Next]_vars => IInv'
<1> SUFFICES ASSUME IInv, [Next]_vars PROVE IInv'
  OBVIOUS
<1>1. ASSUME NEW r \in Reqs, ReqStep(r) PROVE IInv'
  BY <1>1, VerifyWalletKeeps, EnsureSessionKeeps, CreateSessionFailsKeeps,
     SendRegisterKeeps, RegisterReceiptKeeps, RecordsReceiptKeeps, RegisterThrowsKeeps,
     NameSessionKeeps, NameSessionFailsKeeps, IssueTokenKeeps, ReadStateKeeps,
     NameReadKeeps, ReadFailsKeeps, ServeKeeps, SendBurnKeeps, BurnMinedKeeps,
     BurnReceiptKeeps, BurnThrowsKeeps, MarkRevokedKeeps,
     MarkRevokedFailsKeeps, CreateSessionKeeps, LoadSessionKeeps, FindHarnessKeeps,
     SetHarnessKeeps
     DEF ReqStep
<1>2. ASSUME NEW s \in Sessions, NameChanges(s) PROVE IInv'
  BY <1>2, NameChangesKeeps
<1>3. CASE Tick
  BY <1>3, TickKeeps
<1>4. CASE Restart
  BY <1>4, RestartKeeps
<1>5. CASE UNCHANGED vars
  BY <1>5, StutterKeeps
<1> QED
  BY <1>1, <1>2, <1>3, <1>4, <1>5 DEF Next

\* The invariant of Sessions holds in every reachable state.
THEOREM SessionInvariantHolds == Spec => []IInv
<1>1. Init => IInv
  BY InitHolds
<1>2. IInv /\ [Next]_vars => IInv'
  BY StepKeeps
<1> QED
  BY <1>1, <1>2, PTL DEF Spec

\* No caller is locked out of a live session by the cache (session-names.ts:97)
\* unless somebody asked to end it: no other answer "gone" is wrong.
THEOREM GoneIsGoneHolds == Spec => []GoneIsGone
<1>1. IInv => GoneIsGone
  BY DEF IInv, SessionInv, GoneIsGone
<1> QED
  BY <1>1, SessionInvariantHolds, PTL

\* A request is let in by its row alone, or by the answer, or the failure, of a read
\* of the registry; by no other step.
LEMMA AdmittedBy ==
    ASSUME IInv, [Next]_vars, NEW r \in Reqs, Admits(r)
    PROVE  (\E s \in Sessions : LoadSession(r, s)) \/ NameRead(r) \/ ReadFails(r)
<1> USE DEF Admits, Goto
<1>0. pc \in [Reqs -> Labels]
  BY DEF IInv, TypeOK, SessionsTypeOK
<1>1. ASSUME NEW q \in Reqs, ReqStep(q)
      PROVE  (\E s \in Sessions : LoadSession(r, s)) \/ NameRead(r) \/ ReadFails(r)
  <2>1. CASE VerifyWallet(q) \/ EnsureSession(q) \/ CreateSessionFails(q)
    <3>1. \E l \in {"creating", "refused", "forwarding"} : pc' = [pc EXCEPT ![q] = l]
      BY <2>1 DEF VerifyWallet, EnsureSession, CreateSessionFails
    <3> QED
      BY <1>0, <3>1
  <2>2. CASE SendRegister(q) \/ RegisterReceipt(q) \/ RecordsReceipt(q) \/ RegisterThrows(q)
    BY <1>0, <2>2 DEF SendRegister, RegisterReceipt, RecordsReceipt, RegisterThrows
  <2>3. CASE NameSession(q) \/ NameSessionFails(q) \/ IssueToken(q)
    BY <1>0, <2>3 DEF NameSession, NameSessionFails, IssueToken
  <2>4. CASE \/ ReadState(q) \/ Serve(q) \/ MarkRevoked(q) \/ MarkRevokedFails(q)
             \/ SendBurn(q) \/ BurnMined(q) \/ BurnReceipt(q) \/ BurnThrows(q)
    <3>1. \E l \in {"readHeld", "readGone", "answered", "burning", "burnt", "marking", "refused"} :
             pc' = [pc EXCEPT ![q] = l]
      BY <2>4 DEF ReadState, Serve, SendBurn, BurnMined, BurnReceipt, BurnThrows,
                  MarkRevoked, MarkRevokedFails
    <3> QED
      BY <1>0, <3>1
  <2>5. CASE NameRead(q) \/ ReadFails(q)
    <3>1. \E l \in {"admitted", "refused"} : pc' = [pc EXCEPT ![q] = l]
      BY <2>5 DEF NameRead, ReadFails
    <3>2. q = r
      BY <1>0, <3>1
    <3> QED
      BY <2>5, <3>2
  <2>6. ASSUME NEW s \in Sessions, CreateSession(q, s) \/ LoadSession(q, s)
        PROVE  \E t \in Sessions : LoadSession(r, t)
    <3>1. CASE CreateSession(q, s)
      BY <1>0, <3>1 DEF CreateSession
    <3>2. CASE LoadSession(q, s)
      <4>1. \E l \in {"admitted", "refused", "reading"} : pc' = [pc EXCEPT ![q] = l]
        BY <3>2 DEF LoadSession
      <4>2. q = r
        BY <1>0, <4>1
      <4> QED
        BY <3>2, <4>2
    <3> QED
      BY <2>6, <3>1, <3>2
  <2>7. ASSUME NEW h \in HarnessTokens, FindHarness(q, h) \/ SetHarness(q, h)
        PROVE  FALSE
    <3>1. \E l \in {"finding", "refused", "answered"} : pc' = [pc EXCEPT ![q] = l]
      BY <2>7 DEF FindHarness, SetHarness
    <3> QED
      BY <1>0, <3>1
  <2> QED
    BY <1>1, <2>1, <2>2, <2>3, <2>4, <2>5, <2>6, <2>7 DEF ReqStep
<1>2. ASSUME NEW s \in Sessions, NameChanges(s) PROVE FALSE
  BY <1>2 DEF NameChanges, reqVars
<1>3. ~Tick /\ ~(UNCHANGED vars)
  BY DEF Tick, reqVars, vars
<1>4. ~Restart
  <2>1. SUFFICES ASSUME Restart PROVE FALSE
    OBVIOUS
  <2>2. pc'[r] = IF pc[r] \in Running THEN "refused" ELSE pc[r]
    BY <2>1 DEF Restart
  <2> QED
    BY <2>2
<1> QED
  BY <1>1, <1>2, <1>3, <1>4 DEF Next

\* What letting a request in by its row says of the session.
LEMMA AdmittedByRow ==
    ASSUME IInv, NEW r \in Reqs, NEW s \in Sessions, LoadSession(r, s), Admits(r)
    PROVE  /\ target'[r] = s /\ RowOpen(s)
           /\ s \in named => Cached(s) /\ liveness[s].live = TRUE
<1> USE DEF Admits, Goto
<1>0. pc \in [Reqs -> Labels] /\ target \in [Reqs -> Sessions \cup {Nothing}]
  BY DEF IInv, TypeOK, SessionsTypeOK
<1>1. target'[r] = s
  BY <1>0 DEF LoadSession
<1>2. ~(pc' = [pc EXCEPT ![r] = "refused"]) /\ ~(pc' = [pc EXCEPT ![r] = "reading"])
  BY <1>0
<1>3. /\ RowOpen(s)
      /\ s \in named =>
            /\ Cached(s)
            /\ pc' = [pc EXCEPT ![r] = IF liveness[s].live THEN "admitted" ELSE "refused"]
  BY <1>2 DEF LoadSession
<1>4. s \in named => liveness[s].live
  BY <1>2, <1>3
<1>5. s \in named => liveness[s].live \in BOOLEAN
  <2>1. liveness[s] \in Answer \cup {Nothing}
    BY DEF IInv, TypeOK, NameTypeOK
  <2>2. s \in named => liveness[s] \in Answer
    BY <1>3, <2>1 DEF Cached
  <2> QED
    BY <2>2 DEF Answer
<1> QED
  BY <1>1, <1>3, <1>4, <1>5

\* What letting a request in by an answer, or without one, says of the session.
LEMMA AdmittedByRead ==
    ASSUME IInv, NEW r \in Reqs, NameRead(r) \/ ReadFails(r), Admits(r)
    PROVE  /\ target'[r] = target[r] /\ target[r] \in Sessions
           /\ pc[r] \in Waiting /\ WaitInv(r)
           /\ NameRead(r) => StillLive(r)
<1> USE DEF Admits, Goto
<1>0. pc \in [Reqs -> Labels]
  BY DEF IInv, TypeOK, SessionsTypeOK
<1>1. target'[r] = target[r] /\ pc[r] \in Waiting /\ WaitInv(r)
  BY DEF NameRead, ReadFails, Waiting, IInv
<1>2. target[r] \in Sessions
  <2>1. target[r] \in 1..created
    BY <1>1 DEF IInv, ReqInv
  <2> QED
    BY <2>1, ClockAssumption DEF IInv, TypeOK, SessionsTypeOK, Sessions
<1>3. NameRead(r) => StillLive(r)
  BY <1>0 DEF NameRead
<1> QED
  BY <1>1, <1>2, <1>3

\* Revoking a session ends it, one read of the registry later at the latest
\* (sessions.ts:217), whether or not its name was burnt.
THEOREM RevocationEndsSessionHolds == Spec => RevocationEndsSession
<1>1. ASSUME IInv, [Next]_vars, NEW r \in Reqs, Admits(r)
      PROVE  ~LongSince(revokedAt[target'[r]], ReadTimeout)
  <2> USE <1>1
  <2>1. ASSUME NEW s \in Sessions, LoadSession(r, s)
        PROVE  ~LongSince(revokedAt[target'[r]], ReadTimeout)
    BY <2>1, AdmittedByRow DEF RowOpen, LongSince
  <2>2. CASE NameRead(r) \/ ReadFails(r)
    <3>1. /\ target'[r] = target[r] /\ target[r] \in Sessions
          /\ pc[r] \in Waiting /\ WaitInv(r)
      BY <2>2, AdmittedByRead
    <3>2. now \in Nat /\ moment[r] \in Nat /\ revokedAt[target[r]] \in Nat \cup {Nothing}
      BY <3>1 DEF IInv, TypeOK, NameTypeOK, SessionsTypeOK
    <3> QED
      BY <3>1, <3>2, ClockAssumption DEF WaitInv, LongSince
  <2> QED
    BY <2>1, <2>2, AdmittedBy
<1>2. IInv /\ [Next]_vars =>
         [\A r \in Reqs : Admits(r) => ~LongSince(revokedAt[target'[r]], ReadTimeout)]_vars
  BY <1>1
<1> QED
  BY <1>2, SessionInvariantHolds, PTL DEF Spec, RevocationEndsSession

\* Burning a session's name ends it, one read and one cache lifetime later at the
\* latest (session-names.ts:97), in whatever order late answers reach the cache.
THEOREM BurnEndsNamedSessionHolds == Spec => BurnEndsNamedSession
<1> DEFINE Late(r) == /\ target'[r] \in named
                      /\ LongSince(burntAt[target'[r]], LIVENESS_TTL_MS + ReadTimeout)
<1>1. ASSUME IInv, [Next]_vars, NEW r \in Reqs, Admits(r), ~ReadFails(r)
      PROVE  ~Late(r)
  <2> USE <1>1, ClockAssumption
  <2>1. ASSUME NEW s \in Sessions, LoadSession(r, s)
        PROVE  ~Late(r)
    <3>1. target'[r] = s /\ (s \in named => Cached(s) /\ liveness[s].live = TRUE)
      BY <2>1, AdmittedByRow
    <3>2. SessionInv(s) /\ now \in Nat /\ burntAt[s] \in Nat \cup {Nothing}
      BY DEF IInv, TypeOK, NameTypeOK
    <3>3. liveness[s] # Nothing => liveness[s].at \in Nat
      BY DEF IInv, TypeOK, NameTypeOK, Answer
    <3>4. ASSUME s \in named, burntAt[s] # Nothing
          PROVE  ~(now - burntAt[s] > LIVENESS_TTL_MS + ReadTimeout)
      <4>1. liveness[s] # Nothing /\ now - liveness[s].at < LIVENESS_TTL_MS
        BY <3>1, <3>4 DEF Cached
      <4>2. liveness[s].at <= burntAt[s] + ReadTimeout
        BY <3>1, <3>2, <3>4, <4>1 DEF SessionInv
      <4> QED
        BY <3>2, <3>3, <3>4, <4>1, <4>2
    <3> QED
      BY <3>1, <3>4 DEF LongSince
  <2>2. CASE NameRead(r)
    <3>1. /\ target'[r] = target[r] /\ target[r] \in Sessions
          /\ WaitInv(r) /\ pc[r] = "readHeld"
      BY <2>2, AdmittedByRead DEF StillLive
    <3>2. now \in Nat /\ moment[r] \in Nat /\ burntAt[target[r]] \in Nat \cup {Nothing}
      BY <3>1 DEF IInv, TypeOK, NameTypeOK, SessionsTypeOK
    <3> QED
      BY <3>1, <3>2 DEF WaitInv, Waiting, LongSince
  <2> QED
    BY <2>1, <2>2, AdmittedBy
<1>2. IInv /\ [Next]_vars =>
         [\A r \in Reqs : Admits(r) /\ ~ReadFails(r) => ~Late(r)]_vars
  BY <1>1
<1> QED
  BY <1>2, SessionInvariantHolds, PTL DEF Spec, BurnEndsNamedSession

\* Nobody is let in past expiresAt, though the row, the token and the name compare
\* it at two precisions and the name after a wait (packages/ens/sessions.ts:213);
\* but one whose question to the registry fails, at most one read timeout late.
THEOREM ExpiryEndsSessionHolds == Spec => ExpiryEndsSession
<1> DEFINE InTime(r) ==
              now < expiresAt[target'[r]] + (IF ReadFails(r) THEN ReadTimeout ELSE 0)
<1>1. ASSUME IInv, [Next]_vars, NEW r \in Reqs, Admits(r)
      PROVE  InTime(r)
  <2> USE <1>1, ClockAssumption
  <2>1. ASSUME NEW s \in Sessions, LoadSession(r, s)
        PROVE  InTime(r)
    <3>1. target'[r] = s /\ expiresAt[s] > now
      BY <2>1, AdmittedByRow DEF RowOpen
    <3>2. now \in Nat /\ expiresAt[s] \in Nat
      BY DEF IInv, TypeOK, NameTypeOK
    <3> QED
      BY <3>1, <3>2
  <2>2. CASE NameRead(r) /\ ~ReadFails(r)
    <3>1. target'[r] = target[r] /\ target[r] \in Sessions /\ StillLive(r)
      BY <2>2, AdmittedByRead
    <3>2. now < expiresAt[target[r]]
      BY <3>1, UnlapsedIsOpen DEF StillLive, IInv
    <3>3. now \in Nat /\ expiresAt[target[r]] \in Nat
      BY <3>1 DEF IInv, TypeOK, NameTypeOK
    <3> QED
      BY <2>2, <3>1, <3>2, <3>3
  <2>3. CASE ReadFails(r)
    <3>1. /\ target'[r] = target[r] /\ target[r] \in Sessions
          /\ pc[r] \in Waiting /\ WaitInv(r)
      BY <2>3, AdmittedByRead
    <3>2. now \in Nat /\ expiresAt[target[r]] \in Nat /\ moment[r] \in Nat
      BY <3>1 DEF IInv, TypeOK, NameTypeOK, SessionsTypeOK
    <3>3. now <= moment[r] + ReadTimeout /\ moment[r] < expiresAt[target[r]]
      BY <3>1 DEF WaitInv
    <3> QED
      BY <2>3, <3>1, <3>2, <3>3
  <2> QED
    BY <2>1, <2>2, <2>3, AdmittedBy
<1>2. IInv /\ [Next]_vars => [\A r \in Reqs : Admits(r) => InTime(r)]_vars
  BY <1>1
<1> QED
  BY <1>2, SessionInvariantHolds, PTL DEF Spec, ExpiryEndsSession

\* Both parts of a credential's allowance are finite, and what one may gain the other loses.
LEMMA OneForOne ==
    ASSUME NEW S, NEW T, NEW S1, NEW T1, NEW x, NEW y, IsFiniteSet(S), IsFiniteSet(T),
           \/ S1 \subseteq S /\ T1 \subseteq T
           \/ y \in T /\ S1 \subseteq S \cup {x} /\ T1 \subseteq T \ {y}
    PROVE  Cardinality(S1) + Cardinality(T1) <= Cardinality(S) + Cardinality(T)
<1>0. Cardinality(S) \in Nat /\ Cardinality(T) \in Nat
  BY FS_CardinalityType
<1>1. CASE S1 \subseteq S /\ T1 \subseteq T
  <2>1. /\ IsFiniteSet(S1) /\ Cardinality(S1) <= Cardinality(S)
        /\ IsFiniteSet(T1) /\ Cardinality(T1) <= Cardinality(T)
    BY <1>1, FS_Subset
  <2>2. Cardinality(S1) \in Nat /\ Cardinality(T1) \in Nat
    BY <2>1, FS_CardinalityType
  <2> QED
    BY <1>0, <2>1, <2>2
<1>2. CASE y \in T /\ S1 \subseteq S \cup {x} /\ T1 \subseteq T \ {y}
  <2>1. /\ IsFiniteSet(S \cup {x}) /\ IsFiniteSet(T \ {y})
        /\ Cardinality(S \cup {x}) <= Cardinality(S) + 1
        /\ Cardinality(T \ {y}) = Cardinality(T) - 1
    <3>1. /\ IsFiniteSet(S \cup {x})
          /\ Cardinality(S \cup {x}) = IF x \in S THEN Cardinality(S) ELSE Cardinality(S) + 1
      BY FS_AddElement
    <3>2. /\ IsFiniteSet(T \ {y})
          /\ Cardinality(T \ {y}) = IF y \in T THEN Cardinality(T) - 1 ELSE Cardinality(T)
      BY FS_RemoveElement
    <3> QED
      BY <1>0, <1>2, <3>1, <3>2
  <2>2. /\ IsFiniteSet(S1) /\ Cardinality(S1) <= Cardinality(S \cup {x})
        /\ IsFiniteSet(T1) /\ Cardinality(T1) <= Cardinality(T \ {y})
    BY <1>2, <2>1, FS_Subset
  <2>3. /\ Cardinality(S1) \in Nat /\ Cardinality(T1) \in Nat
        /\ Cardinality(S \cup {x}) \in Nat /\ Cardinality(T \ {y}) \in Nat
    BY <2>1, <2>2, FS_CardinalityType
  <2> QED
    BY <1>0, <2>1, <2>2, <2>3
<1> QED
  BY <1>1, <1>2

\* A credential's sessions and the requests that may open one are finite in number.
LEMMA AllowanceIsFinite ==
    ASSUME IInv, NEW h \in HarnessTokens
    PROVE  IsFiniteSet(OpenedWith(h)) /\ IsFiniteSet(MayOpen(h))
<1>1. created \in Int
  BY DEF IInv, TypeOK, SessionsTypeOK
<1>2. OpenedWith(h) \subseteq 1..created /\ IsFiniteSet(1..created)
  BY <1>1, FS_Interval DEF OpenedWith
<1>3. MayOpen(h) \subseteq Reqs /\ IsFiniteSet(Reqs)
  BY ReqsAssumption DEF MayOpen
<1> QED
  BY <1>2, <1>3, FS_Subset

\* A request that inserts a row for a credential may not insert another.
LEMMA InsertSpends ==
    ASSUME IInv, NEW h \in HarnessTokens, NEW q \in Reqs, NEW s \in Sessions,
           pc[q] = "creating", InsertRow(q, s), UNCHANGED via,
           pc' = [pc EXCEPT ![q] = "registering"] \/ pc' = [pc EXCEPT ![q] = "refused"]
    PROVE  \/ OpenedWith(h)' \subseteq OpenedWith(h) /\ MayOpen(h)' \subseteq MayOpen(h)
           \/ /\ q \in MayOpen(h)
              /\ OpenedWith(h)' \subseteq OpenedWith(h) \cup {s}
              /\ MayOpen(h)' \subseteq MayOpen(h) \ {q}
<1> USE DEF OpenedWith, MayOpen
<1>0. /\ pc \in [Reqs -> Labels] /\ openedBy \in [Sessions -> Keepers]
      /\ created \in Nat /\ created <= MaxSessions /\ MaxSessions \in Nat
  BY ClockAssumption DEF IInv, TypeOK, SessionsTypeOK
<1>1. /\ s = created + 1 /\ created' = s
      /\ openedBy' = [openedBy EXCEPT ![s] = via[q]]
  BY DEF InsertRow
<1>2. MayOpen(h)' \subseteq MayOpen(h) \ {q}
  <2>1. \A r \in Reqs : pc'[r] \in {"finding", "creating"} => r # q /\ pc'[r] = pc[r]
    BY <1>0
  <2> QED
    BY <2>1
<1>3. \A t \in 1..created' : t # s => t \in 1..created /\ openedBy'[t] = openedBy[t]
  BY <1>0, <1>1 DEF Sessions
<1>4. openedBy'[s] = via[q]
  BY <1>0, <1>1
<1>5. OpenedWith(h)' \subseteq OpenedWith(h) \cup {s}
  BY <1>3
<1>6. CASE via[q] = h
  BY <1>2, <1>5, <1>6
<1>7. CASE via[q] # h
  <2>1. OpenedWith(h)' \subseteq OpenedWith(h)
    BY <1>3, <1>4, <1>7
  <2> QED
    BY <1>2, <2>1
<1> QED
  BY <1>6, <1>7

\* A step that inserts no row, and brings no request under h to the point of
\* inserting one, leaves h's allowance at most what it was.
LEMMA NothingGained ==
    ASSUME NEW h \in HarnessTokens, UNCHANGED <<created, openedBy>>,
           \A r \in Reqs : pc'[r] \in {"finding", "creating"} /\ via'[r] = h
                              => pc[r] \in {"finding", "creating"} /\ via[r] = h
    PROVE  OpenedWith(h)' \subseteq OpenedWith(h) /\ MayOpen(h)' \subseteq MayOpen(h)
BY DEF OpenedWith, MayOpen

\* Once its credential is revoked, a harness gains no further request that may open a
\* session, and each that is left opens at most one.
LEMMA AllowanceShrinks ==
    ASSUME IInv, [Next]_vars, NEW h \in HarnessTokens, harness[h] = "revoked"
    PROVE  \E x, y :
              \/ OpenedWith(h)' \subseteq OpenedWith(h) /\ MayOpen(h)' \subseteq MayOpen(h)
              \/ /\ y \in MayOpen(h)
                 /\ OpenedWith(h)' \subseteq OpenedWith(h) \cup {x}
                 /\ MayOpen(h)' \subseteq MayOpen(h) \ {y}
<1> DEFINE Less == \/ OpenedWith(h)' \subseteq OpenedWith(h) /\ MayOpen(h)' \subseteq MayOpen(h)
                   \/ \E x, y : /\ y \in MayOpen(h)
                                /\ OpenedWith(h)' \subseteq OpenedWith(h) \cup {x}
                                /\ MayOpen(h)' \subseteq MayOpen(h) \ {y}
<1>0. pc \in [Reqs -> Labels] /\ via \in [Reqs -> Keepers]
  BY DEF IInv, TypeOK, SessionsTypeOK
<1>1. ASSUME NEW q \in Reqs, ReqStep(q) PROVE Less
  <2>1. CASE VerifyWallet(q)
    <3>1. /\ UNCHANGED <<via, created, openedBy>> /\ via[q] = "wallet"
          /\ \A r \in Reqs : r # q => pc'[r] = pc[r]
      BY <1>0, <2>1 DEF VerifyWallet, Goto, rowVars, IInv, ReqInv
    <3> QED
      BY <3>1, NothingGained, ReqsAssumption
  <2>2. CASE EnsureSession(q)
    <3>1. /\ UNCHANGED <<via, created, openedBy>> /\ pc[q] = "finding"
          /\ \A r \in Reqs : r # q => pc'[r] = pc[r]
      <4>1. \E l \in {"creating", "forwarding"} : pc' = [pc EXCEPT ![q] = l]
        BY <2>2 DEF EnsureSession, Goto
      <4> QED
        BY <1>0, <2>2, <4>1 DEF EnsureSession, rowVars
    <3> QED
      BY <3>1, NothingGained
  <2>3. CASE CreateSessionFails(q)
    <3>1. /\ UNCHANGED via /\ pc[q] = "creating" /\ pc' = [pc EXCEPT ![q] = "refused"]
          /\ UNCHANGED <<rowVars, expiresAt>> \/ \E s \in Sessions : InsertRow(q, s)
      BY <2>3 DEF CreateSessionFails, Goto
    <3>2. CASE UNCHANGED <<rowVars, expiresAt>>
      BY <1>0, <3>1, <3>2, NothingGained DEF rowVars
    <3>3. ASSUME NEW s \in Sessions, InsertRow(q, s) PROVE Less
      BY <3>1, <3>3, InsertSpends
    <3> QED
      BY <3>1, <3>2, <3>3
  <2>4. CASE SendRegister(q) \/ RegisterReceipt(q) \/ RecordsReceipt(q) \/ RegisterThrows(q)
    <3>1. /\ UNCHANGED <<via, created, openedBy>>
          /\ \E l \in {"mining", "recording", "naming", "issuing"} : pc' = [pc EXCEPT ![q] = l]
      BY <2>4
         DEF SendRegister, RegisterReceipt, RecordsReceipt, RegisterThrows, Goto,
             rowVars
    <3> QED
      BY <1>0, <3>1, NothingGained
  <2>5. CASE NameSession(q) \/ NameSessionFails(q) \/ IssueToken(q)
    <3>1. /\ UNCHANGED <<via, created, openedBy>>
          /\ \E l \in {"issuing", "refused", "answered", "forwarding"} :
                pc' = [pc EXCEPT ![q] = l]
      BY <2>5 DEF NameSession, NameSessionFails, IssueToken, Goto, rowVars
    <3> QED
      BY <1>0, <3>1, NothingGained
  <2>6. CASE ReadState(q) \/ NameRead(q) \/ ReadFails(q) \/ Serve(q)
    <3>1. /\ UNCHANGED <<via, created, openedBy>>
          /\ \E l \in {"readHeld", "readGone", "admitted", "refused", "answered"} :
                pc' = [pc EXCEPT ![q] = l]
      BY <2>6 DEF ReadState, NameRead, ReadFails, Serve, Goto, rowVars
    <3> QED
      BY <1>0, <3>1, NothingGained
  <2>7. CASE \/ SendBurn(q) \/ BurnMined(q) \/ BurnReceipt(q) \/ BurnThrows(q)
             \/ MarkRevoked(q) \/ MarkRevokedFails(q)
    <3>1. /\ UNCHANGED <<via, created, openedBy>>
          /\ \E l \in {"burning", "burnt", "marking", "answered", "refused"} :
                pc' = [pc EXCEPT ![q] = l]
      BY <2>7 DEF SendBurn, BurnMined, BurnReceipt, BurnThrows, MarkRevoked,
                  MarkRevokedFails, Goto, rowVars
    <3> QED
      BY <1>0, <3>1, NothingGained
  <2>8. ASSUME NEW s \in Sessions, CreateSession(q, s) \/ LoadSession(q, s) PROVE Less
    <3>1. CASE CreateSession(q, s)
      BY <3>1, InsertSpends DEF CreateSession, Goto
    <3>2. CASE LoadSession(q, s)
      <4>1. /\ UNCHANGED <<via, created, openedBy>>
            /\ \E l \in {"admitted", "refused", "reading"} : pc' = [pc EXCEPT ![q] = l]
        BY <3>2 DEF LoadSession, Goto, rowVars
      <4> QED
        BY <1>0, <4>1, NothingGained
    <3> QED
      BY <2>8, <3>1, <3>2
  <2>9. ASSUME NEW g \in HarnessTokens, FindHarness(q, g) \/ SetHarness(q, g) PROVE Less
    <3>1. CASE FindHarness(q, g)
      <4>1. /\ UNCHANGED <<created, openedBy>> /\ via' = [via EXCEPT ![q] = g]
            /\ \/ HarnessActive(g) /\ pc' = [pc EXCEPT ![q] = "finding"]
               \/ pc' = [pc EXCEPT ![q] = "refused"]
        BY <3>1 DEF FindHarness, Goto, rowVars
      <4>2. HarnessActive(g) => g # h
        BY DEF HarnessActive
      <4> QED
        BY <1>0, <4>1, <4>2, NothingGained
    <3>2. CASE SetHarness(q, g)
      <4>1. /\ UNCHANGED <<via, created, openedBy>>
            /\ \E l \in {"answered", "refused"} : pc' = [pc EXCEPT ![q] = l]
        BY <3>2 DEF SetHarness, Goto, rowVars
      <4> QED
        BY <1>0, <4>1, NothingGained
    <3> QED
      BY <2>9, <3>1, <3>2
  <2> QED
    BY <1>1, <2>1, <2>2, <2>3, <2>4, <2>5, <2>6, <2>7, <2>8, <2>9 DEF ReqStep
<1>2. ASSUME \/ \E s \in Sessions : NameChanges(s)
             \/ Tick
             \/ UNCHANGED vars
      PROVE  Less
  <2>1. UNCHANGED <<pc, via, created, openedBy>>
    BY <1>2 DEF NameChanges, Tick, vars, reqVars, rowVars
  <2> QED
    BY <2>1, NothingGained
<1>3. CASE Restart
  <2>1. /\ UNCHANGED <<via, created, openedBy>>
        /\ \A r \in Reqs : pc'[r] = "refused" \/ pc'[r] = pc[r]
    BY <1>3 DEF Restart, rowVars
  <2> QED
    BY <2>1, NothingGained
<1>4. Less
  BY <1>1, <1>2, <1>3 DEF Next
<1> QED
  BY <1>4

\* Revoking a harness credential ends it (harness/handler.ts:180): from then on the
\* sessions it opened and the requests that may still open one never grow together.
THEOREM RevokedHarnessWindsDownHolds == Spec => RevokedHarnessWindsDown
<1>1. ASSUME IInv, [Next]_vars, NEW h \in HarnessTokens, harness[h] = "revoked"
      PROVE  Cardinality(OpenedWith(h)') + Cardinality(MayOpen(h)')
                <= Cardinality(OpenedWith(h)) + Cardinality(MayOpen(h))
  <2>1. IsFiniteSet(OpenedWith(h)) /\ IsFiniteSet(MayOpen(h))
    BY <1>1, AllowanceIsFinite
  <2>2. PICK x, y :
           \/ OpenedWith(h)' \subseteq OpenedWith(h) /\ MayOpen(h)' \subseteq MayOpen(h)
           \/ /\ y \in MayOpen(h)
              /\ OpenedWith(h)' \subseteq OpenedWith(h) \cup {x}
              /\ MayOpen(h)' \subseteq MayOpen(h) \ {y}
    BY <1>1, AllowanceShrinks
  <2> QED
    BY <2>1, <2>2, OneForOne
<1>2. IInv /\ [Next]_vars =>
         [\A h \in HarnessTokens : harness[h] = "revoked" =>
             Cardinality(OpenedWith(h)') + Cardinality(MayOpen(h)')
                <= Cardinality(OpenedWith(h)) + Cardinality(MayOpen(h))]_vars
  BY <1>1
<1> QED
  BY <1>2, SessionInvariantHolds, PTL DEF Spec, RevokedHarnessWindsDown
===============================================================================
