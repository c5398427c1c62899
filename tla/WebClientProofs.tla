---------------------------- MODULE WebClientProofs ----------------------------
(***************************************************************************)
(* The safety properties of WebClientProps, for every number of turns,      *)
(* sessions, mishaps and visits, and all prices.  The inductive invariant   *)
(* has three parts that hardly touch: what the turns paid, which sessions   *)
(* are on their way into the browser, and the page.                        *)
(***************************************************************************)
EXTENDS WebClientProps, TLAPS

-----------------------------------------------------------------------------
(* Which sessions are on their way into the browser *)

\* A session under way is a number, so null is not.
LEMMA NullIsNotUnderWay ==
    ASSUME SessionTypeOK, JobsInv
    PROVE  Nothing \notin 1..opened /\ Nothing \notin UnderWay /\ Nothing \notin dropped
           /\ 1..opened \subseteq Sessions
<1>1. opened \in Nat /\ opened <= MaxSessions /\ MaxSessions \in Nat
  BY WebAssumption DEF SessionTypeOK
<1>2. \A s \in 1..opened : s \in Sessions
  BY <1>1 DEF Sessions
<1>3. QED
  BY <1>2, NullAssumption DEF SessionTypeOK, JobsInv

\* A step that adds neither to what is under way nor to what is known of it.
LEMMA NothingNewUnderWay ==
    ASSUME SessionTypeOK, JobsInv, opened' = opened,
           UnderWay' \subseteq UnderWay, Known' \subseteq Known \cup {Nothing},
           Ending' \subseteq 1..opened, BroughtOnce', \A j \in jobs' : JobHolds(j)
    PROVE  JobsInv'
BY NullIsNotUnderWay DEF JobsInv, JobHolds

\* What is under way after a step is what the jobs of that step bring.
LEMMA UnderWayNext ==
    /\ UnderWay' = {s \in SessionOrNull : \E i \in jobs' : Brings(i, s)}
    /\ Ending' = {s \in SessionOrNull : \E i \in jobs' : i.op = "end" /\ i.of = s}
    /\ BroughtOnce' <=>
          \A i, k \in jobs' : \A s \in SessionOrNull : Brings(i, s) /\ Brings(k, s) => i = k
BY DEF UnderWay, Ending, BroughtOnce, SessionOrNull, Sessions, Brings

\* A job that goes on as another, or ends, brings nothing it did not bring before.
LEMMA JobGoesOn ==
    ASSUME BroughtOnce, NEW j \in jobs, NEW k,
           jobs' = jobs \ {j} \/ jobs' = (jobs \ {j}) \cup {k},
           \A s \in SessionOrNull : /\ Brings(k, s) => Brings(j, s)
                                    /\ k.op = "end" /\ k.of = s => j.op = "end" /\ j.of = s
    PROVE  UnderWay' \subseteq UnderWay /\ Ending' \subseteq Ending /\ BroughtOnce'
<1>1. ASSUME NEW l \in jobs', NEW s \in SessionOrNull
      PROVE  \E i \in jobs : /\ l = i \/ (i = j /\ l = k)
                             /\ Brings(l, s) => Brings(i, s)
                             /\ l.op = "end" /\ l.of = s => i.op = "end" /\ i.of = s
  OBVIOUS
<1>2. UnderWay' \subseteq UnderWay /\ Ending' \subseteq Ending
  BY <1>1, UnderWayNext DEF UnderWay, Ending
<1>3. ASSUME NEW l \in jobs', NEW m \in jobs', NEW s \in SessionOrNull,
             Brings(l, s), Brings(m, s)
      PROVE  l = m
  BY <1>3 DEF BroughtOnce
<1>4. QED
  BY <1>2, <1>3, UnderWayNext

\* A job that is added and brings nothing, as every call does before its answer.
LEMMA JobBegins ==
    ASSUME BroughtOnce, NEW k, jobs' = jobs \cup {k}, \A s \in SessionOrNull : ~Brings(k, s)
    PROVE  /\ UnderWay' \subseteq UnderWay /\ BroughtOnce'
           /\ Ending' \subseteq Ending \cup (IF k.op = "end" THEN {k.of} ELSE {})
BY UnderWayNext DEF UnderWay, Ending, BroughtOnce

\* What a step must leave of the sessions' types, given its effect on the jobs.
SessionTypeKept ==
    /\ opened' = opened /\ closed' \subseteq Sessions
    /\ info' \in SessionInfo \cup {Nothing}
    /\ token' \in 1..opened \cup {Nothing} /\ stored' \in 1..opened \cup {Nothing}
    /\ token' \notin dropped' /\ stored' \notin dropped'

\* Steps that leave the jobs and the current session alone.
LEMMA SessionsUntouched ==
    ASSUME SessionInv, closed' \subseteq Sessions, info' \in SessionInfo \cup {Nothing},
           UNCHANGED <<opened, dropped, stored, token, jobs>>
    PROVE  SessionInv'
<1>1. SessionTypeOK' /\ DroppedStaysDropped'
  BY DEF SessionInv, SessionTypeOK, DroppedStaysDropped
<1>2. UnderWay' = UnderWay /\ Ending' = Ending /\ (BroughtOnce' <=> BroughtOnce)
  BY UnderWayNext DEF UnderWay, Ending, BroughtOnce
<1>3. JobsInv'
  BY <1>2 DEF SessionInv, JobsInv, JobHolds, Known
<1>4. QED
  BY <1>1, <1>3 DEF SessionInv

\* Steps of one job that bring nothing new.
LEMMA JobStepKeeps ==
    ASSUME SessionInv, NEW j \in jobs, NEW k \in Jobs, JobHolds(k), SessionTypeKept,
           jobs' = jobs \ {j} \/ jobs' = (jobs \ {j}) \cup {k},
           \A s \in SessionOrNull : /\ Brings(k, s) => Brings(j, s)
                                    /\ k.op = "end" /\ k.of = s => j.op = "end" /\ j.of = s,
           token' \in {token, Nothing}, dropped' \subseteq dropped \cup Ending
    PROVE  SessionInv'
<1>1. SessionTypeOK' /\ DroppedStaysDropped'
  BY DEF SessionInv, SessionTypeOK, DroppedStaysDropped, SessionTypeKept, JobsInv
<1>2. UnderWay' \subseteq UnderWay /\ Ending' \subseteq Ending /\ BroughtOnce'
  BY JobGoesOn DEF SessionInv, JobsInv
<1>3. Known' \subseteq Known \cup {Nothing}
  BY <1>2 DEF Known
<1>4. \A l \in jobs' : JobHolds(l)
  BY DEF SessionInv, JobsInv
<1>5. JobsInv'
  BY <1>2, <1>3, <1>4, NothingNewUnderWay DEF SessionInv, SessionTypeKept, JobsInv
<1>6. QED
  BY <1>1, <1>5 DEF SessionInv

\* Steps that make a call which brings nothing.
LEMMA CallBegins ==
    ASSUME SessionInv, NEW k \in Jobs, JobHolds(k), SessionTypeKept,
           jobs' = jobs \cup {k},
           \A s \in SessionOrNull : ~Brings(k, s),
           k.op = "end" => k.of = token /\ k.of \in 1..opened, UNCHANGED <<token, dropped>>
    PROVE  SessionInv'
<1>1. SessionTypeOK' /\ DroppedStaysDropped'
  BY DEF SessionInv, SessionTypeOK, DroppedStaysDropped, SessionTypeKept, JobsInv
<1>2. UnderWay' \subseteq UnderWay /\ BroughtOnce'
      /\ Ending' \subseteq Ending \cup (IF k.op = "end" THEN {k.of} ELSE {})
  BY JobBegins DEF SessionInv, JobsInv
<1>3. Known' \subseteq Known \cup {Nothing}
  BY <1>2 DEF Known
<1>4. \A l \in jobs' : JobHolds(l)
  BY DEF SessionInv, JobsInv
<1>5. JobsInv'
  BY <1>2, <1>3, <1>4, NothingNewUnderWay DEF SessionInv, SessionTypeKept, JobsInv
<1>6. QED
  BY <1>1, <1>5 DEF SessionInv

\* What the session a job brings is known to be.
LEMMA BroughtIsNew ==
    ASSUME SessionInv, NEW j \in jobs, NEW s \in SessionOrNull, Brings(j, s)
    PROVE  s \in 1..opened /\ s # token /\ s \notin dropped /\ s # Nothing
BY NullIsNotUnderWay DEF SessionInv, JobsInv, UnderWay, Known

\* The gateway answers a call, or the call throws.
LEMMA AnswerKeepsSessions ==
    ASSUME SessionInv, NEW j \in jobs, NEW a \in SessionInfo, Answer(j, a),
           j.op = "open" => a.failed, j.op # "activate",
           closed' \subseteq Sessions, UNCHANGED <<opened, dropped, stored, token, info>>
    PROVE  SessionInv'
<1> DEFINE k == [j EXCEPT !.answer = a]
<1>1. j \in Jobs /\ JobHolds(j)
  BY DEF SessionInv, SessionTypeOK, JobsInv
<1>2. k \in Jobs /\ k.op = j.op /\ k.of = j.of /\ k.answer = a
  BY <1>1 DEF Jobs
<1>3. jobs' = (jobs \ {j}) \cup {k}
  BY DEF Answer
<1> HIDE DEF k
<1>4. JobHolds(k) /\ \A s \in SessionOrNull : Brings(k, s) => Brings(j, s)
  BY <1>1, <1>2 DEF JobHolds, Brings
<1>5. SessionTypeKept
  BY DEF SessionTypeKept, SessionInv, SessionTypeOK, DroppedStaysDropped
<1>6. QED
  BY <1>1, <1>2, <1>3, <1>4, <1>5, JobStepKeeps

\* The gateway opens a session: one it has never named before, so that neither
\* the browser nor any job knows it.
LEMMA OpeningKeepsSessions ==
    ASSUME SessionInv, PayTypeOK, NEW j \in jobs, j.op = "open", opened < MaxSessions,
           opened' = opened + 1, Answer(j, InfoOf(opened + 1)),
           UNCHANGED <<closed, dropped, stored, token, info>>
    PROVE  SessionInv'
<1> DEFINE k == [j EXCEPT !.answer = InfoOf(opened + 1)]
<1>1. /\ j \in Jobs /\ JobHolds(j)
      /\ opened \in 0..MaxSessions /\ MaxSessions \in Nat
  BY WebAssumption DEF SessionInv, SessionTypeOK, JobsInv
<1>2. InfoOf(opened + 1) \in SessionInfo /\ InfoOf(opened + 1).id = opened + 1
  BY <1>1 DEF InfoOf, SessionInfo, PayTypeOK, SessionOrNull, Sessions
<1>3. k \in Jobs /\ k.op = "open" /\ k.of = j.of /\ k.answer = InfoOf(opened + 1)
  BY <1>1, <1>2 DEF Jobs
<1>4. jobs' = (jobs \ {j}) \cup {k}
  BY DEF Answer
<1> HIDE DEF k
<1>5. 1..opened \subseteq 1..(opened + 1) /\ opened + 1 \notin 1..opened /\ opened + 1 \in 0..MaxSessions
  BY <1>1
<1>6. SessionTypeOK' /\ DroppedStaysDropped'
  BY <1>3, <1>4, <1>5 DEF SessionInv, SessionTypeOK, DroppedStaysDropped
<1>7. opened + 1 \in Sessions /\ opened + 1 # Nothing
  BY <1>1, NullAssumption DEF Sessions
<1>8. /\ \A s \in SessionOrNull : Brings(k, s) => s = opened + 1
      /\ JobHolds(k)
  BY <1>2, <1>3 DEF Brings, JobHolds
<1>9. UnderWay' \subseteq UnderWay \cup {opened + 1} /\ Ending' \subseteq Ending
  BY <1>3, <1>4, <1>8, UnderWayNext DEF UnderWay, Ending
<1>10. opened + 1 \notin Known
  BY <1>5, <1>7 DEF Known, SessionInv, SessionTypeOK, JobsInv
<1>11. opened + 1 \notin UnderWay
  BY <1>5 DEF SessionInv, JobsInv
<1>12. BroughtOnce'
  <2>1. ASSUME NEW l \in jobs', NEW m \in jobs', NEW s \in SessionOrNull,
               Brings(l, s), Brings(m, s)
        PROVE  l = m
    <3>1. CASE s = opened + 1
      BY <1>4, <1>7, <1>11, <2>1, <3>1 DEF UnderWay, SessionOrNull
    <3>2. CASE s # opened + 1
      BY <1>4, <1>8, <2>1, <3>2 DEF SessionInv, JobsInv, BroughtOnce
    <3>3. QED
      BY <3>1, <3>2
  <2>2. QED
    BY <2>1, UnderWayNext
<1>13. (UnderWay \cup Ending)' \subseteq 1..opened' /\ (UnderWay \cap Known)' = {}
  <2>1. Known' \subseteq Known
    BY <1>9 DEF Known
  <2>2. UnderWay \cup Ending \subseteq 1..opened /\ UnderWay \cap Known = {}
    BY DEF SessionInv, JobsInv
  <2>3. (UnderWay \cup Ending)' \subseteq 1..(opened + 1)
    BY <1>1, <1>5, <1>9, <2>2
  <2>4. UnderWay' \cap Known' = {}
    BY <1>9, <1>10, <2>1, <2>2
  <2>5. QED
    BY <2>3, <2>4
<1>14. JobsInv'
  BY <1>4, <1>8, <1>12, <1>13 DEF SessionInv, JobsInv, JobHolds
<1>15. QED
  BY <1>6, <1>14 DEF SessionInv

\* The gateway's answer to a call of the session provider.
LEMMA GatewayJobKeepsSessions ==
    ASSUME SessionInv, PayTypeOK, NEW j \in jobs, GatewayJob(j)
    PROVE  SessionInv'
<1>1. /\ j \in Jobs /\ JobHolds(j) /\ closed \subseteq Sessions
      /\ opened \in 0..MaxSessions /\ MaxSessions \in Nat
  BY WebAssumption DEF SessionInv, SessionTypeOK, JobsInv
<1>2. UNCHANGED <<dropped, stored, token, info>>
  BY DEF GatewayJob, sessionVars
<1>3. Failed \in SessionInfo /\ Failed.failed
  BY DEF Failed, SessionInfo, SessionOrNull
<1>4. ASSUME NEW s \in Sessions
      PROVE  InfoOf(s) \in SessionInfo /\ [InfoOf(s) EXCEPT !.open = FALSE] \in SessionInfo
  BY <1>4 DEF InfoOf, SessionInfo, PayTypeOK, SessionOrNull
<1>5. CASE j.op = "open" /\ opened < MaxSessions /\ opened' = opened + 1
           /\ Answer(j, InfoOf(opened + 1)) /\ UNCHANGED closed
  BY <1>2, <1>5, OpeningKeepsSessions
<1>6. CASE j.op = "open" /\ Answer(j, Failed) /\ UNCHANGED <<opened, closed>>
  BY <1>1, <1>2, <1>3, <1>6, AnswerKeepsSessions
<1>7. CASE j.op \in {"restore", "refresh"}
           /\ Answer(j, IF Admits(j.of) THEN InfoOf(j.of) ELSE Failed)
           /\ UNCHANGED <<opened, closed>>
  <2>1. j.of \in SessionOrNull /\ 1..opened \subseteq Sessions
    BY <1>1, NullIsNotUnderWay DEF Jobs, SessionInv
  <2>2. j.of \in Sessions
    <3>1. CASE j.op = "restore"
      BY <2>1, <3>1, BroughtIsNew DEF Brings
    <3>2. CASE j.op = "refresh"
      BY <1>1, <2>1, <3>2 DEF JobHolds, SessionOrNull
    <3>3. QED
      BY <1>7, <3>1, <3>2
  <2>3. (IF Admits(j.of) THEN InfoOf(j.of) ELSE Failed) \in SessionInfo
    BY <1>3, <1>4, <2>2
  <2>4. QED
    BY <1>1, <1>2, <1>7, <2>3, AnswerKeepsSessions
<1>8. CASE j.op = "end" /\ closed' = closed \cup {j.of}
           /\ Answer(j, [InfoOf(j.of) EXCEPT !.open = FALSE]) /\ UNCHANGED opened
  <2>1. j.of \in Sessions
    BY <1>1, <1>8, NullIsNotUnderWay DEF SessionInv, JobsInv, Ending, Jobs
  <2>2. [InfoOf(j.of) EXCEPT !.open = FALSE] \in SessionInfo
    BY <1>4, <2>1
  <2>3. closed' \subseteq Sessions
    BY <1>1, <1>8, <2>1
  <2>4. QED
    BY <1>2, <1>8, <2>2, <2>3, AnswerKeepsSessions
<1>9. CASE j.op = "end" /\ Answer(j, Failed) /\ UNCHANGED <<opened, closed>>
  BY <1>1, <1>2, <1>3, <1>9, AnswerKeepsSessions
<1>10. QED
  BY <1>5, <1>6, <1>7, <1>8, <1>9 DEF GatewayJob

\* openSession: the new session is stored, and only then under way to activation.
LEMMA OpenedKeepsSessions ==
    ASSUME SessionInv, NEW j \in jobs, Opened(j), UNCHANGED <<opened, closed>>
    PROVE  SessionInv'
<1>1. j \in Jobs /\ JobHolds(j)
  BY DEF SessionInv, SessionTypeOK, JobsInv
<1>2. CASE j.answer.failed
  <2>1. SessionTypeKept /\ jobs' = jobs \ {j} /\ UNCHANGED <<token, dropped>>
    BY <1>2 DEF Opened, SessionTypeKept, SessionInv, SessionTypeOK, DroppedStaysDropped
  <2>2. QED
    BY <1>1, <2>1, JobStepKeeps
<1>3. CASE ~j.answer.failed
  <2> DEFINE k == [j EXCEPT !.op = "activate", !.of = j.answer.id]
  <2>1. j.answer \in SessionInfo /\ j.op = "open"
    BY <1>1 DEF Jobs, Opened
  <2>2. j.answer.id \in SessionOrNull
    BY <2>1 DEF SessionInfo
  <2>3. Brings(j, j.answer.id)
    BY <1>3, <2>1 DEF Brings, Opened
  <2>4. j.answer.id \in 1..opened /\ j.answer.id \notin dropped
    BY <2>2, <2>3, BroughtIsNew
  <2>5. k \in Jobs /\ k.op = "activate" /\ k.of = j.answer.id /\ k.answer = j.answer
    BY <1>1, <2>2 DEF Jobs
  <2>6. jobs' = (jobs \ {j}) \cup {k} /\ stored' = j.answer.id /\ UNCHANGED <<token, info, dropped>>
    BY <1>3 DEF Opened
  <2>7. j.answer # Nothing
    BY DEF Opened
  <2> HIDE DEF k
  <2>8. SessionTypeKept
    BY <2>4, <2>6 DEF SessionTypeKept, SessionInv, SessionTypeOK, DroppedStaysDropped
  <2>9. JobHolds(k) /\ \A s \in SessionOrNull : Brings(k, s) => Brings(j, s)
    BY <2>3, <2>5, <2>7 DEF JobHolds, Brings
  <2>10. QED
    BY <2>5, <2>6, <2>8, <2>9, JobStepKeeps
<1>4. QED
  BY <1>2, <1>3

\* The restore of a reload: a session that is not admitted is forgotten.
LEMMA RestoredKeepsSessions ==
    ASSUME SessionInv, NEW j \in jobs, Restored(j), UNCHANGED <<opened, closed>>
    PROVE  SessionInv'
<1> DEFINE k == [j EXCEPT !.op = "activate"]
<1>1. j \in Jobs /\ JobHolds(j) /\ Nothing \notin dropped
  BY NullIsNotUnderWay DEF SessionInv, SessionTypeOK, JobsInv
<1>2. k \in Jobs /\ k.op = "activate" /\ k.of = j.of /\ k.answer = j.answer
  BY <1>1 DEF Jobs
<1>3. /\ jobs' = jobs \ {j} \/ jobs' = (jobs \ {j}) \cup {k}
      /\ stored' \in {stored, Nothing} /\ UNCHANGED <<token, info, dropped>>
      /\ j.op = "restore" /\ j.answer # Nothing
  BY DEF Restored
<1> HIDE DEF k
<1>4. SessionTypeKept
  BY <1>1, <1>3 DEF SessionTypeKept, SessionInv, SessionTypeOK, DroppedStaysDropped
<1>5. JobHolds(k) /\ \A s \in SessionOrNull : Brings(k, s) => Brings(j, s)
  BY <1>2, <1>3 DEF JobHolds, Brings
<1>6. QED
  BY <1>2, <1>3, <1>4, <1>5, JobStepKeeps

\* activate: the session that was under way becomes the current one, and nothing
\* is under way with it any more.
LEMMA ActivateKeepsSessions ==
    ASSUME SessionInv, NEW j \in jobs, Activate(j), UNCHANGED <<opened, closed>>
    PROVE  SessionInv'
<1> DEFINE k == [j EXCEPT !.op = "wallet"]
<1>1. j \in Jobs /\ JobHolds(j)
  BY DEF SessionInv, SessionTypeOK, JobsInv
<1>2. k \in Jobs /\ k.op = "wallet"
  BY <1>1 DEF Jobs
<1>3. /\ jobs' = (jobs \ {j}) \cup {k} /\ token' = j.of /\ info' = j.answer
      /\ UNCHANGED <<stored, dropped>> /\ j.op = "activate"
  BY DEF Activate
<1> HIDE DEF k
<1>4. j.of \in SessionOrNull /\ Brings(j, j.of) /\ j.answer \in SessionInfo
  BY <1>1, <1>3 DEF Brings, Jobs, JobHolds
<1>5. j.of \in 1..opened /\ j.of \notin dropped
  BY <1>4, BroughtIsNew
<1>6. SessionTypeOK' /\ DroppedStaysDropped'
  BY <1>2, <1>3, <1>4, <1>5 DEF SessionInv, SessionTypeOK, DroppedStaysDropped
<1>7. JobHolds(k) /\ \A s \in SessionOrNull : ~Brings(k, s)
  BY <1>2 DEF JobHolds, Brings
<1>8. UnderWay' \subseteq UnderWay /\ Ending' \subseteq Ending /\ BroughtOnce'
  BY <1>2, <1>3, <1>7, JobGoesOn DEF SessionInv, JobsInv
<1>9. j.of \notin UnderWay'
  BY <1>3, <1>4, <1>7, UnderWayNext DEF SessionInv, JobsInv, BroughtOnce
<1>10. (UnderWay \cup Ending)' \subseteq 1..opened' /\ (UnderWay \cap Known)' = {}
  <2>1. (UnderWay \cup Ending)' \subseteq 1..opened
    BY <1>8 DEF SessionInv, JobsInv
  <2>2. Known' \subseteq Known \cup {j.of}
    BY <1>3, <1>8 DEF Known
  <2>3. UnderWay' \cap Known' = {}
    BY <1>8, <1>9, <2>2 DEF SessionInv, JobsInv
  <2>4. QED
    BY <2>1, <2>3
<1>11. JobsInv'
  BY <1>3, <1>7, <1>8, <1>10 DEF SessionInv, JobsInv, JobHolds
<1>12. QED
  BY <1>6, <1>11 DEF SessionInv

\* endSession: the session given up was the one being ended, which nothing brings.
LEMMA SessionEndedKeepsSessions ==
    ASSUME SessionInv, NEW j \in jobs, SessionEnded(j), UNCHANGED <<opened, closed>>
    PROVE  SessionInv'
<1>1. j \in Jobs /\ JobHolds(j) /\ Nothing \notin dropped /\ Nothing \notin 1..opened
  BY NullIsNotUnderWay DEF SessionInv, SessionTypeOK, JobsInv
<1>2. /\ j.op = "end" /\ j.answer # Nothing /\ jobs' = jobs \ {j}
      /\ token' = Nothing /\ stored' = Nothing /\ dropped' = dropped \cup {j.of}
      /\ info' \in {info, j.answer}
  BY DEF SessionEnded, Forget
<1>3. j.of \in Ending /\ j.of \in 1..opened /\ j.answer \in SessionInfo
  BY <1>1, <1>2 DEF Ending, Jobs, SessionInv, JobsInv
<1>4. SessionTypeKept
  BY <1>1, <1>2, <1>3 DEF SessionTypeKept, SessionInv, SessionTypeOK
<1>5. QED
  BY <1>1, <1>2, <1>3, <1>4, JobStepKeeps

\* The other awaits of the session provider bring nothing and give nothing up.
LEMMA OtherAwaitsKeepSessions ==
    ASSUME SessionInv, NEW j \in jobs, UNCHANGED <<opened, closed>>,
           SetWallet(j) \/ Refreshed(j) \/ ActivateFails(j)
    PROVE  SessionInv'
<1>1. j \in Jobs /\ JobHolds(j) /\ Nothing \notin dropped
  BY NullIsNotUnderWay DEF SessionInv, SessionTypeOK, JobsInv
<1>2. /\ jobs' = jobs \ {j} /\ UNCHANGED <<token, dropped>>
      /\ stored' \in {stored, Nothing}
      /\ info' = info \/ (info' = j.answer /\ j.answer # Nothing)
  BY DEF SetWallet, Refreshed, ActivateFails
<1>3. info' \in SessionInfo \cup {Nothing}
  BY <1>1, <1>2 DEF Jobs, SessionInv, SessionTypeOK
<1>4. SessionTypeKept
  BY <1>1, <1>2, <1>3 DEF SessionTypeKept, SessionInv, SessionTypeOK, DroppedStaysDropped
<1>5. QED
  BY <1>1, <1>2, <1>4, JobStepKeeps

\* Whatever the session provider awaits, and however it ends.
LEMMA ProviderKeepsSessions ==
    ASSUME SessionInv, NEW j \in jobs, Continues(j) \/ JobThrows(j)
    PROVE  SessionInv'
<1>1. UNCHANGED <<opened, closed>>
  BY DEF Continues, JobThrows, gateVars
<1>2. CASE JobOutage(j)
  <2>1. Failed \in SessionInfo /\ Failed.failed
    BY DEF Failed, SessionInfo, SessionOrNull
  <2>2. Answer(j, Failed) /\ UNCHANGED <<dropped, stored, token, info>> /\ j.op # "activate"
    BY <1>2 DEF JobOutage, sessionVars
  <2>3. QED
    BY <1>1, <2>1, <2>2, AnswerKeepsSessions DEF SessionInv, SessionTypeOK
<1>3. QED
  BY <1>1, <1>2, OpenedKeepsSessions, RestoredKeepsSessions, ActivateKeepsSessions,
     SessionEndedKeepsSessions, OtherAwaitsKeepSessions DEF Continues, JobThrows

\* Leaving a page: its components no longer wait for their jobs.
LEMMA VisitKeepsSessions ==
    ASSUME SessionInv, NEW p, Visit(p)
    PROVE  SessionInv'
<1> DEFINE Relabelled(j) == IF j.by = "load" THEN j ELSE [j EXCEPT !.by = "none"]
<1>1. /\ jobs' = {Relabelled(j) : j \in jobs} /\ jobs \subseteq Jobs
      /\ UNCHANGED <<opened, closed, dropped, stored, token, info>>
  BY DEF Visit, gateVars, sessionVars, SessionInv, SessionTypeOK
<1>2. ASSUME NEW j \in jobs
      PROVE  /\ Relabelled(j) \in Jobs
             /\ Relabelled(j).op = j.op /\ Relabelled(j).of = j.of
             /\ Relabelled(j).answer = j.answer
  BY <1>1, <1>2 DEF Jobs
<1> HIDE DEF Relabelled
<1>3. ASSUME NEW j \in jobs
      PROVE  /\ JobHolds(Relabelled(j)) <=> JobHolds(j)
             /\ \A s \in SessionOrNull : Brings(Relabelled(j), s) <=> Brings(j, s)
  BY <1>2, <1>3 DEF JobHolds, Brings
<1>4. UnderWay' = UnderWay /\ Ending' = Ending
  BY <1>1, <1>2, <1>3, UnderWayNext DEF UnderWay, Ending
<1>5. BroughtOnce'
  BY <1>1, <1>3, UnderWayNext DEF SessionInv, JobsInv, BroughtOnce
<1>6. \A k \in jobs' : JobHolds(k)
  BY <1>1, <1>3 DEF SessionInv, JobsInv
<1>7. JobsInv'
  BY <1>1, <1>4, <1>5, <1>6, NothingNewUnderWay DEF SessionInv, JobsInv, Known
<1>8. SessionTypeOK' /\ DroppedStaysDropped'
  BY <1>1, <1>2 DEF SessionInv, SessionTypeOK, DroppedStaysDropped
<1>9. QED
  BY <1>7, <1>8 DEF SessionInv

\* A reload forgets every job and brings back the stored session, if any.
LEMMA ReloadKeepsSessions ==
    ASSUME SessionInv, Reload
    PROVE  SessionInv'
<1> DEFINE k == Job("restore", stored, "load")
<1>1. /\ UNCHANGED <<opened, closed, dropped, stored>> /\ token' = Nothing /\ info' = Nothing
      /\ stored = Nothing => jobs' = {}
      /\ stored # Nothing => jobs' = {k}
  BY DEF Reload, gateVars
<1>2. /\ stored \in 1..opened \cup {Nothing} /\ stored \notin dropped
      /\ stored \in SessionOrNull /\ Nothing \notin 1..opened /\ Nothing \notin dropped
  BY NullIsNotUnderWay DEF SessionInv, SessionTypeOK, DroppedStaysDropped, SessionOrNull
<1>3. /\ k \in Jobs /\ k.op = "restore" /\ JobHolds(k)
      /\ \A s \in SessionOrNull : Brings(k, s) => s = stored
  BY <1>2 DEF Job, Jobs, JobHolds, Brings
<1> HIDE DEF k
<1>4. SessionTypeOK' /\ DroppedStaysDropped'
  BY <1>1, <1>2, <1>3 DEF SessionInv, SessionTypeOK, DroppedStaysDropped
<1>5. /\ Ending' = {} /\ BroughtOnce'
      /\ \A s \in UnderWay' : s = stored /\ stored # Nothing
  BY <1>1, <1>3, UnderWayNext
<1>6. (UnderWay \cup Ending)' \subseteq 1..opened' /\ (UnderWay \cap Known)' = {}
  BY <1>1, <1>2, <1>5 DEF Known
<1>7. JobsInv'
  BY <1>1, <1>3, <1>5, <1>6 DEF JobsInv, JobHolds
<1>8. QED
  BY <1>4, <1>7 DEF SessionInv

\* The buttons: opening a session and ending the current one make a call;
\* disconnecting gives up the current session, which nothing is bringing.
LEMMA ButtonsKeepSessions ==
    ASSUME SessionInv, Connect \/ PressOpen \/ PressRevoke \/ Disconnect
    PROVE  SessionInv'
<1>1. /\ closed \subseteq Sessions /\ info \in SessionInfo \cup {Nothing}
      /\ token \in 1..opened \cup {Nothing} /\ token \in SessionOrNull
      /\ token \notin dropped /\ stored \notin dropped
      /\ stored \in 1..opened \cup {Nothing}
      /\ Nothing \notin dropped /\ Nothing \notin 1..opened
  BY NullIsNotUnderWay DEF SessionInv, SessionTypeOK, DroppedStaysDropped, SessionOrNull
<1>2. CASE Connect
  BY <1>1, <1>2, SessionsUntouched DEF Connect, gateVars
<1>3. ASSUME NEW k \in Jobs, JobHolds(k), jobs' = jobs \cup {k},
             \A s \in SessionOrNull : ~Brings(k, s),
             k.op = "end" => k.of = token /\ k.of # Nothing,
             UNCHANGED <<gateVars, sessionVars, dropped>>
      PROVE  SessionInv'
  <2>1. SessionTypeKept
    BY <1>1, <1>3 DEF gateVars, sessionVars, SessionTypeKept
  <2>2. QED
    BY <1>1, <1>3, <2>1, CallBegins DEF sessionVars
<1>4. CASE PressOpen
  <2> DEFINE k == Job("open", Nothing, "gate")
  <2>1. k \in Jobs /\ JobHolds(k) /\ k.op = "open" /\ \A s \in SessionOrNull : ~Brings(k, s)
    BY DEF Job, Jobs, JobHolds, Brings, SessionOrNull
  <2>2. QED
    BY <1>3, <1>4, <2>1 DEF PressOpen
<1>5. CASE PressRevoke
  <2> DEFINE k == Job("end", token, "settings")
  <2>1. /\ k \in Jobs /\ JobHolds(k) /\ k.op = "end" /\ k.of = token
        /\ \A s \in SessionOrNull : ~Brings(k, s)
    BY <1>1 DEF Job, Jobs, JobHolds, Brings
  <2>2. QED
    BY <1>3, <1>5, <2>1 DEF PressRevoke
<1>6. CASE Disconnect
  <2>1. /\ token' = Nothing /\ stored' = Nothing /\ info' = Nothing
        /\ dropped' = dropped \cup ({token} \ {Nothing})
        /\ UNCHANGED <<opened, closed, jobs>>
    BY <1>6 DEF Disconnect, gateVars
  <2>2. SessionTypeOK' /\ DroppedStaysDropped'
    BY <1>1, <2>1 DEF SessionInv, SessionTypeOK, DroppedStaysDropped
  <2>3. UnderWay' = UnderWay /\ Ending' = Ending /\ (BroughtOnce' <=> BroughtOnce)
    BY <2>1, UnderWayNext DEF UnderWay, Ending, BroughtOnce
  <2>4. Known' \subseteq Known \cup {Nothing}
    BY <2>1, <2>3 DEF Known
  <2>5. JobsInv'
    BY <2>1, <2>3, <2>4, NothingNewUnderWay DEF SessionInv, JobsInv
  <2>6. QED
    BY <2>2, <2>5 DEF SessionInv
<1>7. QED
  BY <1>2, <1>4, <1>5, <1>6

\* Every step keeps what is under way into the browser apart from what it knows.
LEMMA StepKeepsSessions ==
    ASSUME PayInv, SessionInv, [Next]_vars
    PROVE  SessionInv'
<1>1. closed \subseteq Sessions /\ info \in SessionInfo \cup {Nothing}
  BY DEF SessionInv, SessionTypeOK
<1>2. ASSUME UNCHANGED <<opened, closed, dropped, jobs>>, UNCHANGED sessionVars
      PROVE  SessionInv'
  BY <1>1, <1>2, SessionsUntouched DEF sessionVars
<1>3. ASSUME NEW t \in Turns, UserSends(t) \/ TurnStep(t)
      PROVE  SessionInv'
  <2>1. /\ UNCHANGED <<opened, closed, dropped>> /\ UNCHANGED sessionVars
        /\ UNCHANGED jobs \/ Collected(t)
    BY <1>3 DEF UserSends, Send, FetchThrows, TurnStep, Challenged, Settled, Redeemed,
                    Refused, gateVars
  <2>2. CASE Collected(t)
    <3> DEFINE k == Job("refresh", turn[t].of, "none")
    <3>1. turn[t] \in Turn /\ Flying(t)
      BY <2>2 DEF PayInv, PayTypeOK, Collected, Flying, InFlight
    <3>2. turn[t].of \in SessionOrNull /\ turn[t].of # Nothing
      BY <3>1 DEF PayInv, TurnInv, Turn
    <3>3. /\ k \in Jobs /\ JobHolds(k) /\ k.op = "refresh"
          /\ \A s \in SessionOrNull : ~Brings(k, s)
      BY <3>2 DEF Job, Jobs, JobHolds, Brings
    <3>4. jobs' = jobs \cup {k}
      BY <2>2 DEF Collected
    <3> HIDE DEF k
    <3>5. SessionTypeKept
      BY <2>1, <1>1 DEF sessionVars, SessionTypeKept, SessionInv, SessionTypeOK, DroppedStaysDropped
    <3>6. QED
      BY <2>1, <3>3, <3>4, <3>5, CallBegins DEF sessionVars
  <2>3. QED
    BY <1>2, <2>1, <2>2
<1>4. ASSUME NEW t \in Turns, GatewayTurn(t)
      PROVE  SessionInv'
  BY <1>2, <1>4 DEF GatewayTurn, GatewayProbe, GatewayPay, GatewayDeliver, gateVars
<1>5. ASSUME NEW j \in jobs, GatewayJob(j) \/ Continues(j) \/ JobThrows(j)
      PROVE  SessionInv'
  BY <1>5, GatewayJobKeepsSessions, ProviderKeepsSessions DEF PayInv
<1>6. ASSUME NEW s \in Sessions, Expire(s)
      PROVE  SessionInv'
  BY <1>1, <1>6, SessionsUntouched DEF Expire, sessionVars
<1>7. CASE UNCHANGED vars
  BY <1>2, <1>7 DEF vars, gateVars
<1>8. QED
  BY <1>3, <1>4, <1>5, <1>6, <1>7, VisitKeepsSessions, ReloadKeepsSessions,
     ButtonsKeepSessions DEF Next
-----------------------------------------------------------------------------
(* What the turns paid *)

\* Steps that touch neither the turns nor what is on their way to the gateway.
LEMMA TurnsUntouched ==
    ASSUME PayInv, UNCHANGED <<spent, moved, charged, wire, turn>>
    PROVE  PayInv'
BY DEF PayInv, PayTypeOK, TurnInv, Flying

\* The gateway answers a probe, moves the signed amount at most once, delivers.
LEMMA GatewayTurnKeepsPayments ==
    ASSUME PayInv, NEW t \in Turns, GatewayTurn(t)
    PROVE  PayInv'
<1>1. /\ wire[t] \in Message /\ wire \in [Turns -> Message] /\ turn' = turn
      /\ moved \in [Turns -> Nat] /\ charged \in [Turns -> Nat] /\ spent \in [Sessions -> Nat]
      /\ \A u \in Turns : TurnInv(u)
  BY DEF GatewayTurn, PayInv, PayTypeOK
<1>2. ASSUME NEW m \in Message, wire' = [wire EXCEPT ![t] = m], UNCHANGED <<spent, moved, charged>>,
             \/ wire[t].is = "probe" /\ m.is \in {"challenge", "refusal"}
             \/ wire[t].is = "delivery" /\ m.is \in {"text", "refusal"}
             \/ wire[t].is = "payment" /\ m.is = "refusal"
      PROVE  PayInv'
  <2>1. PayTypeOK'
    BY <1>1, <1>2 DEF PayInv, PayTypeOK
  <2>2. ASSUME NEW u \in Turns
        PROVE  TurnInv(u)'
    BY <1>1, <1>2 DEF TurnInv, Flying
  <2>3. QED
    BY <2>1, <2>2 DEF PayInv
<1>3. ASSUME NEW word \in {"challenge", "ticket", "text", "refusal"}
      PROVE  /\ [wire[t] EXCEPT !.is = word] \in Message
             /\ [wire[t] EXCEPT !.is = word].is = word
             /\ [wire[t] EXCEPT !.is = word].price = wire[t].price
  BY <1>1, <1>3 DEF Message
<1>4. CASE GatewayProbe(t)
  <2>1. wire[t].is = "probe" /\ UNCHANGED <<spent, moved, charged>>
    BY <1>4 DEF GatewayProbe, gateVars, payVars
  <2>2. CASE \E p \in Prices : wire' = [wire EXCEPT ![t] = [is |-> "challenge", price |-> p]]
    <3>1. PICK p \in Prices : wire' = [wire EXCEPT ![t] = [is |-> "challenge", price |-> p]]
      BY <2>2
    <3>2. [is |-> "challenge", price |-> p] \in Message
      BY WebAssumption DEF Message
    <3>3. QED
      BY <1>2, <2>1, <3>1, <3>2
  <2>3. CASE wire' = [wire EXCEPT ![t].is = "refusal"]
    BY <1>2, <1>3, <2>1, <2>3
  <2>4. QED
    BY <1>4, <2>2, <2>3 DEF GatewayProbe
<1>5. CASE GatewayDeliver(t)
  BY <1>2, <1>3, <1>5 DEF GatewayDeliver, gateVars, payVars
<1>6. CASE /\ wire[t].is = "payment" /\ wire' = [wire EXCEPT ![t].is = "refusal"]
           /\ UNCHANGED <<moved, charged, spent>>
  BY <1>2, <1>3, <1>6
<1>7. CASE /\ wire[t].is = "payment" /\ moved' = [moved EXCEPT ![t] = @ + 1]
           /\ charged' = [charged EXCEPT ![t] = wire[t].price]
           /\ spent' = spent \/ spent' = [spent EXCEPT ![turn[t].of] = @ + wire[t].price]
           /\ \E word \in {"ticket", "refusal"} : wire' = [wire EXCEPT ![t].is = word]
  <2>2. PICK word \in {"ticket", "refusal"} : wire' = [wire EXCEPT ![t].is = word]
    BY <1>7
  <2>3. wire[t].price \in Nat /\ moved[t] = 0
    BY <1>1, <1>7 DEF Message, TurnInv
  <2>4. PayTypeOK'
    BY <1>1, <1>3, <1>7, <2>2, <2>3 DEF PayInv, PayTypeOK
  <2>5. TurnInv(t)'
    BY <1>1, <1>3, <1>7, <2>2, <2>3 DEF TurnInv, Flying
  <2>6. ASSUME NEW u \in Turns, u # t
        PROVE  TurnInv(u)'
    BY <1>1, <1>7, <2>2, <2>6 DEF TurnInv, Flying
  <2>7. QED
    BY <2>4, <2>5, <2>6 DEF PayInv
<1>8. QED
  BY <1>4, <1>5, <1>6, <1>7 DEF GatewayTurn, GatewayPay, payVars

\* A leg of one turn: what it leaves in the turn and on the wire decides.
LEMMA TurnChanges ==
    ASSUME PayInv, NEW t \in Turns, NEW u \in Turn, NEW m \in Message,
           turn' = [turn EXCEPT ![t] = u], wire' = [wire EXCEPT ![t] = m],
           UNCHANGED <<spent, moved, charged>>,
           u.at \in InFlight => u.of # Nothing,
           m.is \in {"idle", "probe", "challenge", "payment"} => moved[t] = 0,
           u.at # "unsent",
           u.at = "paying" => m.is = "payment" /\ m.price = u.offer,
           u.at = "settled" => IF u.receipt THEN m.is = "ticket" ELSE m.is = "refusal",
           u.at \in {"collecting", "done"} \/ (u.at = "settled" /\ u.receipt)
              => moved[t] = 1 /\ charged[t] = u.offer
    PROVE  PayInv'
<1>1. PayTypeOK'
  BY DEF PayInv, PayTypeOK
<1>2. TurnInv(t)'
  BY DEF PayInv, PayTypeOK, TurnInv, Flying
<1>3. ASSUME NEW v \in Turns, v # t
      PROVE  TurnInv(v)'
  BY <1>3 DEF PayInv, PayTypeOK, TurnInv, Flying
<1>4. QED
  BY <1>1, <1>2, <1>3 DEF PayInv

\* A turn that ends without saying paid, or says so after it was.
LEMMA EndedTurn ==
    ASSUME PayInv, NEW t \in Turns, NEW to \in {"done", "failed", "gone"},
           turn' = [turn EXCEPT ![t].at = to], UNCHANGED <<wire, spent, moved, charged>>,
           to = "done" => turn[t].at = "collecting"
    PROVE  PayInv'
<1> DEFINE u == [turn[t] EXCEPT !.at = to]
<1>1. /\ turn[t] \in Turn /\ wire[t] \in Message /\ TurnInv(t)
      /\ wire \in [Turns -> Message]
  BY DEF PayInv, PayTypeOK
<1>2. u \in Turn /\ u.at = to /\ u.offer = turn[t].offer
  BY <1>1 DEF Turn
<1>3. turn' = [turn EXCEPT ![t] = u] /\ wire' = [wire EXCEPT ![t] = wire[t]]
  BY <1>1
<1> HIDE DEF u
<1>4. /\ wire[t].is \in {"idle", "probe", "challenge", "payment"} => moved[t] = 0
      /\ u.at \notin InFlight /\ u.at \notin {"unsent", "paying", "settled"}
      /\ u.at \in {"collecting", "done"} => moved[t] = 1 /\ charged[t] = u.offer
  BY <1>1, <1>2 DEF TurnInv, InFlight
<1>5. QED
  BY <1>1, <1>2, <1>3, <1>4, TurnChanges

\* The user sends; the wallet, token and ceiling are those of this moment.
LEMMA SendKeepsPayments ==
    ASSUME PayInv, SessionInv, NEW t \in Turns, UserSends(t)
    PROVE  PayInv'
<1>1. UNCHANGED <<spent, moved, charged>> /\ turn[t] \in Turn /\ TurnInv(t)
  BY DEF UserSends, gateVars, payVars, PayInv, PayTypeOK
<1>2. CASE FetchThrows(t)
  BY <1>1, <1>2, EndedTurn DEF FetchThrows, GiveUp, Finish
<1>3. CASE Send(t) /\ ~wallet
  BY <1>1, <1>3, EndedTurn DEF Send
<1>4. CASE Send(t) /\ wallet
  <2> DEFINE u == [turn[t] EXCEPT !.at = "probing", !.of = token,
                                  !.ceiling = SpendCap - info.spent]
             m == [is |-> "probe", price |-> 0]
  <2>1. token \in SessionOrNull /\ token # Nothing /\ info \in SessionInfo
    BY <1>4, NullIsNotUnderWay
       DEF Send, ChatShown, Status, SessionInv, SessionTypeOK, SessionOrNull
  <2>2. SpendCap - info.spent \in Int
    BY <2>1, WebAssumption DEF SessionInfo
  <2>3. u \in Turn /\ u.at = "probing" /\ u.of = token
    BY <1>1, <2>1, <2>2 DEF Turn, InFlight
  <2>4. m \in Message /\ m.is = "probe"
    BY DEF Message
  <2>5. turn' = [turn EXCEPT ![t] = u] /\ wire' = [wire EXCEPT ![t] = m]
    BY <1>4 DEF Send, Request
  <2>6. moved[t] = 0
    BY <1>1, <1>4 DEF Send, Unsent, TurnInv
  <2> HIDE DEF u, m
  <2>7. QED
    BY <1>1, <2>1, <2>3, <2>4, <2>5, <2>6, TurnChanges
<1>5. QED
  BY <1>2, <1>3, <1>4 DEF UserSends

\* The legs of a turn: only a challenge is signed, only a ticket is collected.
LEMMA TurnStepKeepsPayments ==
    ASSUME PayInv, NEW t \in Turns, TurnStep(t)
    PROVE  PayInv'
<1>1. /\ UNCHANGED <<spent, moved, charged>> /\ turn[t] \in Turn /\ wire[t] \in Message
      /\ TurnInv(t)
  BY DEF TurnStep, gateVars, payVars, PayInv, PayTypeOK
<1>2. CASE Finish(t, "failed")
  BY <1>1, <1>2, EndedTurn DEF Finish
<1>3. CASE Collected(t)
  BY <1>1, <1>3, EndedTurn DEF Collected, Finish
<1>4. CASE Challenged(t) /\ wire[t].price <= turn[t].ceiling
  <2> DEFINE u == [turn[t] EXCEPT !.at = "paying", !.offer = wire[t].price]
             m == [is |-> "payment", price |-> wire[t].price]
  <2>1. wire[t].price \in Nat /\ wire[t].is = "challenge" /\ turn[t].at = "probing"
    BY <1>1, <1>4 DEF Message, Challenged
  <2>2. /\ u \in Turn /\ u.at = "paying" /\ u.of = turn[t].of /\ u.offer = wire[t].price
    BY <1>1, <2>1 DEF Turn, InFlight
  <2>3. m \in Message /\ m.is = "payment" /\ m.price = wire[t].price
    BY <2>1 DEF Message
  <2>4. turn' = [turn EXCEPT ![t] = u] /\ wire' = [wire EXCEPT ![t] = m]
    BY <1>4 DEF Challenged, Request
  <2>5. turn[t].of # Nothing /\ moved[t] = 0
    BY <1>1, <2>1 DEF TurnInv, Flying, InFlight
  <2> HIDE DEF u, m
  <2>6. QED
    BY <1>1, <2>2, <2>3, <2>4, <2>5, TurnChanges
<1>5. CASE Settled(t)
  <2> DEFINE u == [turn[t] EXCEPT !.at = "settled", !.receipt = (wire[t].is = "ticket")]
  <2>1. turn[t].at = "paying" /\ wire[t].is \in {"ticket", "refusal"}
    BY <1>5 DEF Settled
  <2>2. /\ u \in Turn /\ u.at = "settled" /\ u.of = turn[t].of /\ u.offer = turn[t].offer
        /\ u.receipt <=> wire[t].is = "ticket"
    BY <1>1 DEF Turn, InFlight
  <2>3. turn' = [turn EXCEPT ![t] = u] /\ wire' = [wire EXCEPT ![t] = wire[t]]
    BY <1>5 DEF Settled, PayInv, PayTypeOK
  <2>4. /\ turn[t].of # Nothing
        /\ wire[t].is = "ticket" => moved[t] = 1 /\ charged[t] = turn[t].offer
    BY <1>1, <2>1 DEF TurnInv, Flying, InFlight
  <2> HIDE DEF u
  <2>5. QED
    BY <1>1, <2>1, <2>2, <2>3, <2>4, TurnChanges
<1>6. CASE Redeemed(t)
  <2> DEFINE u == [turn[t] EXCEPT !.at = "collecting"]
             m == [is |-> "delivery", price |-> wire[t].price]
  <2>1. wire[t].price \in Nat /\ wire[t].is = "ticket" /\ turn[t].at = "settled"
    BY <1>1, <1>6 DEF Message, Redeemed
  <2>2. u \in Turn /\ u.at = "collecting" /\ u.of = turn[t].of /\ u.offer = turn[t].offer
    BY <1>1 DEF Turn, InFlight
  <2>3. m \in Message /\ m.is = "delivery"
    BY <2>1 DEF Message
  <2>4. turn' = [turn EXCEPT ![t] = u] /\ wire' = [wire EXCEPT ![t] = m]
    BY <1>6 DEF Redeemed, Request
  <2>5. turn[t].of # Nothing /\ moved[t] = 1 /\ charged[t] = turn[t].offer
    BY <1>1, <2>1 DEF TurnInv, Flying, InFlight
  <2> HIDE DEF u, m
  <2>6. QED
    BY <1>1, <2>2, <2>3, <2>4, <2>5, TurnChanges
<1>7. QED
  BY <1>2, <1>3, <1>4, <1>5, <1>6 DEF TurnStep, Challenged, Refused

\* After a reload the turns under way are gone, and what they sent is not.
LEMMA ReloadKeepsPayments ==
    ASSUME PayInv, Reload
    PROVE  PayInv'
<1>1. /\ turn' = [t \in Turns |-> IF Flying(t) THEN [turn[t] EXCEPT !.at = "gone"] ELSE turn[t]]
      /\ UNCHANGED <<wire, spent, moved, charged>>
  BY DEF Reload, gateVars, payVars
<1>2. ASSUME NEW t \in Turns
      PROVE  turn'[t] \in Turn /\ TurnInv(t)'
  <2>1. turn[t] \in Turn /\ TurnInv(t)
    BY DEF PayInv, PayTypeOK
  <2>2. CASE Flying(t)
    <3>1. turn'[t] \in Turn /\ turn'[t].at = "gone"
      BY <1>1, <2>1, <2>2 DEF Turn
    <3>2. QED
      BY <1>1, <2>1, <3>1 DEF TurnInv, Flying, InFlight
  <2>3. CASE ~Flying(t)
    BY <1>1, <2>1, <2>3 DEF TurnInv, Flying
  <2>4. QED
    BY <2>2, <2>3
<1>3. QED
  BY <1>1, <1>2 DEF PayInv, PayTypeOK

LEMMA StepKeepsPayments ==
    ASSUME PayInv, SessionInv, [Next]_vars
    PROVE  PayInv'
<1>1. ASSUME NEW j \in jobs, GatewayJob(j) \/ Continues(j) \/ JobThrows(j)
      PROVE  PayInv'
  BY <1>1, TurnsUntouched DEF GatewayJob, Continues, JobThrows, gateVars, payVars
<1>2. ASSUME NEW s \in Sessions, Expire(s)
      PROVE  PayInv'
  BY <1>2, TurnsUntouched DEF Expire, payVars
<1>3. ASSUME NEW p, Visit(p)
      PROVE  PayInv'
  BY <1>3, TurnsUntouched DEF Visit, gateVars, payVars
<1>4. CASE Connect \/ PressOpen \/ PressRevoke \/ Disconnect
  BY <1>4, TurnsUntouched DEF Connect, PressOpen, PressRevoke, Disconnect, gateVars, payVars
<1>5. CASE UNCHANGED vars
  BY <1>5, TurnsUntouched DEF vars, gateVars, payVars
<1>6. QED
  BY <1>1, <1>2, <1>3, <1>4, <1>5, GatewayTurnKeepsPayments, SendKeepsPayments,
     TurnStepKeepsPayments, ReloadKeepsPayments DEF Next
-----------------------------------------------------------------------------
(* The page *)

\* A component that is told its flags keeps them or is unmounted with its turns.
LEMMA FlagsKept ==
    ASSUME NEW flags, KeepChat(flags)
    PROVE  busy' \subseteq flags /\ (onScreen' = onScreen \/ onScreen' = {})
BY DEF KeepChat

LEMMA StepKeepsPage ==
    ASSUME PageTypeOK, [Next]_vars
    PROVE  PageTypeOK'
<1>1. mishaps \in 0..Mishaps /\ Mishaps \in Nat /\ visits \in 0..Visits /\ Visits \in Nat
  BY WebAssumption DEF PageTypeOK
<1>2. /\ mishaps < Mishaps => mishaps + 1 \in 0..Mishaps
      /\ visits < Visits => visits + 1 \in 0..Visits
  BY <1>1
<1>3. ASSUME NEW t \in Turns, UserSends(t) \/ TurnStep(t)
      PROVE  PageTypeOK'
  <2>1. /\ UNCHANGED <<page, ready, wallet, visits>>
        /\ mishaps' = mishaps \/ (mishaps < Mishaps /\ mishaps' = mishaps + 1)
    BY <1>3 DEF UserSends, Send, FetchThrows, TurnStep, Challenged, Settled, Redeemed, Collected, Refused,
         sessionVars
  <2>2. busy' \subseteq busy \cup {"chat"} /\ onScreen' \subseteq onScreen \cup {t}
    BY <1>3 DEF UserSends, Send, FetchThrows, TurnStep, Challenged, Settled, Redeemed, Collected, Refused,
         GiveUp, Finish, SentAway
  <2>3. QED
    BY <1>2, <2>1, <2>2 DEF PageTypeOK
<1>4. ASSUME NEW t \in Turns, GatewayTurn(t)
      PROVE  PageTypeOK'
  BY <1>4 DEF GatewayTurn, sessionVars, boundVars, PageTypeOK
<1>5. ASSUME NEW j \in jobs, GatewayJob(j)
      PROVE  PageTypeOK'
  BY <1>5 DEF GatewayJob, sessionVars, boundVars, PageTypeOK
<1>6. ASSUME NEW j \in jobs, Continues(j) \/ JobThrows(j)
      PROVE  PageTypeOK'
  <2>1. /\ UNCHANGED <<page, visits>> /\ ready' \in {ready, TRUE, ready \/ j.by = "load"}
        /\ wallet' \in {wallet, TRUE}
        /\ mishaps' = mishaps \/ (mishaps < Mishaps /\ mishaps' = mishaps + 1)
    BY <1>6 DEF Continues, JobThrows, Opened, Restored, Activate, SetWallet, SessionEnded,
         Refreshed, JobOutage, ActivateFails, sessionVars
  <2>2. \/ UNCHANGED <<busy, onScreen>>
        \/ \E flags \in SUBSET busy : KeepChat(flags)
    <3>1. busy \ {j.by} \in SUBSET busy /\ busy \in SUBSET busy
      OBVIOUS
    <3>2. QED
      BY <1>6, <3>1 DEF Continues, JobThrows, Opened, Restored, Activate, SetWallet,
         SessionEnded, Refreshed, JobOutage, ActivateFails, Release
  <2>3. busy' \subseteq busy /\ onScreen' \subseteq onScreen
    BY <2>2, FlagsKept
  <2>4. ready' \in BOOLEAN
    BY <2>1 DEF PageTypeOK
  <2>5. QED
    BY <1>2, <2>1, <2>3, <2>4 DEF PageTypeOK
<1>7. ASSUME NEW s \in Sessions, Expire(s)
      PROVE  PageTypeOK'
  BY <1>2, <1>7 DEF Expire, sessionVars, PageTypeOK
<1>8. ASSUME NEW p \in {"chat", "settings"}, Visit(p)
      PROVE  PageTypeOK'
  BY <1>2, <1>8 DEF Visit, sessionVars, PageTypeOK
<1>9. CASE Reload
  BY <1>2, <1>9 DEF Reload, PageTypeOK
<1>10. CASE Connect \/ PressOpen \/ PressRevoke \/ Disconnect
  BY <1>10 DEF Connect, PressOpen, PressRevoke, Disconnect, sessionVars, boundVars, PageTypeOK
<1>11. CASE UNCHANGED vars
  BY <1>11 DEF vars, sessionVars, boundVars, PageTypeOK
<1>12. QED
  BY <1>3, <1>4, <1>5, <1>6, <1>7, <1>8, <1>9, <1>10, <1>11 DEF Next
-----------------------------------------------------------------------------
(* The theorems *)

LEMMA InitWeb == Init => WebInv
<1> SUFFICES ASSUME Init PROVE WebInv
  OBVIOUS
<1>1. PayInv
  <2>1. Idle \in Message /\ Unsent \in Turn
    BY DEF Idle, Message, Unsent, Turn, SessionOrNull
  <2>2. PayTypeOK
    BY <2>1 DEF Init, PayTypeOK
  <2>3. ASSUME NEW t \in Turns
        PROVE  TurnInv(t)
    BY DEF Init, TurnInv, Idle, Unsent, Flying, InFlight
  <2>4. QED
    BY <2>2, <2>3 DEF PayInv
<1>2. SessionInv
  <2>1. SessionTypeOK /\ DroppedStaysDropped
    BY WebAssumption DEF Init, SessionTypeOK, DroppedStaysDropped
  <2>2. JobsInv
    BY DEF Init, JobsInv, UnderWay, Ending, BroughtOnce
  <2>3. QED
    BY <2>1, <2>2 DEF SessionInv
<1>3. PageTypeOK
  <2>1. 0 \in 0..Mishaps /\ 0 \in 0..Visits
    BY WebAssumption
  <2>2. QED
    BY <2>1 DEF Init, PageTypeOK
<1>4. QED
  BY <1>1, <1>2, <1>3 DEF WebInv

LEMMA WebInvHolds == Spec => []WebInv
<1>1. WebInv /\ [Next]_vars => WebInv'
  BY StepKeepsPayments, StepKeepsSessions, StepKeepsPage DEF WebInv
<1>2. QED
  BY <1>1, InitWeb, PTL DEF Spec

\* Whatever the user presses, leaves or reloads and whatever is lost, no turn
\* moves money twice, and one that shows "paid" stands for one transfer of the
\* amount it showed (x402-flow.ts:104-161, chat.tsx:115-231).
THEOREM ReceiptsAreTrue == Spec => []ReceiptIsTrue
<1>1. WebInv => ReceiptIsTrue
  BY DEF WebInv, PayInv, TurnInv, ReceiptIsTrue, SaysPaid
<1>2. QED
  BY <1>1, WebInvHolds, PTL

\* A turn pays with a session only if it did so before, or was sent with the one
\* that is current.
LEMMA TurnsPayByTheCurrentSession ==
    ASSUME PayInv, SessionInv, [Next]_vars, NEW s \in dropped
    PROVE  PayingBy(s)' \subseteq PayingBy(s)
<1>1. turn \in [Turns -> Turn] /\ token # s
  BY DEF PayInv, PayTypeOK, SessionInv, DroppedStaysDropped
<1>2. CASE turn' = turn
  BY <1>2 DEF PayingBy, Flying
<1>3. ASSUME NEW t \in Turns, NEW u \in Turn, turn' = [turn EXCEPT ![t] = u],
             u.at \in InFlight => (Flying(t) /\ u.of = turn[t].of) \/ u.of = token
      PROVE  PayingBy(s)' \subseteq PayingBy(s)
  BY <1>1, <1>3 DEF PayingBy, Flying
<1>4. ASSUME NEW t \in Turns, UserSends(t) \/ TurnStep(t)
      PROVE  PayingBy(s)' \subseteq PayingBy(s)
  <2>1. turn[t] \in Turn /\ wire[t] \in Message
    BY <1>1 DEF PayInv, PayTypeOK
  <2>2. ASSUME NEW to \in {"done", "failed", "settled", "collecting"},
               to \in InFlight => Flying(t), turn' = [turn EXCEPT ![t].at = to]
        PROVE  PayingBy(s)' \subseteq PayingBy(s)
    <3> DEFINE u == [turn[t] EXCEPT !.at = to]
    <3>1. u \in Turn /\ u.at = to /\ u.of = turn[t].of
      BY <2>1 DEF Turn, InFlight
    <3>2. turn' = [turn EXCEPT ![t] = u]
      BY <2>2
    <3> HIDE DEF u
    <3>3. QED
      BY <1>3, <2>2, <3>1, <3>2
  <2>3. CASE Send(t) /\ wallet
    <3> DEFINE u == [turn[t] EXCEPT !.at = "probing", !.of = token,
                                    !.ceiling = SpendCap - info.spent]
    <3>1. token \in SessionOrNull /\ info \in SessionInfo
      BY <2>3, NullIsNotUnderWay
         DEF Send, ChatShown, Status, SessionInv, SessionTypeOK, SessionOrNull
    <3>2. SpendCap - info.spent \in Int
      BY <3>1, WebAssumption DEF SessionInfo
    <3>3. u \in Turn /\ u.of = token
      BY <2>1, <3>1, <3>2 DEF Turn, InFlight
    <3>4. turn' = [turn EXCEPT ![t] = u]
      BY <2>3 DEF Send
    <3> HIDE DEF u
    <3>5. QED
      BY <1>3, <3>3, <3>4
  <2>4. CASE (Send(t) /\ ~wallet) \/ FetchThrows(t) \/ Refused(t) \/ Collected(t) \/ Redeemed(t)
    BY <2>2, <2>4 DEF Send, FetchThrows, GiveUp, Refused, Collected, Redeemed, Finish,
       Flying, InFlight
  <2>5. CASE Settled(t)
    <3> DEFINE u == [turn[t] EXCEPT !.at = "settled", !.receipt = (wire[t].is = "ticket")]
    <3>1. u \in Turn /\ u.of = turn[t].of /\ Flying(t)
      BY <2>1, <2>5 DEF Turn, InFlight, Settled, Flying
    <3>2. turn' = [turn EXCEPT ![t] = u]
      BY <2>5 DEF Settled
    <3> HIDE DEF u
    <3>3. QED
      BY <1>3, <3>1, <3>2
  <2>6. CASE Challenged(t)
    <3> DEFINE u == [turn[t] EXCEPT !.at = "paying", !.offer = wire[t].price]
    <3>1. u \in Turn /\ u.of = turn[t].of /\ Flying(t)
      BY <2>1, <2>6 DEF Turn, Message, InFlight, Challenged, Flying
    <3>2. turn' = [turn EXCEPT ![t] = u] \/ turn' = [turn EXCEPT ![t].at = "failed"]
      BY <2>6 DEF Challenged, Finish
    <3> HIDE DEF u
    <3>3. QED
      BY <1>3, <2>2, <3>1, <3>2 DEF InFlight
  <2>7. QED
    BY <1>4, <2>3, <2>4, <2>5, <2>6 DEF UserSends, TurnStep
<1>5. CASE Reload
  BY <1>1, <1>5 DEF Reload, PayingBy, Flying, InFlight, Turn
<1>6. QED
  BY <1>2, <1>4, <1>5 DEF Next, GatewayTurn, GatewayJob, Continues, JobThrows, Expire, Visit,
     Connect, PressOpen, PressRevoke, Disconnect, vars

\* A session disconnected, or whose revocation has been answered, is never the
\* tab's again, through however many openings, late answers and reloads, because
\* only sessions the browser does not know of are ever under way into it; and of
\* the turns that pay with it none is new (session-context.tsx:160-177).
THEOREM DroppedSessionsWindDown == Spec => DroppedWindsDown
<1>1. WebInv /\ WebInv' /\ [Next]_vars =>
         [\A s \in dropped :
             s \notin {token', stored'} /\ PayingBy(s)' \subseteq PayingBy(s)]_vars
  <2> SUFFICES ASSUME WebInv, WebInv', [Next]_vars, NEW s \in dropped
               PROVE  s \notin {token', stored'} /\ PayingBy(s)' \subseteq PayingBy(s)
    OBVIOUS
  <2>1. dropped \subseteq dropped'
    BY DEF Next, UserSends, TurnStep, GatewayTurn, GatewayJob, Continues, Opened, Restored,
       Activate, SetWallet, SessionEnded, Refreshed, JobThrows, JobOutage, ActivateFails,
       Expire, Visit, Reload, Connect, PressOpen, PressRevoke, Disconnect, vars
  <2>2. s \notin {token', stored'}
    BY <2>1 DEF WebInv, SessionInv, DroppedStaysDropped
  <2>3. QED
    BY <2>2, TurnsPayByTheCurrentSession DEF WebInv
<1>2. QED
  BY <1>1, WebInvHolds, PTL DEF Spec, DroppedWindsDown
===============================================================================
