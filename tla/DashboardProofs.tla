---------------------------- MODULE DashboardProofs ----------------------------
(***************************************************************************)
(* No late answer is shown for another question, and the list that follows a *)
(* button shows what the button did, whatever the number of questions under  *)
(* way, windows, sessions, credentials and visits.                          *)
(***************************************************************************)
EXTENDS DashboardProps, TLAPS

\* A question is of the shape its page reads answers into.
LEMMA QuestionsAreTyped ==
    ASSUME NEW s \in Nat, NEW d \in Nat
    PROVE  Figures(s, d) \in Questions /\ Listing(s) \in Questions /\ Idle \in Questions
BY DEF Figures, Listing, Idle, Questions

\* The windows a page can ask for are numbers of days.
LEMMA WindowIsTyped ==
    ASSUME AskTypeOK, NEW p \in Pages
    PROVE  days \in Nat /\ WindowOf(p) \in Nat
BY DashboardAssumption DEF AskTypeOK, WindowOf, LIVE_DAYS

LEMMA InitAsked == Init => AskedInv
BY QuestionsAreTyped DEF Init, AskedInv, AskTypeOK, Idle, Questions, Pages, Snapshots

\* The effects of a page ask for the session and the window it has by then.
LEMMA EffectsAreCurrent ==
    ASSUME NEW p \in Pages, NEW s \in Nat, NEW d \in Nat, NEW ask \in Effects(p, s, d)
    PROVE  /\ ask \in Questions
           /\ ask.what = "figures"
                 => ask.of = s /\ ask.days = (IF p = "live" THEN LIVE_DAYS ELSE d)
<1> USE DEF Effects, Figures, Listing, LIVE_DAYS
<1>1. ask \in Questions
  BY QuestionsAreTyped
<1>2. QED
  BY <1>1

\* After the effects have run again, what is under way was kept or is new.
LEMMA RerunAsks ==
    ASSUME NEW kept \in [Slots -> Questions], NEW effects \in SUBSET Questions,
           Rerun(kept, effects)
    PROVE  /\ asks' \in [Slots -> Questions]
           /\ \A s \in Slots : asks'[s] = kept[s] \/ asks'[s] \in effects
BY DEF Rerun

LEMMA StepAsked == AskedInv /\ [Next]_vars => AskedInv'
<1> SUFFICES ASSUME AskedInv, [Next]_vars
             PROVE  AskedInv'
  OBVIOUS
<1> USE DEF AskedInv
<1>0. Idle \in Questions /\ Idle.what = "nothing"
  BY QuestionsAreTyped DEF Idle, Questions
<1>1. ASSUME UNCHANGED <<rows, creds, page, token, days, asks>>
      PROVE  AskedInv'
  BY <1>1 DEF AskTypeOK, WindowOf
<1>2. ASSUME NEW table \in DOMAIN rows, LedgerGrows(table)
      PROVE  AskedInv'
  BY <1>2 DEF LedgerGrows, AskTypeOK, WindowOf, pageVars
<1>3. ASSUME NEW s \in Slots, NEW part \in Parts, Query(s, part)
      PROVE  AskedInv'
  <2>1. asks[s] \in [what : {"figures"}, of : Nat, days : Nat,
                     got : [Parts -> Nat \cup {Nothing}]]
    BY <1>3 DEF Query, AskTypeOK, Questions
  <2>2. rows[TableOf(part)] \in Nat
    BY DEF AskTypeOK, TableOf
  <2>3. /\ asks'[s] \in Questions
        /\ asks'[s].of = asks[s].of /\ asks'[s].days = asks[s].days
    BY <1>3, <2>1, <2>2 DEF Query, AskTypeOK, Questions
  <2>4. QED
    BY <1>3, <2>1, <2>3 DEF Query, AskTypeOK, WindowOf, pageVars
<1>4. ASSUME NEW s \in Slots, ListQuery(s)
      PROVE  AskedInv'
  <2>1. asks'[s] \in Questions /\ asks'[s].what = "list"
    BY <1>4 DEF ListQuery, AskTypeOK, Questions
  <2>2. QED
    BY <1>4, <2>1 DEF ListQuery, AskTypeOK, WindowOf, pageVars
<1>5. ASSUME NEW s \in Slots, ShowFigures(s) \/ ShowList(s) \/ AskThrows(s)
      PROVE  AskedInv'
  BY <1>0, <1>5 DEF ShowFigures, ShowList, AskThrows, AskTypeOK, WindowOf, pageVars
<1>6. ASSUME NEW s \in Slots, Tick(s)
      PROVE  AskedInv'
  <2>1. Figures(token, LIVE_DAYS) \in Questions
    BY QuestionsAreTyped DEF AskTypeOK, LIVE_DAYS
  <2>2. QED
    BY <1>6, <2>1 DEF Tick, Ticks, Figures, AskTypeOK, WindowOf, pageVars
<1>7. ASSUME NEW p \in Pages, Visit(p)
      PROVE  AskedInv'
  <2>1. \A ask \in Effects(p, token, days) :
           ask \in Questions /\ (ask.what = "figures" => ask.of = token /\ ask.days = WindowOf(p))
    BY EffectsAreCurrent, WindowIsTyped DEF AskTypeOK, WindowOf
  <2>2. [s \in Slots |-> Idle] \in [Slots -> Questions]
    BY <1>0
  <2>3. /\ asks' \in [Slots -> Questions]
        /\ \A s \in Slots : asks'[s] = Idle \/ asks'[s] \in Effects(p, token, days)
    BY <1>7, <2>1, <2>2, RerunAsks DEF Visit
  <2>4. QED
    BY <1>0, <1>7, <2>1, <2>3 DEF Visit, AskTypeOK, WindowOf
<1>8. ASSUME NEW d \in Windows, ChooseWindow(d)
      PROVE  AskedInv'
  <2>1. Figures(token, d) \in Questions
    BY QuestionsAreTyped, DashboardAssumption DEF AskTypeOK
  <2>2. Cancelled("figures") \in [Slots -> Questions]
    BY <1>0 DEF Cancelled, AskTypeOK
  <2>3. /\ asks' \in [Slots -> Questions]
        /\ \A s \in Slots : asks'[s] = Cancelled("figures")[s] \/ asks'[s] = Figures(token, d)
    BY <1>8, <2>1, <2>2, RerunAsks DEF ChooseWindow
  <2>4. QED
    BY <1>0, <1>8, <2>3 DEF ChooseWindow, Cancelled, Figures, AskTypeOK, WindowOf
<1>9. ASSUME SwitchSession
      PROVE  AskedInv'
  <2>1. \A ask \in Effects(page, token + 1, days) :
           /\ ask \in Questions
           /\ ask.what = "figures" => ask.of = token + 1 /\ ask.days = WindowOf(page)
    BY EffectsAreCurrent, WindowIsTyped DEF AskTypeOK, WindowOf
  <2>2. Cancelled("figures") \in [Slots -> Questions]
    BY <1>0 DEF Cancelled, AskTypeOK
  <2>3. /\ asks' \in [Slots -> Questions]
        /\ \A s \in Slots : \/ asks'[s] = Cancelled("figures")[s]
                            \/ asks'[s] \in Effects(page, token + 1, days)
    BY <1>9, <2>1, <2>2, RerunAsks DEF SwitchSession
  <2>4. QED
    BY <1>0, <1>9, <2>1, <2>3 DEF SwitchSession, Cancelled, AskTypeOK, WindowOf
<1>10. ASSUME NEW h \in handlers, Continues(h) \/ HandlerThrows(h)
       PROVE  AskedInv'
  <2>1. CASE HarnessWrite(h)
    BY <2>1 DEF HarnessWrite, AskTypeOK, Snapshots, WindowOf, pageVars
  <2>2. CASE HarnessList(h) \/ Written(h) \/ Listed(h) \/ HandlerThrows(h)
    BY <1>1, <2>2 DEF HarnessList, Written, Listed, HandlerThrows, pageVars
  <2>3. QED
    BY <1>10, <2>1, <2>2 DEF Continues
<1>11. ASSUME NEW c \in Credentials, PressRevoke(c)
       PROVE  AskedInv'
  BY <1>1, <1>11 DEF PressRevoke, Press, pageVars
<1>12. CASE PressGenerate
  BY <1>1, <1>12 DEF PressGenerate, Press, pageVars
<1>13. CASE UNCHANGED vars
  BY <1>1, <1>13 DEF vars, pageVars
<1>14. QED
  BY <1>2, <1>3, <1>4, <1>5, <1>6, <1>7, <1>8, <1>9, <1>10, <1>11, <1>12, <1>13
     DEF Next, Answers, Shows

\* On Live and on Analytics no late answer is shown under another window's title
\* or for another session (analytics.tsx:16-33, live-feed.tsx:30-58).
THEOREM LateAnswersAreDropped == Spec => FiguresAreTheOnesAsked
<1>1. AskedInv /\ [Next]_vars
         => [data' \notin {data, Nothing}
                => data'.of = token' /\ data'.days = WindowOf(page')]_vars
  <2> SUFFICES ASSUME AskedInv, [Next]_vars, data' \notin {data, Nothing}
               PROVE  data'.of = token' /\ data'.days = WindowOf(page')
    OBVIOUS
  <2>1. PICK s \in Slots : ShowFigures(s)
    BY DEF Next, vars, pageVars, shownVars, boundVars, LedgerGrows, Answers, Query, ListQuery,
         Shows, ShowList, Tick, AskThrows, Continues, HarnessWrite, HarnessList, Written,
         Listed, HandlerThrows, Visit, ChooseWindow, SwitchSession, PressRevoke,
         PressGenerate, Press
  <2>2. QED
    BY <2>1 DEF ShowFigures, AskedInv, WindowOf, pageVars
<1>2. QED
  BY <1>1, InitAsked, StepAsked, PTL DEF Spec, FiguresAreTheOnesAsked
-----------------------------------------------------------------------------
(* The list after a change *)

LEMMA InitList == Init => ListInv
BY DEF Init, ListInv, Snapshots

\* A credential is never taken back to an earlier stage, so a change once there
\* stays in every later picture.
LEMMA ChangesStay ==
    ASSUME NEW h \in Handlers, ChangesLast(h), creds \in Snapshots, creds' \in Snapshots,
           \A c \in Credentials : creds'[c] = creds[c] \/ creds'[c] = "revoked"
                                  \/ creds[c] = "none"
    PROVE  ChangesLast(h)'
BY DEF ChangesLast, ShowsChange, Handlers, Snapshots

\* A step that leaves the credentials alone and awaits nothing new.
LEMMA FewerHandlers ==
    ASSUME ListInv, UNCHANGED creds, handlers' \subseteq handlers
    PROVE  ListInv'
BY DEF ListInv, ChangesLast, ShowsChange

\* A step of one handler, which goes on as k.
LEMMA OneAdvances ==
    ASSUME ListInv, creds' \in Snapshots, NEW h \in handlers, NEW k \in Handlers,
           Advance(h, k), ChangesLast(k)',
           \A c \in Credentials : creds'[c] = creds[c] \/ creds'[c] = "revoked"
                                  \/ creds[c] = "none"
    PROVE  ListInv'
<1>1. \A g \in handlers : ChangesLast(g)'
  BY ChangesStay DEF ListInv
<1>2. QED
  BY <1>1 DEF ListInv, Advance

LEMMA PressKeepsListInv ==
    ASSUME ListInv, NEW op \in {"create", "revoke"}, NEW c \in Credentials \cup {Nothing},
           op = "revoke" => c \in Credentials, Press(op, c)
    PROVE  ListInv'
<1> DEFINE new == [op |-> op, cred |-> c, step |-> "sent", got |-> Nothing, mounted |-> TRUE]
<1>1. new \in Handlers /\ new.got = Nothing /\ new.step = "sent" /\ new.op = op /\ new.cred = c
  BY DEF Handlers
<1>2. ChangesLast(new)'
  BY <1>1 DEF ChangesLast
<1>3. handlers' = handlers \cup {new} /\ UNCHANGED creds
  BY DEF Press
<1>4. \A h \in handlers : ChangesLast(h)'
  BY <1>3 DEF ListInv, ChangesLast, ShowsChange
<1>5. QED
  BY <1>1, <1>2, <1>3, <1>4 DEF ListInv

LEMMA HandlerKeepsListInv ==
    ASSUME ListInv, NEW h \in handlers, Continues(h) \/ HandlerThrows(h)
    PROVE  ListInv'
<1>1. h \in Handlers /\ ChangesLast(h) /\ creds \in Snapshots
  BY DEF ListInv
<1>2. CASE HarnessWrite(h) /\ h.op = "create"
  <2>1. PICK c \in Credentials :
           /\ h.step = "sent" /\ creds[c] = "none" /\ creds' = [creds EXCEPT ![c] = "active"]
           /\ Advance(h, [h EXCEPT !.step = "written", !.cred = c])
    BY <1>1, <1>2 DEF HarnessWrite
  <2> DEFINE k == [h EXCEPT !.step = "written", !.cred = c]
  <2>2. /\ k \in Handlers /\ k.op = "create" /\ k.step = "written" /\ k.cred = c
        /\ k.got = Nothing
    BY <1>1, <1>2, <2>1 DEF Handlers, ChangesLast
  <2>3. creds' \in Snapshots /\ creds'[c] = "active"
    BY <1>1, <2>1 DEF Snapshots
  <2>4. ChangesLast(k)'
    BY <2>2, <2>3 DEF ChangesLast, ShowsChange
  <2>5. \A d \in Credentials : creds'[d] = creds[d] \/ creds'[d] = "revoked"
                               \/ creds[d] = "none"
    BY <1>1, <2>1 DEF Snapshots
  <2>6. QED
    BY <2>1, <2>2, <2>3, <2>4, <2>5, OneAdvances
<1>3. CASE HarnessWrite(h) /\ h.op # "create"
  <2>1. /\ h.step = "sent" /\ creds' = [creds EXCEPT ![h.cred] = "revoked"]
        /\ Advance(h, [h EXCEPT !.step = "written"])
    BY <1>3 DEF HarnessWrite
  <2> DEFINE k == [h EXCEPT !.step = "written"]
  <2>2. /\ k \in Handlers /\ k.op = "revoke" /\ k.step = "written" /\ k.cred = h.cred
        /\ k.got = Nothing /\ h.cred \in Credentials
    BY <1>1, <1>3, <2>1 DEF Handlers, ChangesLast
  <2>3. creds' \in Snapshots /\ creds'[h.cred] = "revoked"
    BY <1>1, <2>1, <2>2 DEF Snapshots
  <2>4. ChangesLast(k)'
    BY <2>2, <2>3 DEF ChangesLast, ShowsChange
  <2>5. \A d \in Credentials : creds'[d] = creds[d] \/ creds'[d] = "revoked"
                               \/ creds[d] = "none"
    BY <1>1, <2>1 DEF Snapshots
  <2>6. QED
    BY <2>1, <2>2, <2>3, <2>4, <2>5, OneAdvances
<1>4. CASE HarnessList(h)
  <2>1. h.step = "listing" /\ UNCHANGED creds /\ Advance(h, [h EXCEPT !.got = creds])
    BY <1>4 DEF HarnessList, ListsNow
  <2> DEFINE k == [h EXCEPT !.got = creds]
  <2>2. /\ k \in Handlers /\ k.op = h.op /\ k.step = "listing" /\ k.cred = h.cred
        /\ k.got = creds
    BY <1>1, <2>1 DEF Handlers
  <2>3. ChangesLast(k)'
    BY <1>1, <2>1, <2>2 DEF ChangesLast, ShowsChange
  <2>4. QED
    BY <1>1, <2>1, <2>2, <2>3, OneAdvances
<1>5. CASE Written(h)
  <2>1. h.step = "written" /\ UNCHANGED creds /\ Advance(h, [h EXCEPT !.step = "listing"])
    BY <1>5 DEF Written
  <2> DEFINE k == [h EXCEPT !.step = "listing"]
  <2>2. /\ k \in Handlers /\ k.op = h.op /\ k.step = "listing" /\ k.cred = h.cred
        /\ k.got = h.got
    BY <1>1, <2>1 DEF Handlers
  <2>3. ChangesLast(k)'
    BY <1>1, <2>1, <2>2 DEF ChangesLast, ShowsChange
  <2>4. QED
    BY <1>1, <2>1, <2>2, <2>3, OneAdvances
<1>6. CASE Listed(h) \/ HandlerThrows(h)
  BY <1>6, FewerHandlers DEF Listed, HandlerThrows
<1>7. QED
  BY <1>2, <1>3, <1>4, <1>5, <1>6 DEF Continues

LEMMA StepList == ListInv /\ [Next]_vars => ListInv'
<1> SUFFICES ASSUME ListInv, [Next]_vars
             PROVE  ListInv'
  OBVIOUS
<1>1. ASSUME NEW p \in Pages, Visit(p)
      PROVE  ListInv'
  <2>1. UNCHANGED creds /\ handlers' = {[h EXCEPT !.mounted = FALSE] : h \in handlers}
    BY <1>1 DEF Visit
  <2>2. ASSUME NEW h \in handlers
        PROVE  /\ [h EXCEPT !.mounted = FALSE] \in Handlers
               /\ ChangesLast([h EXCEPT !.mounted = FALSE])'
    BY <2>1, <2>2 DEF ListInv, Handlers, ChangesLast, ShowsChange
  <2>3. QED
    BY <2>1, <2>2 DEF ListInv
<1>2. ASSUME NEW h \in handlers, Continues(h) \/ HandlerThrows(h)
      PROVE  ListInv'
  BY <1>2, HandlerKeepsListInv
<1>3. ASSUME NEW c \in Credentials, PressRevoke(c)
      PROVE  ListInv'
  BY <1>3, PressKeepsListInv DEF PressRevoke
<1>4. CASE PressGenerate
  BY <1>4, PressKeepsListInv DEF PressGenerate
<1>5. CASE \/ \E table \in DOMAIN rows : LedgerGrows(table)
           \/ \E s \in Slots : Answers(s) \/ Shows(s) \/ Tick(s) \/ AskThrows(s)
           \/ \E d \in Windows : ChooseWindow(d)
           \/ SwitchSession
           \/ UNCHANGED vars
  <2>1. UNCHANGED <<creds, handlers>>
    BY <1>5 DEF LedgerGrows, Answers, Query, ListQuery, Shows, ShowFigures, ShowList, Tick,
         AskThrows, ChooseWindow, SwitchSession, vars
  <2>2. QED
    BY <2>1, FewerHandlers
<1>6. QED
  BY <1>1, <1>2, <1>3, <1>4, <1>5 DEF Next

\* After a button of Settings the list comes to show what the button did, however
\* late the answers and whatever was revoked or generated meanwhile
\* (settings.tsx:49-71).
THEOREM ListFollowsTheButton == Spec => ListShowsTheChange
<1>1. ListInv /\ [Next]_vars
         => [\A h \in handlers : Listed(h) /\ h.mounted
                => list'[h.cred] = "revoked" \/ (h.op = "create" /\ list'[h.cred] = "active")]_vars
  BY DEF ListInv, ChangesLast, ShowsChange, Listed
<1>2. QED
  BY <1>1, InitList, StepList, PTL DEF Spec, ListShowsTheChange
===============================================================================
